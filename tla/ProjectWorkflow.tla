-------------------------- MODULE ProjectWorkflow --------------------------
(***************************************************************************)
(* Concurrent invocations of the `workflow` commands, and of `project      *)
(* ingest`, over one project directory.  Every invocation is an operating  *)
(* system process of its own; what they share is the project database and  *)
(* the proposal and review files under .humanhand/reports/workflow.        *)
(*                                                                         *)
(* A store.atomic() block (BEGIN IMMEDIATE ... COMMIT) is two steps: one   *)
(* takes the write lock and makes every write of the block in `staged`,    *)
(* Commit publishes them.  In between the other processes read `db`, and   *)
(* a crash, a refusal or an I/O error may strike (Abort).  A query outside *)
(* such a block is one step per table read, because another process may    *)
(* commit between two queries.  Path.write_text is two steps, the          *)
(* truncation and the write.                                               *)
(***************************************************************************)
EXTENDS ProjectStore, SequencesExt

CONSTANTS
    Clients,      \* command invocations that may run at the same time
    Canonical,    \* project id for the resolved root: what `workflow` opens
    Nobody,       \* the write lock is free
    Invoked,      \* bound of the model: the commands that are invoked
    MaxToken,     \* bound of the model: revisions of one document
    MaxRuns       \* bound of the model: runs with a proposal file

Commands == {"ingest", "project ingest", "bind-style", "context", "propose",
             "decide", "apply"}

ASSUME ClientAssumption ==
    /\ Canonical \in ProjectIds
    /\ Nobody \notin Clients
    /\ Invoked \subseteq Commands
    /\ MaxToken \in Nat \ {0}
    /\ MaxRuns \in Nat

VARIABLES
    db,           \* the committed database
    lock,         \* the process whose transaction is open, or Nobody
    staged,       \* the database as the open transaction sees it
    pc,           \* pc[p]: the step process p takes next
    loc,          \* loc[p]: the local variables of process p
    proposals,    \* <run>.proposal.json files
    reviews,      \* <run>.review.json files
    approved      \* history: <<run, change>> pairs a `decide` accepted

vars == <<db, lock, staged, pc, loc, proposals, reviews, approved>>

Steps == {"idle", "ingest", "revision", "spans", "show", "build",
          "writeProposal", "profile", "finalize", "truncate", "writeReview",
          "commit"}

\* A review file: the decisions it holds when it parses.  A file truncated
\* and not yet written is "empty"; one written by two processes at once may
\* be "mixed".  Neither of these parses.
Journal ==
    [file : {"empty", "mixed", "intact"},
     accepted : SUBSET Changes, rejected : SUBSET Changes]

Unreadable(state) == [file |-> state, accepted |-> {}, rejected |-> {}]

NoDecisions == [file |-> "intact", accepted |-> {}, rejected |-> {}]

Locals ==
    [cmd      : Commands \cup {"none"},
     doc      : Docs \cup {NoRow},
     label    : Labels \cup {NoLabel},
     run      : Run \cup {NoRun},
     accepted : SUBSET Changes,              \* apply: the accepted changes
     row      : RevisionRow \cup {NoRow},    \* the revision loaded
     spans    : SUBSET Shifting,             \* the span offsets loaded
     prior    : Journal,                     \* decide: decisions read
     next     : Journal]                     \* decide: decisions to write

Blank ==
    [cmd |-> "none", doc |-> NoRow, label |-> NoLabel, run |-> NoRun,
     accepted |-> {}, row |-> NoRow, spans |-> {},
     prior |-> NoDecisions, next |-> NoDecisions]

TypeOK ==
    /\ db \in Database
    /\ staged \in Database
    /\ lock \in Clients \cup {Nobody}
    /\ pc \in [Clients -> Steps]
    /\ loc \in [Clients -> Locals]
    /\ DOMAIN proposals \subseteq Run
    /\ \A run \in DOMAIN proposals : proposals[run] \in {"empty", "intact"}
    /\ DOMAIN reviews \subseteq Run
    /\ \A run \in DOMAIN reviews : reviews[run] \in Journal
    /\ approved \subseteq Run \X Changes

Put(f, key, value) ==
    [k \in DOMAIN f \cup {key} |-> IF k = key THEN value ELSE f[k]]

Init ==
    /\ db = EmptyDatabase
    /\ staged = EmptyDatabase
    /\ lock = Nobody
    /\ pc = [p \in Clients |-> "idle"]
    /\ loc = [p \in Clients |-> Blank]
    /\ proposals = << >>
    /\ reviews = << >>
    /\ approved = {}

-----------------------------------------------------------------------------
(* Transactions *)

files == <<proposals, reviews, approved>>

Goto(p, step) == pc' = [pc EXCEPT ![p] = step]

Finish(p) ==
    /\ Goto(p, "idle")
    /\ loc' = [loc EXCEPT ![p] = Blank]

\* BEGIN IMMEDIATE and the writes of the block, whose outcome is next.
Stage(p, next) ==
    /\ lock = Nobody
    /\ lock' = p
    /\ staged' = next
    /\ Goto(p, "commit")
    /\ UNCHANGED <<db, files>>

Commit(p) ==
    /\ pc[p] = "commit"
    /\ db' = staged
    /\ lock' = Nobody
    /\ Finish(p)
    /\ UNCHANGED <<staged, files>>

\* The command stops before its end: a check refuses, the database is busy
\* or full, or the process dies.  An open transaction is rolled back; a file
\* keeps the bytes it has.
Abort(p) ==
    /\ pc[p] # "idle"
    /\ IF lock = p THEN lock' = Nobody /\ staged' = db
                   ELSE UNCHANGED <<lock, staged>>
    /\ Finish(p)
    /\ UNCHANGED <<db, files>>

Start(p, cmd, step, locals) ==
    /\ pc[p] = "idle"
    /\ cmd \in Invoked
    /\ loc' = [loc EXCEPT ![p] = [locals EXCEPT !.cmd = cmd]]
    /\ Goto(p, step)
    /\ UNCHANGED <<db, staged, lock, files>>

-----------------------------------------------------------------------------
(* workflow ingest, project ingest, workflow bind-style *)

\* ingest_source_package looks for the document before its transaction.
IngestCheck(p, d, label) ==
    /\ ~HasRevision(db, d)
    /\ Start(p, "ingest", "ingest",
             [Blank EXCEPT !.doc = d, !.label = label])

\* The rows every ingest writes, for a document of project i.
IngestRows(s, d, i) ==
    LET text == [source |-> SourceOf[d], edits |-> {}]
        facts == SaveFacts(AddDocument(EnsureProject(s, i), d, i), d)
    IN  RecordApproval(
            SaveRevision(SaveSpans(facts, d, {}), d, InitialRevision(text)),
            d, "ingest", 1)

InitialContent(d, label) ==
    [revision |-> 1, text |-> [source |-> SourceOf[d], edits |-> {}],
     style |-> label, run |-> NoRun]

IngestTx(p) ==
    /\ pc[p] = "ingest"
    /\ LET d == loc[p].doc
           label == loc[p].label
           rows == SaveContent(IngestRows(db, d, Canonical), d,
                               InitialContent(d, label))
       IN  /\ CanAddDocument(db, d)
           /\ CanSaveRevision(db, d, InitialRevision([source |-> SourceOf[d],
                                                      edits |-> {}]))
           /\ Stage(p, IF label = NoLabel
                       THEN rows ELSE BindStyle(rows, Canonical, label))
    /\ UNCHANGED loc

\* project_ingest_cmd: the check is inside the transaction, the project id
\* comes from --project as it was typed, and no revision content is saved.
ProjectIngestTx(p, d, i) ==
    /\ pc[p] = "idle"
    /\ "project ingest" \in Invoked
    /\ ~HasRevision(db, d)
    /\ CanAddDocument(db, d)
    /\ Stage(p, IngestRows(db, d, i))
    /\ UNCHANGED loc

\* One UPDATE statement, committed by itself.
BindStyleCmd(p, label) ==
    /\ pc[p] = "idle"
    /\ "bind-style" \in Invoked
    /\ lock = Nobody
    /\ CanBindStyle(db, Canonical)
    /\ db' = BindStyle(db, Canonical, label)
    /\ staged' = db'
    /\ UNCHANGED <<lock, pc, loc, files>>

-----------------------------------------------------------------------------
(* load_document_state: shared by context, propose and apply *)

StartContext(p, d) ==
    Start(p, "context", "revision", [Blank EXCEPT !.doc = d])

StartPropose(p, d) ==
    Start(p, "propose", "revision", [Blank EXCEPT !.doc = d])

\* Mutant: what was not rejected counts as accepted.
UnrejectedAccepted(p, d, run) ==
    /\ run \in DOMAIN proposals /\ proposals[run] = "intact"
    /\ run \in DOMAIN reviews /\ reviews[run].file = "intact"
    /\ Start(p, "apply", "revision",
             [Blank EXCEPT !.doc = d, !.run = run,
                           !.accepted = run.changes \ reviews[run].rejected])

\* apply_cmd reads both files of the run before it opens the store.
StartApply(p, d, run) ==
    /\ run \in DOMAIN proposals /\ proposals[run] = "intact"
    /\ run \in DOMAIN reviews /\ reviews[run].file = "intact"
    /\ Start(p, "apply", "revision",
             [Blank EXCEPT !.doc = d, !.run = run,
                           !.accepted = reviews[run].accepted])

\* The project row, the latest accepted revision and its content.  Documents
\* and contents are never changed once written, so these queries are one.
LoadRevision(p) ==
    /\ pc[p] = "revision"
    /\ LET d == loc[p].doc
       IN  /\ db.documents[d] = Canonical
           /\ \E row \in Accepted(db, d), content \in db.contents[d] :
                 /\ IsLatestAccepted(db, d, row)
                 /\ content.revision = row.revision
                 /\ content.text = row.sha
                 /\ loc' = [loc EXCEPT ![p].row = row]
    /\ Goto(p, "spans")
    /\ UNCHANGED <<db, staged, lock, files>>

AfterLoad(cmd) ==
    CASE cmd = "context" -> "show"
      [] cmd = "propose" -> "build"
      [] cmd = "apply"   -> "profile"

LoadSpans(p) ==
    /\ pc[p] = "spans"
    /\ loc' = [loc EXCEPT ![p].spans = db.spans[loc[p].doc]]
    /\ Goto(p, AfterLoad(loc[p].cmd))
    /\ UNCHANGED <<db, staged, lock, files>>

\* The offsets lie on the text: they account for its length changes.
Aligned(spans, text) == spans = text.edits \cap Shifting

\* context_cmd prints the capsule and ends.
Show(p) ==
    /\ pc[p] = "show"
    /\ Finish(p)
    /\ UNCHANGED <<db, staged, lock, files>>

-----------------------------------------------------------------------------
(* workflow propose *)

\* The rules propose every edit not yet made that touches no protected span;
\* spans that do not lie on the text may hide or expose any of them.
Proposable(text, spans) ==
    LET left == Changes \ text.edits
    IN  IF Aligned(spans, text) THEN {left \ Guarded} ELSE SUBSET left

BuildProposal(p) ==
    /\ pc[p] = "build"
    /\ \E changes \in Proposable(loc[p].row.sha, loc[p].spans) :
          LET run == [text |-> loc[p].row.sha, changes |-> changes]
          IN  /\ Cardinality(DOMAIN proposals \cup {run}) <= MaxRuns
              /\ loc' = [loc EXCEPT ![p].run = run]
              /\ proposals' = Put(proposals, run, "empty")
    /\ Goto(p, "writeProposal")
    /\ UNCHANGED <<db, staged, lock, reviews, approved>>

\* The payload is a function of the run, so every writer writes the same.
WriteProposal(p) ==
    /\ pc[p] = "writeProposal"
    /\ proposals' = Put(proposals, loc[p].run, "intact")
    /\ Finish(p)
    /\ UNCHANGED <<db, staged, lock, reviews, approved>>

-----------------------------------------------------------------------------
(* workflow decide *)

Decide(journal, change, verdict) ==
    IF verdict = "accept"
    THEN [journal EXCEPT !.accepted = @ \cup {change},
                         !.rejected = @ \ {change}]
    ELSE [journal EXCEPT !.rejected = @ \cup {change},
                         !.accepted = @ \ {change}]

ReadReview(p, run, change, verdict) ==
    /\ run \in DOMAIN proposals /\ proposals[run] = "intact"
    /\ change \in run.changes
    /\ LET prior == IF run \in DOMAIN reviews THEN reviews[run]
                                              ELSE NoDecisions
       IN  /\ prior.file = "intact"
           /\ Start(p, "decide", "truncate",
                    [Blank EXCEPT !.run = run, !.prior = prior,
                                  !.next = Decide(prior, change, verdict)])

TruncateReview(p) ==
    /\ pc[p] = "truncate"
    /\ reviews' = Put(reviews, loc[p].run, Unreadable("empty"))
    /\ Goto(p, "writeReview")
    /\ UNCHANGED <<db, staged, lock, loc, proposals, approved>>

\* A writer that finds bytes in the file it truncated overwrites a prefix
\* of them.
WriteReview(p) ==
    /\ pc[p] = "writeReview"
    /\ LET run == loc[p].run
       IN  /\ \E journal \in {loc[p].next, Unreadable("mixed")} :
                 /\ reviews[run].file = "empty" => journal = loc[p].next
                 /\ reviews' = Put(reviews, run, journal)
           /\ approved' = approved \cup ({run} \X loc[p].next.accepted)
    /\ Finish(p)
    /\ UNCHANGED <<db, staged, lock, proposals>>

-----------------------------------------------------------------------------
(* workflow apply *)

ReadProfile(p) ==
    /\ pc[p] = "profile"
    /\ loc' = [loc EXCEPT ![p].label = db.projects[Canonical]]
    /\ Goto(p, "finalize")
    /\ UNCHANGED <<db, staged, lock, files>>

\* Mutant: a proposal is applied to any text.
AnyText(run, text) == TRUE

\* apply_changes: the proposal was made for the text of these bytes.
HashMatches(run, text) == run.text = text

\* Mutant: the offsets of the spans are saved as they were loaded.
SpansAsLoaded(spans, accepted) == spans

\* The spans after the accepted edits; CanRebase when every one still shows
\* the text it protects and no accepted edit overlaps one.
CanRebase(spans, text, accepted) ==
    /\ Aligned(spans, text)
    /\ accepted \cap Guarded = {}

Rebased(spans, accepted) == spans \cup (accepted \cap Shifting)

\* finalize_reviewed_revision computes the next revision from the state that
\* was loaded, then checks under the lock that the head is still that state.
NextText(text, accepted) == [text EXCEPT !.edits = @ \cup accepted]

HeadUnchanged(s, d, row) ==
    \E head \in s.revisions[d] : /\ IsLatestAccepted(s, d, head)
                                 /\ head.revision = row.revision

\* Mutant: the head is read again under the lock instead of compared, so the
\* text of another apply is replaced by the one computed before it.
LostUpdate(p) ==
    /\ pc[p] = "finalize"
    /\ LET d        == loc[p].doc
           accepted == loc[p].accepted
           content(new) == [revision |-> new.revision, text |-> new.sha,
                            style |-> loc[p].label, run |-> loc[p].run]
       IN  \E head \in db.revisions[d] :
             LET new == AcceptRevision(
                            ProposeNext(head, NextText(loc[p].row.sha, accepted)))
             IN  /\ IsLatestAccepted(db, d, head)
                 /\ HashMatches(loc[p].run, loc[p].row.sha)
                 /\ CanRebase(loc[p].spans, loc[p].row.sha, accepted)
                 /\ new.token <= MaxToken
                 /\ Stage(p, RecordApproval(
                        SaveSpans(SaveContent(SaveRevision(db, d, new), d,
                                              content(new)),
                                  d, Rebased(loc[p].spans, accepted)),
                        d, "revision", new.revision))
    /\ UNCHANGED loc

Finalize(p) ==
    /\ pc[p] = "finalize"
    /\ LET d        == loc[p].doc
           row      == loc[p].row
           run      == loc[p].run
           accepted == loc[p].accepted
           proposed == ProposeNext(row, NextText(row.sha, accepted))
           new      == AcceptRevision(proposed)
           content  == [revision |-> new.revision, text |-> new.sha,
                        style |-> loc[p].label, run |-> run]
           saved    == SaveRevision(db, d, new)
       IN  /\ accepted \subseteq run.changes
           /\ HashMatches(run, row.sha)
           /\ CanRebase(loc[p].spans, row.sha, accepted)
           /\ CanAccept(proposed, row)
           /\ HeadUnchanged(db, d, row)
           /\ CanSaveRevision(db, d, new)
           /\ CanSaveContent(saved, d, new, content)
           /\ new.token <= MaxToken
           /\ Stage(p, RecordApproval(
                          SaveSpans(SaveContent(saved, d, content),
                                    d, Rebased(loc[p].spans, accepted)),
                          d, "revision", new.revision))
    /\ UNCHANGED loc

-----------------------------------------------------------------------------
Ingest(p) ==
    \/ \E d \in Docs, label \in Labels \cup {NoLabel} : IngestCheck(p, d, label)
    \/ IngestTx(p)
    \/ \E d \in Docs, i \in ProjectIds : ProjectIngestTx(p, d, i)

Load(p) ==
    \/ \E d \in Docs : StartContext(p, d) \/ StartPropose(p, d)
    \/ \E d \in Docs, run \in DOMAIN proposals : StartApply(p, d, run)
    \/ LoadRevision(p)
    \/ LoadSpans(p)

Review(p) ==
    \/ \E run \in DOMAIN proposals : \E change \in run.changes,
          verdict \in {"accept", "reject"} : ReadReview(p, run, change, verdict)
    \/ TruncateReview(p)
    \/ WriteReview(p)

Next ==
    \E p \in Clients :
       \/ Ingest(p)
       \/ \E label \in Labels : BindStyleCmd(p, label)
       \/ Load(p)
       \/ Show(p)
       \/ BuildProposal(p)
       \/ WriteProposal(p)
       \/ Review(p)
       \/ ReadProfile(p)
       \/ Finalize(p)
       \/ Commit(p)
       \/ Abort(p)

Spec == Init /\ [][Next]_vars

-----------------------------------------------------------------------------
(* Safety *)

HeadRow(s, d) == CHOOSE r \in s.revisions[d] : IsHead(s, d, r)

Row(s, d, n) == CHOOSE r \in s.revisions[d] : r.token = n

IsChain(revisions) ==
    \A r \in revisions :
        /\ r.status = "accepted"
        /\ r.token > 0
        /\ r.revision = r.token
        /\ r.parent = r.token - 1
        /\ r.base = r.token - 1
        /\ \A x \in revisions : x.token = r.token => x = r
        /\ r.token > 1 => \E x \in revisions : x.token = r.token - 1

\* However many commands propose revisions from states they read earlier,
\* the accepted revisions of a document form one chain: the tokens are
\* 1, 2, ..., n without gap or fork, and each revision names its predecessor
\* as parent and base (save_revision, finalize_reviewed_revision).
RevisionChain == \A d \in Docs : IsChain(db.revisions[d])

\* The stored text of a revision is the one its hash was taken from, and
\* there is no text without a revision: a reader that finds a content row
\* can rely on the revision row beside it (save_revision_content).
ContentMatches ==
    \A d \in Docs : \A c \in db.contents[d] :
        /\ \E r \in db.revisions[d] : r.revision = c.revision /\ r.sha = c.text
        /\ \A x \in db.contents[d] : x.revision = c.revision => x = c

\* The document has one set of span rows, replaced by every finalization;
\* whatever the order of concurrent applies, the committed offsets are those
\* of the committed head text (_rebase_protected_spans).
SpansOnHead ==
    \A d \in Docs : HasRevision(db, d) =>
        Aligned(db.spans[d], HeadRow(db, d).sha)

\* No accepted text changes a protected fragment, although a proposal may
\* have been built from a text and spans of two different revisions.
GuardedUntouched ==
    \A d \in Docs : \A r \in db.revisions[d] : r.sha.edits \cap Guarded = {}

\* Every edit of an accepted text was accepted by a human in the run that
\* the revision names, and that run was proposed for the text before it:
\* an approval never carries over to another text (apply_review,
\* apply_changes).
EditsReviewed ==
    \A d \in Docs : \A c \in db.contents[d] : c.revision > 1 =>
        LET before == Row(db, d, c.revision - 1).sha
        IN  /\ c.run # NoRun
            /\ c.run.text = before
            /\ \A e \in c.text.edits \ before.edits : <<c.run, e>> \in approved

\* A run is spent by the first application that changes the text: a second
\* `apply` of the same run to a document finds another text and refuses.
RunAppliedOnce ==
    \A d \in Docs : \A c1, c2 \in db.contents[d] :
        (c1.run = c2.run /\ c1.run # NoRun /\ c1.revision < c2.revision)
            => c1.text = c1.run.text

\* The approvals name each accepted revision exactly once, oldest first, and
\* the first of them is the ingest: a transaction that is rolled back leaves
\* neither an approval without its revision nor the converse.
OneApprovalPerRevision ==
    \A d \in Docs :
        LET log == db.approvals[d]
        IN  /\ Len(log) = Cardinality(db.revisions[d])
            /\ \A n \in 1..Len(log) :
                  /\ log[n].revision = n
                  /\ log[n].kind = IF n = 1 THEN "ingest" ELSE "revision"

\* An ingest is all or nothing, for two ingests of one document as well: a
\* document row never stands without its facts, its first revision, the
\* approval of the ingest and a row of the project it names
\* (ingest_source_package, project_ingest_cmd).
IngestAllOrNothing ==
    \A d \in Docs :
        LET ingested == db.documents[d] # NoRow
        IN  /\ ingested <=> HasRevision(db, d)
            /\ ingested <=> db.facts[d]
            /\ ingested <=> [kind |-> "ingest", revision |-> 1]
                              \in Range(db.approvals[d])
            /\ ingested => db.projects[db.documents[d]] # NoRow

\* Nothing that s records of a document is changed or withdrawn in t.
Grows(s, t) ==
    \A d \in Docs :
        /\ s.revisions[d] \subseteq t.revisions[d]
        /\ s.contents[d] \subseteq t.contents[d]
        /\ IsPrefix(s.approvals[d], t.approvals[d])
        /\ s.documents[d] # NoRow => t.documents[d] = s.documents[d]

\* No command, concurrent or not, ever changes or withdraws a revision, its
\* content, an approval or the project of a document once it is committed
\* (save_revision, save_revision_content, record_approval, add_document).
HistoryOnlyGrows == [][Grows(db, db')]_vars

\* Between BEGIN IMMEDIATE and COMMIT the committed database is still the
\* one the transaction started from, and without a transaction there is
\* nothing uncommitted.
OneWriter ==
    /\ lock = Nobody => staged = db
    /\ \A p \in Clients : pc[p] = "commit" <=> lock = p

-----------------------------------------------------------------------------
(* What the documentation says and the code does not do *)

\* context_cmd: "Build context from the accepted revision".  When a capsule
\* is printed its protected spans are those of the revision it shows.
ContextConsistent ==
    \A p \in Clients : pc[p] = "show" => Aligned(loc[p].spans, loc[p].row.sha)

\* decide_cmd: "Record the current human decision for one lexical change."
\* A change that some `decide` accepted is a decided change for every later
\* reader of the review, whatever other `decide` commands did meanwhile.
DecisionsKept ==
    \A run \in DOMAIN reviews : reviews[run].file = "intact" =>
        \A change \in run.changes : <<run, change>> \in approved =>
            change \in reviews[run].accepted \cup reviews[run].rejected

\* ProjectState.root: "absolute path string of the project root", and the
\* project id digests it.  All documents of one project directory are then
\* documents of one project, the one the workflow commands open.
OneProjectPerRoot ==
    \A d \in Docs : db.documents[d] \in {NoRow, Canonical}

-----------------------------------------------------------------------------
(* The abstract log of accepted texts *)

Texts(s, d) ==
    [n \in 1..Cardinality(s.revisions[d]) |-> Row(s, d, n).sha]

Log == INSTANCE RevisionLog WITH log <- [d \in Docs |-> Texts(db, d)]

\* Seen through its accepted texts the whole system is an append-only log.
ImplementsRevisionLog == Log!Spec
=============================================================================
