--------------------------- MODULE ImportPipeline ---------------------------
(***************************************************************************)
(* One clean-room import: the size of the file is measured, its bytes are  *)
(* read, their kind is identified, and a worker process parses them under  *)
(* a time limit.  Meanwhile the user may save another version of the file, *)
(* and the worker may answer, garble its answer, die, or hang.             *)
(***************************************************************************)
EXTENDS Integers, FiniteSets

CONSTANTS
    Declared,     \* kinds that the extension of the file may declare
    Magics        \* kinds that the leading bytes may show

\* FileKind: those with an adapter, the one with a converter, and the rest.
\* As a magic, "zip" is a container of unknown kind.
Supported == {"txt", "markdown", "docx", "pdf", "html", "rtf", "odt"}

Kinds == Supported \cup {"legacy_doc", "unknown"}

ASSUME ImportAssumption == Declared \subseteq Kinds /\ Magics \subseteq Kinds \cup {"zip"}

\* The bytes of one version of the file; large: over the policy's max_bytes.
Contents == [large : BOOLEAN, magic : Magics]

NoContents == [large |-> FALSE, magic |-> "none"]

\* Findings by what the status makes of them; all but "note" are errors.
Findings == {"unsupported", "review", "mismatch", "error", "limit", "note"}

VARIABLES
    disk,         \* the version of the file that is on disk
    importPc, import,
    worker,       \* the worker process and what it wrote
    kept          \* what the last import stored, when it ended (ghost)

importVars == <<disk, importPc, import, worker, kept>>

ImportCommands == {"inspect", "source", "style", "ingest"}

NoWorker == [state |-> "none", answer |-> "none", findings |-> {},
             document |-> FALSE]

NoImport == [command |-> "inspect", declared |-> "unknown", raw |-> NoContents,
         findings |-> {}, document |-> FALSE]

ImportTypeOK ==
    /\ disk \in Contents
    /\ importPc \in {"idle", "measure", "head", "read", "identify", "spawn",
                     "wait", "decide"}
    /\ import \in [command : ImportCommands, declared : Kinds,
                   raw : Contents \cup {NoContents},
                   findings : SUBSET Findings, document : BOOLEAN]
    /\ worker.state \in {"none", "running", "written", "exited"}

ImportInit ==
    /\ disk \in Contents
    /\ importPc = "idle" /\ import = NoImport
    /\ worker = NoWorker
    /\ kept = NoImport

ImportStep(from, to) == importPc = from /\ importPc' = to

-----------------------------------------------------------------------------
(* Identity *)

MagicKind(magic) == IF magic = "zip" THEN "unknown" ELSE magic

TextKinds == {"txt", "markdown"}

ClearMismatch(declared, magic) ==
    /\ declared # "unknown" /\ MagicKind(magic) # "unknown"
    /\ declared # MagicKind(magic)
    /\ ~ {declared, MagicKind(magic)} \subseteq TextKinds

IdentityFindings(declared, magic) ==
    IF ClearMismatch(declared, magic) THEN {"mismatch"}
    ELSE IF magic = "unknown" THEN {"error"} ELSE {}

ResolveKind(declared, magic) ==
    IF magic \in TextKinds
    THEN IF declared = "markdown" THEN "markdown" ELSE "txt"
    ELSE declared

\* The findings that keep a file from its parser: no converter is configured
\* for legacy_doc, and a kind without an adapter is unsupported.
PrecheckFindings(declared, magic) ==
    IdentityFindings(declared, magic) \cup
        IF declared = "legacy_doc" /\ ~ClearMismatch(declared, magic)
        THEN {"error"}
        ELSE IF ResolveKind(declared, magic) \notin Supported
        THEN {"unsupported"} ELSE {}

\* classify_status: the first rule that applies.
Status(findings) ==
    IF "unsupported" \in findings THEN "unsupported_format"
    ELSE IF "review" \in findings THEN "human_review_required"
    ELSE IF "mismatch" \in findings THEN "quarantined"
    ELSE IF findings \cap {"error", "limit"} # {} THEN "failed"
    ELSE IF findings = {} THEN "ok" ELSE "findings"

-----------------------------------------------------------------------------
(* The command *)

SaveFile(contents) ==
    /\ disk' = contents
    /\ UNCHANGED <<importPc, import, worker, kept>>

\* The style command reads the bytes first and measures those.
StartImport(command, declared) ==
    /\ ImportStep("idle", IF command = "style" THEN "read" ELSE "measure")
    /\ import' = [NoImport EXCEPT !.command = command, !.declared = declared]
    /\ kept' = NoImport
    /\ UNCHANGED <<disk, worker>>

MeasureFile ==
    /\ ImportStep("measure", IF disk.large THEN "head" ELSE "read")
    /\ UNCHANGED <<disk, import, worker, kept>>

\* A file over the limit is not read: its head only tells its identity.
ReadHead ==
    /\ ImportStep("head", "decide")
    /\ import' = [import EXCEPT
           !.findings = {"limit"}
               \cup IdentityFindings(import.declared, disk.magic)]
    /\ UNCHANGED <<disk, worker, kept>>

ReadFile ==
    /\ importPc = "read"
    /\ IF import.command = "style" /\ disk.large
       THEN /\ importPc' = "decide"
            /\ import' = [import EXCEPT
                   !.raw = disk,
                   !.findings = {"limit"}
                       \cup IdentityFindings(import.declared, disk.magic)]
       ELSE /\ importPc' = "identify"
            /\ import' = [import EXCEPT !.raw = disk]
    /\ UNCHANGED <<disk, worker, kept>>

\* Mutant: the identity is taken from the file, not from the bytes read.
IdentifiedOnDisk(raw) == disk

Identified(raw) == raw

Identify ==
    /\ importPc = "identify"
    /\ LET found == PrecheckFindings(import.declared,
                                     Identified(import.raw).magic)
       IN  /\ importPc' = IF found = {} THEN "spawn" ELSE "decide"
           /\ import' = [import EXCEPT !.findings = found]
    /\ UNCHANGED <<disk, worker, kept>>

TooLarge(raw) == raw.large

RefuseLarge ==
    /\ TooLarge(import.raw)
    /\ ImportStep("spawn", "decide")
    /\ import' = [import EXCEPT !.findings = {"limit"}]
    /\ UNCHANGED <<disk, worker, kept>>

SpawnWorker ==
    /\ ~TooLarge(import.raw)
    /\ ImportStep("spawn", "wait")
    /\ worker' = [NoWorker EXCEPT !.state = "running"]
    /\ UNCHANGED <<disk, import, kept>>

-----------------------------------------------------------------------------
(* The worker: parse_payloads of the adapter, measured afterwards *)

\* A resource limit leaves no document; other findings may come with one.
ParseResults ==
    {r \in [findings : SUBSET {"review", "error", "limit", "note"},
            document : BOOLEAN] :
        r.document => "limit" \notin r.findings}

OverMemory(r) ==
    [r EXCEPT !.findings = @ \cup {"limit"}, !.document = FALSE]

WorkerWrites(answer, findings, document) ==
    /\ worker.state = "running"
    /\ worker' = [state |-> "written", answer |-> answer,
                  findings |-> findings, document |-> document]
    /\ UNCHANGED <<disk, importPc, import, kept>>

WorkerParses ==
    \E parsed \in ParseResults : \E r \in {parsed, OverMemory(parsed)} :
        WorkerWrites("result", r.findings, r.document)

\* No registry, parser, base64, policy; a forbidden module; an exception.
WorkerFails == WorkerWrites("result", {"error"}, FALSE)

\* Output that is too long, or not an envelope of this task.
WorkerGarbles ==
    \/ WorkerWrites("long", {}, FALSE)
    \/ WorkerWrites("garbage", {}, FALSE)

WorkerExits ==
    /\ worker.state = "written"
    /\ worker' = [worker EXCEPT !.state = "exited"]
    /\ UNCHANGED <<disk, importPc, import, kept>>

WorkerDies ==
    /\ worker.state \in {"running", "written"}
    /\ worker' = [worker EXCEPT !.state = "exited", !.answer = "nonzero"]
    /\ UNCHANGED <<disk, importPc, import, kept>>

-----------------------------------------------------------------------------
(* The supervisor *)

Receive(findings, document) ==
    /\ ImportStep("wait", "decide")
    /\ import' = [import EXCEPT !.findings = findings, !.document = document]
    /\ worker' = NoWorker
    /\ UNCHANGED <<disk, kept>>

\* Mutant: the time limit is for the first byte of the answer.
OnlySilent(state) == state = "running"

\* A worker that wrote its answer but did not exit in time is killed too.
Killable(state) == state \in {"running", "written"}

TimeoutWorker ==
    /\ Killable(worker.state)
    /\ Receive({"error"}, FALSE)

CannotSpawn ==
    /\ importPc = "wait" /\ worker.state = "running"
    /\ Receive({"error"}, FALSE)

Collect ==
    /\ worker.state = "exited"
    /\ CASE worker.answer \in {"nonzero", "garbage"} -> Receive({"error"}, FALSE)
         [] worker.answer = "long" -> Receive({"limit"}, FALSE)
         [] OTHER -> Receive(worker.findings, worker.document)

-----------------------------------------------------------------------------
(* The packages *)

Ingestible(status) == status \in {"ok", "findings"}

\* A style import keeps the bytes and the package of any document, an ingest
\* only of one that needs no review.
Keeps ==
    /\ import.document
    /\ \/ import.command = "style"
       \/ import.command = "ingest" /\ Ingestible(Status(import.findings))

DecideImport ==
    /\ ImportStep("decide", "idle")
    /\ kept' = IF Keeps THEN import ELSE kept
    /\ import' = NoImport
    /\ UNCHANGED <<disk, worker>>

\* FileIOError: the file cannot be measured or read.
ReadFails ==
    /\ importPc \in {"measure", "head", "read"}
    /\ importPc' = "idle"
    /\ import' = NoImport
    /\ UNCHANGED <<disk, worker, kept>>

Supervised ==
    \/ MeasureFile \/ ReadHead \/ ReadFile \/ Identify \/ RefuseLarge
    \/ SpawnWorker \/ TimeoutWorker \/ CannotSpawn \/ Collect \/ DecideImport
    \/ ReadFails

ImportNext ==
    \/ \E c \in Contents : SaveFile(c)
    \/ \E c \in ImportCommands, d \in Declared : StartImport(c, d)
    \/ Supervised
    \/ WorkerParses \/ WorkerFails \/ WorkerGarbles \/ WorkerExits \/ WorkerDies

\* Nothing is assumed of the worker and of the user.
ImportFairness == WF_importVars(Supervised)

ImportSpec == ImportInit /\ [][ImportNext]_importVars /\ ImportFairness

-----------------------------------------------------------------------------
(* Properties *)

\* Whatever version is saved while the import runs, what a style import or an
\* ingest stores was itself within the limit and of the kind its name says,
\* and an ingested document needs no review (inspect, run_worker, ingest_cmd).
OnlyCheckedKept ==
    kept # NoImport =>
        /\ ~kept.raw.large
        /\ kept.raw.magic \in TextKinds => kept.declared \in TextKinds \cup {"unknown"}
        /\ kept.raw.magic \in {"pdf", "unknown"} => kept.declared = kept.raw.magic
        /\ kept.command = "ingest" => kept.findings \subseteq {"note"}

\* An import ends although its worker may hang, also after it has answered.
ImportEnds == (importPc # "idle") ~> (importPc = "idle")
=============================================================================
