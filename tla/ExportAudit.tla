---------------------------- MODULE ExportAudit ----------------------------
(***************************************************************************)
(* Public artifacts.  An export renders a document into a temporary file,  *)
(* renames it over the output path, and - only the workflow command - has  *)
(* the file read back and audited.  Two exports may write one path, and    *)
(* each of them, like a plain audit command, may meet the other's file.    *)
(***************************************************************************)
EXTENDS Integers, Sequences

CONSTANTS
    Exporters,    \* processes
    Documents     \* the public documents: a title and the sections

\* A text is known by what an auditor makes of it: white space only, a text that
\* holds this white space, a single word; a prohibited term, an active Markdown
\* construct, the heading "## Claims", a line that begins with "# ", an HTML
\* entity spelled out, the name of a hiding OOXML property, a control character
\* that ends no line, a CR, a byte order mark in front, a newline at the end, a
\* word wider than the page or a character that the font lacks.
Texts == {"plain", "other", "blank", "spaced", "word", "term", "active", "claims", "headed",
          "entity", "hidden", "control", "return", "bom", "newline", "wide"}

ASSUME ExportAssumption == Documents \subseteq [title : Texts, sections : Seq(Texts)]

Formats == {"txt", "md", "docx", "pdf"}

\* A file: whether its first line is a Markdown heading, and its texts.
Artifacts == [heading : BOOLEAN, lines : Seq(Texts \cup {"broken", "missing"})]

Missing == [heading |-> FALSE, lines |-> <<"missing">>]

VARIABLES
    path,         \* the output path: the format its suffix names, and its file
    exporter      \* the exporting and auditing commands

exportVars == <<path, exporter>>

NoDocument == [title |-> "blank", sections |-> <<>>]

IdleExporter == [pc |-> "idle", command |-> "workflow", document |-> NoDocument,
                 temp |-> FALSE, audited |-> Missing, answer |-> "none"]

Commands == {"workflow", "document", "artifact", "unicode"}

ExportTypeOK ==
    /\ path.format \in Formats /\ path.file \in Artifacts
    /\ exporter \in [Exporters ->
           [pc : {"idle", "render", "write", "replace", "audit", "done"},
            command : Commands, document : Documents \cup {NoDocument},
            temp : BOOLEAN, audited : Artifacts,
            answer : {"none", "ok", "pass", "fail", "refused", "error"}]]

ExportInit ==
    /\ path \in [format : Formats, file : {Missing}]
    /\ exporter = [e \in Exporters |-> IdleExporter]

-----------------------------------------------------------------------------
(* Rendering *)

Holds(lines, text) == \E i \in DOMAIN lines : lines[i] = text

EmptyDocument(d) == d.title = "blank" /\ \A i \in DOMAIN d.sections : d.sections[i] = "blank"

\* Title first, unless it is white space only: it is not rendered then.
Shown(d) == (IF d.title = "blank" THEN <<>> ELSE <<d.title>>) \o d.sections

Render(format, d) ==
    [heading |-> format = "md" /\ d.title # "blank", lines |-> Shown(d)]

\* Texts that a PDF page may not give back as they were: the layout breaks or
\* replaces them, or drops white space at their ends.
Fragile == {"wide", "control", "bom", "newline", "return", "blank"}

Broken(file, texts) ==
    [file EXCEPT !.lines =
        [i \in DOMAIN @ |-> IF @[i] \in texts THEN "broken" ELSE @[i]]]

\* What an export may write; what the PDF library makes of a page is its own.
Renderings(format, d) ==
    IF format = "pdf" THEN {Broken(Render(format, d), texts) : texts \in SUBSET Fragile}
    ELSE {Render(format, d)}

-----------------------------------------------------------------------------
(* Auditing: what each auditor reads back, and what it reports *)

\* Texts are searched for as substrings.
Within(text, line) == line = text \/ (text = "blank" /\ line = "spaced")

\* The DOCX auditor unescapes text that the XML parser has unescaped, and the
\* parser makes a newline of a CR.
TextOf(format, lines) ==
    [i \in DOMAIN lines |->
        IF format = "docx" /\ lines[i] \in {"entity", "return"} THEN "character"
        ELSE lines[i]]

\* Mutant: each section is searched for in the whole file.
SectionsAnywhere(lines, sections) ==
    {k \in DOMAIN sections : \A i \in DOMAIN lines : ~Within(sections[k], lines[i])}

\* The sections in order, each searched for behind the one found before; one
\* that is not found leaves the position where it was.
MissingSections(lines, sections) ==
    LET Behind(from, text) == {i \in from + 1 .. Len(lines) : Within(text, lines[i])}
        First(S) == CHOOSE i \in S : \A j \in S : i <= j
        at[k \in 0 .. Len(sections)] ==
            IF k = 0 THEN 0
            ELSE IF Behind(at[k - 1], sections[k]) = {} THEN at[k - 1]
            ELSE First(Behind(at[k - 1], sections[k]))
    IN {k \in DOMAIN sections : Behind(at[k - 1], sections[k]) = {}}

Finding(holds, name) == IF holds THEN {name} ELSE {}

\* The exporters end a file with one newline and use no other line ends.
TextFindings(file) ==
    LET lines == file.lines
    IN Finding(Holds(lines, "term"), "prohibited")
       \cup Finding(Holds(lines, "return"), "line ends")
       \cup Finding(~file.heading /\ lines # <<>> /\ lines[1] = "bom", "bom")
       \cup Finding(lines # <<>> /\ lines[Len(lines)] = "newline", "trailing newline")

\* Mutant: the constructs that a reader would run are not looked for.
MarkdownAsText(file) ==
    TextFindings(file)
        \cup Finding(~file.heading /\ ~Holds(file.lines, "headed"), "heading")
        \cup Finding(Holds(file.lines, "claims"), "claims")

MarkdownFindings(file) ==
    TextFindings(file)
        \cup Finding(~file.heading /\ ~Holds(file.lines, "headed"), "heading")
        \cup Finding(Holds(file.lines, "claims"), "claims")
        \cup Finding(Holds(file.lines, "active"), "active")

\* A control character makes the main part of the package ill-formed: it has
\* no text to compare then.  What else these two look for - parts, revisions,
\* metadata, scripts - no exporter writes.
DocxFindings(file) ==
    Finding(Holds(file.lines, "term"), "prohibited")
        \cup Finding(Holds(file.lines, "hidden"), "hidden")
        \cup Finding(Holds(file.lines, "control"), "malformed")

PdfFindings(file) == Finding(Holds(file.lines, "term"), "prohibited")

\* audit_artifact without an expected document: the auditor of the suffix.
ArtifactFindings(format, file) ==
    [txt |-> TextFindings(file), md |-> MarkdownFindings(file),
     docx |-> DocxFindings(file), pdf |-> PdfFindings(file)][format]

\* A title of white space only is searched for as well, though it was not
\* rendered: in Markdown as a heading, in DOCX as it is, in PDF as one space.
\* The heading of a title that ends in a newline is another line.
TitleMissing(format, file, title) ==
    LET lines == file.lines
    IN CASE format = "txt" -> FALSE
         [] format = "md" -> ~file.heading \/ lines[1] # title \/ title \in {"newline", "return"}
         [] format = "docx" -> \A i \in DOMAIN lines : ~Within(title, TextOf(format, lines)[i])
         [] format = "pdf" -> IF title = "blank" THEN lines \in {<<>>, <<"word">>}
                              ELSE ~Holds(lines, title)

ContentFindings(format, file, d) ==
    IF format = "docx" /\ Holds(file.lines, "control") THEN {}
    ELSE Finding(MissingSections(TextOf(format, file.lines), d.sections) # {}, "content")
         \cup Finding(TitleMissing(format, file, d.title), "title")

\* Bytes of a ZIP or a PDF are not text at all.
UnicodeFindings(format, file) ==
    IF format \in {"docx", "pdf"} THEN {"decode"}
    ELSE Finding(Holds(file.lines, "control"), "control")

-----------------------------------------------------------------------------
(* Commands *)

Exporting(e, from, new) ==
    exporter[e].pc = from /\ exporter' = [exporter EXCEPT ![e] = new]

\* The end of a command that has nothing more to say than its answer.
Answers(e, answer) ==
    [IdleExporter EXCEPT !.pc = "done", !.temp = exporter[e].temp, !.answer = answer]

\* The title is never empty, so the suffix is all that a request can miss.
ValidRequest(format) == format = path.format

\* The document is loaded - it needs an accepted revision - and its request
\* validated.
StartExport(e, command, d, accepted, format) ==
    Exporting(e, "idle",
        IF accepted /\ ValidRequest(format)
        THEN [IdleExporter EXCEPT !.pc = "render", !.command = command, !.document = d]
        ELSE Answers(e, "refused"))
    /\ UNCHANGED path

\* Rendering refuses a document with nothing to show; a temporary file is made
\* beside the output.
RenderDocument(e) ==
    /\ IF EmptyDocument(exporter[e].document)
       THEN Exporting(e, "render", Answers(e, "error"))
       ELSE Exporting(e, "render", [exporter[e] EXCEPT !.pc = "write", !.temp = TRUE])
    /\ UNCHANGED path

CannotPrepare(e) ==
    Exporting(e, "render", Answers(e, "error")) /\ UNCHANGED path

WriteTemporary(e) ==
    Exporting(e, "write", [exporter[e] EXCEPT !.pc = "replace"]) /\ UNCHANGED path

\* The write or the rename fails: the temporary file is unlinked.
CannotWrite(e) ==
    /\ exporter[e].pc \in {"write", "replace"}
    /\ Exporting(e, exporter[e].pc, [Answers(e, "error") EXCEPT !.temp = FALSE])
    /\ UNCHANGED path

ReplaceOutput(e) ==
    /\ Exporting(e, "replace",
           IF exporter[e].command = "workflow"
           THEN [exporter[e] EXCEPT !.pc = "audit", !.temp = FALSE]
           ELSE [Answers(e, "ok") EXCEPT !.temp = FALSE])
    /\ \E file \in Renderings(path.format, exporter[e].document) :
           path' = [path EXCEPT !.file = file]

\* The workflow reads the file at its path back, whoever wrote it last.
AuditExport(e) ==
    LET findings == ArtifactFindings(path.format, path.file)
                    \cup ContentFindings(path.format, path.file, exporter[e].document)
    IN /\ Exporting(e, "audit",
              [exporter[e] EXCEPT !.pc = "done", !.audited = path.file,
                  !.answer = IF findings = {} THEN "ok" ELSE "refused"])
       /\ UNCHANGED path

\* audit artifact and audit unicode: no document to compare with.
AuditFile(e, command) ==
    LET findings == IF command = "artifact"
                    THEN ArtifactFindings(path.format, path.file)
                    ELSE UnicodeFindings(path.format, path.file)
        verdict == IF path.file = Missing THEN "error"
                   ELSE IF findings = {} THEN "pass" ELSE "fail"
    IN Exporting(e, "idle", Answers(e, verdict)) /\ UNCHANGED path

\* A process killed while it exports leaves its temporary file behind.
KillExport(e) ==
    /\ exporter[e].pc \notin {"idle", "done"}
    /\ exporter' = [exporter EXCEPT ![e] = Answers(e, "none")]
    /\ UNCHANGED path

ExportNext == \E e \in Exporters :
    \/ \E command \in {"workflow", "document"}, d \in Documents,
          accepted \in BOOLEAN, format \in {"txt", "md"} \cup {path.format} :
           StartExport(e, command, d, accepted, format)
    \/ RenderDocument(e)
    \/ CannotPrepare(e)
    \/ WriteTemporary(e)
    \/ CannotWrite(e)
    \/ ReplaceOutput(e)
    \/ AuditExport(e)
    \/ \E command \in {"artifact", "unicode"} : AuditFile(e, command)
    \/ KillExport(e)

ExportSpec == ExportInit /\ [][ExportNext]_exportVars

-----------------------------------------------------------------------------
(* Properties *)

\* A workflow export answers "ok" only when the bytes its audit read back held
\* its own sections, in their order, beside no prohibited term - also when
\* another export has replaced the file in between (workflow export_cmd).
OkHasContent == \A e \in Exporters :
    exporter[e].audited # Missing /\ exporter[e].answer = "ok" =>
        LET lines == exporter[e].audited.lines
            sections == exporter[e].document.sections
        IN /\ ~Holds(lines, "term")
           /\ \E at \in [DOMAIN sections -> DOMAIN lines] :
                  /\ \A i, j \in DOMAIN sections : i < j => at[i] < at[j]
                  /\ \A i \in DOMAIN sections : Within(sections[i], lines[at[i]])

\* Documents that a format has no clean artifact for.
Unexportable(format, d) ==
    LET Shows(text) == Holds(Shown(d), text)
    IN \/ Shows("term")
       \/ /\ format = "txt"
          /\ Shows("return") \/ Shown(d)[1] = "bom" \/ Shown(d)[Len(Shown(d))] = "newline"
       \/ /\ format = "md"
          /\ \/ d.title \in {"blank", "newline"} \/ Shown(d)[Len(Shown(d))] = "newline"
             \/ Shows("return") \/ Shows("claims") \/ Shows("active")
       \/ /\ format = "docx"
          /\ \/ Shows("entity") \/ Shows("return") \/ Shows("control") \/ Shows("hidden")
             \/ d.title = "blank" /\ ~Shows("blank") /\ ~Shows("spaced")
       \/ /\ format = "pdf"
          /\ d.title = "blank" /\ Shown(d) = <<"word">>

\* Exporter and auditor, which share no code, agree: the audit of what an export
\* wrote itself refuses every document above, and another one only when its PDF
\* has a text that the layout may not give back; the file is published in either
\* case.
FailsForCause == \A e \in Exporters :
    LET format == path.format
        d == exporter[e].document
        refused == exporter[e].answer = "refused"
    IN exporter[e].audited \in Renderings(format, d) =>
           /\ Unexportable(format, d) => refused
           /\ refused => \/ Unexportable(format, d)
                         \/ format = "pdf" /\ \E text \in Fragile : Holds(Shown(d), text)

=============================================================================
