---------------------------- MODULE ProjectStore ----------------------------
(***************************************************************************)
(* The project database <root>/.humanhand/project.db and what each method  *)
(* of ProjectStore and IntegratedProjectStore does to its rows.  A         *)
(* database value is a record with one field per table; a method is an     *)
(* operator from a database to a database, with an operator Can... that    *)
(* says when it does not raise.  Module ProjectWorkflow runs the methods   *)
(* inside transactions of concurrent command invocations.                  *)
(*                                                                         *)
(* Abstractions.  A text is the imported source together with the set of   *)
(* edits applied to it; its sha256 is the text itself, so the hash is      *)
(* injective.  The revision id "rev-<n>" is the number n, and 0 stands for *)
(* a NULL parent.  The protected spans of a document are represented by    *)
(* the length-changing edits their stored offsets account for: they lie on *)
(* a text exactly when these are the length-changing edits of that text.   *)
(***************************************************************************)
EXTENDS Integers, Sequences, FiniteSets

CONSTANTS
    Docs,         \* document ids (the source package ids)
    ProjectIds,   \* project ids: digests of a name and a spelling of the root
    Labels,       \* style profile labels
    Changes,      \* lexical edits a proposal may contain
    Shifting,     \* edits in front of a protected span that change a length
    Guarded,      \* edits that lie inside a protected span
    Sources,      \* imported surface texts
    SourceOf,     \* the surface text each document was imported with
    NoRow,        \* an absent row
    NoLabel,      \* the empty style profile label
    NoRun         \* the empty finalization run id

ASSUME StoreAssumption ==
    /\ Shifting \subseteq Changes
    /\ Guarded \subseteq Changes
    /\ SourceOf \in [Docs -> Sources]
    /\ NoRow \notin ProjectIds \cup Labels \cup {NoLabel}
    /\ NoLabel \notin Labels

Text == [source : Sources, edits : SUBSET Changes]

\* A lexical run: run_id digests the text and the proposed changes, and
\* nothing that names the document.
Run == [text : Text, changes : SUBSET Changes]

ASSUME RunAssumption == NoRun \notin Run

RevisionRow ==
    [revision : Nat, parent : Nat, base : Nat, token : Nat,
     status : {"proposed", "accepted"}, sha : Text]

ContentRow ==
    [revision : Nat, text : Text, style : Labels \cup {NoLabel},
     run : Run \cup {NoRun}]

ApprovalRow == [kind : {"ingest", "revision"}, revision : Nat]

Database ==
    [projects  : [ProjectIds -> Labels \cup {NoLabel, NoRow}],
     documents : [Docs -> ProjectIds \cup {NoRow}],
     revisions : [Docs -> SUBSET RevisionRow],
     contents  : [Docs -> SUBSET ContentRow],
     facts     : [Docs -> BOOLEAN],
     spans     : [Docs -> SUBSET Shifting],
     approvals : [Docs -> Seq(ApprovalRow)]]

\* A freshly migrated database.
EmptyDatabase ==
    [projects  |-> [i \in ProjectIds |-> NoRow],
     documents |-> [d \in Docs |-> NoRow],
     revisions |-> [d \in Docs |-> {}],
     contents  |-> [d \in Docs |-> {}],
     facts     |-> [d \in Docs |-> FALSE],
     spans     |-> [d \in Docs |-> {}],
     approvals |-> [d \in Docs |-> << >>]]

-----------------------------------------------------------------------------
(* Revision values (domain/revisions.py) *)

InitialRevision(text) ==
    [revision |-> 1, parent |-> 0, base |-> 0, token |-> 1,
     status |-> "accepted", sha |-> text]

ProposeNext(current, text) ==
    [revision |-> current.token + 1, parent |-> current.revision,
     base |-> current.token, token |-> current.token + 1,
     status |-> "proposed", sha |-> text]

CanAccept(proposed, expected) ==
    /\ expected.token = proposed.base
    /\ expected.revision = proposed.parent

\* Mutant: the proposed revision is saved as it was proposed.
LeftProposed(proposed) == proposed

AcceptRevision(proposed) == [proposed EXCEPT !.status = "accepted"]

-----------------------------------------------------------------------------
(* Reads *)

\* current_revision: the row with the largest token, whatever its status.
HasRevision(s, d) == s.revisions[d] # {}

IsHead(s, d, r) ==
    /\ r \in s.revisions[d]
    /\ \A x \in s.revisions[d] : x.token <= r.token

Accepted(s, d) == {r \in s.revisions[d] : r.status = "accepted"}

IsLatestAccepted(s, d, r) ==
    /\ r \in Accepted(s, d)
    /\ \A x \in Accepted(s, d) : x.token <= r.token

ContentOf(s, d, revision) == {c \in s.contents[d] : c.revision = revision}

-----------------------------------------------------------------------------
(* Writes *)

\* Mutant: the ingest relies on `project init` for the project row.
ProjectAssumed(s, i) == s

EnsureProject(s, i) ==
    [s EXCEPT !.projects[i] = IF @ = NoRow THEN NoLabel ELSE @]

CanAddDocument(s, d) == s.documents[d] = NoRow

AddDocument(s, d, i) == [s EXCEPT !.documents[d] = i]

\* save_claims, save_entities and save_relationships: delete, then insert.
SaveFacts(s, d) == [s EXCEPT !.facts[d] = TRUE]

SaveSpans(s, d, offsets) == [s EXCEPT !.spans[d] = offsets]

\* save_revision: the checks of the method, then the primary key and the
\* unique (document_id, token) index of the table.
CanSaveRevision(s, d, r) ==
    /\ s.revisions[d] = {} => r.base = 0 /\ r.parent = 0
    /\ s.revisions[d] # {} =>
          \E head \in s.revisions[d] : /\ IsHead(s, d, head)
                                       /\ head.token = r.base
                                       /\ head.revision = r.parent
    /\ \A x \in s.revisions[d] : x.revision # r.revision /\ x.token # r.token

\* Mutant: the row of the document is replaced.
RevisionReplaced(s, d, r) == [s EXCEPT !.revisions[d] = {r}]

SaveRevision(s, d, r) == [s EXCEPT !.revisions[d] = @ \cup {r}]

\* save_revision_content: the row is written once; a repeat with equal
\* values changes nothing and one with other values raises.
CanSaveContent(s, d, r, c) ==
    /\ c.text = r.sha
    /\ \E x \in s.revisions[d] : x.revision = r.revision /\ x.sha = c.text
    /\ ContentOf(s, d, r.revision) \subseteq {c}

SaveContent(s, d, c) == [s EXCEPT !.contents[d] = @ \cup {c}]

CanBindStyle(s, i) == s.projects[i] # NoRow

BindStyle(s, i, label) == [s EXCEPT !.projects[i] = label]

\* Mutant: an approval of the document replaces its last one.
ApprovalReplaced(s, d, kind, revision) ==
    LET row == [kind |-> kind, revision |-> revision]
    IN  [s EXCEPT !.approvals[d] =
            IF @ = << >> THEN << row >> ELSE [@ EXCEPT ![Len(@)] = row]]

RecordApproval(s, d, kind, revision) ==
    [s EXCEPT !.approvals[d] =
        Append(@, [kind |-> kind, revision |-> revision])]
=============================================================================
