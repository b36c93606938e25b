----------------------- MODULE ProjectWorkflowProofs -----------------------
(***************************************************************************)
(* Proofs about ProjectWorkflow for every number of clients, documents and *)
(* edits.                                                                  *)
(*                                                                         *)
(* The argument.  Everything that is stored is written inside a            *)
(* transaction, so the properties of the committed database follow from    *)
(* three facts that every step keeps (IInv): the committed database is     *)
(* sound, the database an open transaction will publish is sound, and it   *)
(* is the committed one with at most one revision added at the end of one  *)
(* chain (OneTransaction).  A finalization computes its revision from a    *)
(* state it loaded earlier; it may use it because a revision that was      *)
(* loaded stays a revision (Working) and because the check under the       *)
(* lock finds it to be the head.                                           *)
(***************************************************************************)
EXTENDS ProjectWorkflow, FiniteSetTheorems, SequenceTheorems, TLAPS

-----------------------------------------------------------------------------
(* What the methods of the project store return, for every database: the   *)
(* type of the result and exactly which part of which table a method       *)
(* writes.  The proofs below cite these facts instead of the definitions.  *)

\* save_revision adds one row to the revisions of its document and leaves
\* every other row of the database alone.
LEMMA SaveRevisionEffect ==
    ASSUME NEW s \in Database, NEW d \in Docs, NEW r \in RevisionRow
    PROVE  LET t == SaveRevision(s, d, r)
           IN  /\ t \in Database
               /\ t = [s EXCEPT !.revisions =
                          [s.revisions EXCEPT ![d] = s.revisions[d] \cup {r}]]
BY DEF SaveRevision, Database

\* save_revision_content adds one row to the contents of its document.
LEMMA SaveContentEffect ==
    ASSUME NEW s \in Database, NEW d \in Docs, NEW c \in ContentRow
    PROVE  LET t == SaveContent(s, d, c)
           IN  /\ t \in Database
               /\ t = [s EXCEPT !.contents =
                          [s.contents EXCEPT ![d] = s.contents[d] \cup {c}]]
BY DEF SaveContent, Database

\* save_protected_spans replaces the spans of its document.
LEMMA SaveSpansEffect ==
    ASSUME NEW s \in Database, NEW d \in Docs, NEW x \in SUBSET Shifting
    PROVE  LET t == SaveSpans(s, d, x)
           IN  /\ t \in Database
               /\ t = [s EXCEPT !.spans = [s.spans EXCEPT ![d] = x]]
BY DEF SaveSpans, Database

\* record_approval appends one row to the approvals of its document.
LEMMA RecordApprovalEffect ==
    ASSUME NEW s \in Database, NEW d \in Docs,
           NEW kind \in {"ingest", "revision"}, NEW n \in Nat
    PROVE  LET t   == RecordApproval(s, d, kind, n)
               row == [kind |-> kind, revision |-> n]
           IN  /\ t \in Database
               /\ t = [s EXCEPT !.approvals =
                          [s.approvals EXCEPT ![d] =
                              Append(s.approvals[d], row)]]
<1>1. [kind |-> kind, revision |-> n] \in ApprovalRow
  BY DEF ApprovalRow
<1>2. s.approvals[d] \in Seq(ApprovalRow)
  BY DEF Database
<1>3. Append(s.approvals[d], [kind |-> kind, revision |-> n])
        \in Seq(ApprovalRow)
  BY <1>1, <1>2
<1>. QED
  BY <1>3 DEF RecordApproval, Database

\* _ensure_project, add_document and the fact tables write the rows of one
\* project and of one document.
LEMMA EnsureProjectEffect ==
    ASSUME NEW s \in Database, NEW i \in ProjectIds
    PROVE  LET t == EnsureProject(s, i)
           IN  /\ t \in Database
               /\ \E f \in [ProjectIds -> Labels \cup {NoLabel, NoRow}] :
                     t = [s EXCEPT !.projects = f]
BY DEF EnsureProject, Database

LEMMA AddDocumentEffect ==
    ASSUME NEW s \in Database, NEW d \in Docs, NEW i \in ProjectIds
    PROVE  LET t == AddDocument(s, d, i)
           IN  /\ t \in Database
               /\ t = [s EXCEPT !.documents = [s.documents EXCEPT ![d] = i]]
BY DEF AddDocument, Database

LEMMA SaveFactsEffect ==
    ASSUME NEW s \in Database, NEW d \in Docs
    PROVE  LET t == SaveFacts(s, d)
           IN  /\ t \in Database
               /\ t = [s EXCEPT !.facts = [s.facts EXCEPT ![d] = TRUE]]
BY DEF SaveFacts, Database

LEMMA BindStyleEffect ==
    ASSUME NEW s \in Database, NEW i \in ProjectIds, NEW label \in Labels
    PROVE  LET t == BindStyle(s, i, label)
           IN  /\ t \in Database
               /\ \E f \in [ProjectIds -> Labels \cup {NoLabel, NoRow}] :
                     t = [s EXCEPT !.projects = f]
BY DEF BindStyle, Database

\* Revisions made from typed revisions are typed, and the next revision is
\* one token after its parent.
LEMMA RevisionValues ==
    ASSUME NEW text \in Text
    PROVE  /\ InitialRevision(text) \in RevisionRow
           /\ \A current \in RevisionRow :
                 /\ ProposeNext(current, text) \in RevisionRow
                 /\ AcceptRevision(ProposeNext(current, text)) =
                       [revision |-> current.token + 1,
                        parent |-> current.revision, base |-> current.token,
                        token |-> current.token + 1, status |-> "accepted",
                        sha |-> text]
                 /\ AcceptRevision(ProposeNext(current, text)) \in RevisionRow
BY DEF InitialRevision, ProposeNext, AcceptRevision, RevisionRow

-----------------------------------------------------------------------------
(* The workflow: what its invariant is made of *)

Size(s, d) == Cardinality(s.revisions[d])

ImportedText(d) == [source |-> SourceOf[d], edits |-> {}]

-----------------------------------------------------------------------------
(* The inductive invariant: the database *)

\* The tokens of a document are exactly 1 to the number of its revisions.
RevisionsSound(s, d) ==
    /\ IsFiniteSet(s.revisions[d])
    /\ IsChain(s.revisions[d])
    /\ \A r \in s.revisions[d] : r.token <= Size(s, d)
    /\ \A n \in 1..Size(s, d) : \E r \in s.revisions[d] : r.token = n

ContentsSound(s, d) ==
    \A c \in s.contents[d] :
        /\ \E r \in s.revisions[d] : r.revision = c.revision /\ r.sha = c.text
        /\ \A x \in s.contents[d] : x.revision = c.revision => x = c

TextsSound(s, d) ==
    \A r \in s.revisions[d] :
        /\ r.sha.source = SourceOf[d]
        /\ r.sha.edits \cap Guarded = {}
        /\ r.token = 1 => r.sha = ImportedText(d)
        /\ r.token = Size(s, d) => Aligned(s.spans[d], r.sha)

ApprovalsSound(s, d) ==
    /\ Len(s.approvals[d]) = Size(s, d)
    /\ \A n \in 1..Len(s.approvals[d]) :
          s.approvals[d][n] =
              [kind |-> IF n = 1 THEN "ingest" ELSE "revision",
               revision |-> n]

RowsSound(s, d) ==
    /\ s.documents[d] # NoRow <=> s.revisions[d] # {}
    /\ s.documents[d] # NoRow <=> s.facts[d]
    /\ s.documents[d] # NoRow => s.projects[s.documents[d]] # NoRow

Sound(s) ==
    /\ s \in Database
    /\ \A d \in Docs :
          /\ RevisionsSound(s, d)
          /\ ContentsSound(s, d)
          /\ TextsSound(s, d)
          /\ ApprovalsSound(s, d)
          /\ RowsSound(s, d)

-----------------------------------------------------------------------------
(* The inductive invariant: the open transaction and the processes *)

Imported(s, d, r) ==
    /\ s.revisions[d] = {}
    /\ r.token = 1
    /\ r.sha = ImportedText(d)

Finalized(s, d, r) ==
    \E head \in s.revisions[d], edits \in SUBSET (Changes \ Guarded) :
        /\ head.token = Size(s, d)
        /\ r.token = Size(s, d) + 1
        /\ r.sha = NextText(head.sha, edits)

\* What a transaction that started from s may publish as t.
OneTransaction(s, t) ==
    /\ Grows(s, t)
    /\ \/ t.revisions = s.revisions
       \/ \E d \in Docs : \E r \in t.revisions[d] :
             /\ t.revisions =
                   [s.revisions EXCEPT ![d] = s.revisions[d] \cup {r}]
             /\ Imported(s, d, r) \/ Finalized(s, d, r)

Loaded == {"spans", "show", "build", "profile", "finalize"}

\* The local variables of a process in the middle of a command.
Working(p) ==
    /\ pc[p] \in Loaded \cup {"ingest", "revision"} => loc[p].doc \in Docs
    /\ pc[p] \in {"revision", "spans"} =>
          loc[p].cmd \in {"context", "propose", "apply"}
    /\ pc[p] \in Loaded =>
          /\ loc[p].row \in db.revisions[loc[p].doc]
          /\ db.documents[loc[p].doc] = Canonical
    /\ (pc[p] \in {"revision", "spans"} /\ loc[p].cmd = "apply") =>
          loc[p].run \in Run
    /\ pc[p] \in {"profile", "finalize", "writeProposal", "truncate",
                  "writeReview"} => loc[p].run \in Run
    /\ pc[p] = "writeProposal" => loc[p].run \in DOMAIN proposals
    /\ pc[p] = "writeReview" => loc[p].run \in DOMAIN reviews
    /\ pc[p] \in {"truncate", "writeReview"} =>
          loc[p].next.accepted \subseteq Changes

IInv ==
    /\ TypeOK
    /\ OneWriter
    /\ Sound(db)
    /\ Sound(staged)
    /\ OneTransaction(db, staged)
    /\ \A p \in Clients : Working(p)

-----------------------------------------------------------------------------
(* What the two kinds of transaction write *)

\* A database is a prefix of itself.
LEMMA GrowsReflexive ==
    ASSUME NEW s \in Database
    PROVE  Grows(s, s)
BY DEF Grows, IsPrefix, Database

\* Adding an approval at the end keeps those before it.
LEMMA AppendIsPrefix ==
    ASSUME NEW S, NEW q \in Seq(S), NEW e \in S
    PROVE  /\ IsPrefix(q, Append(q, e))
           /\ Len(Append(q, e)) = Len(q) + 1
           /\ Append(q, e)[Len(q) + 1] = e
           /\ \A n \in 1..Len(q) : Append(q, e)[n] = q[n]
<1>1. SubSeq(Append(q, e), 1, Len(q)) = SubSeq(q, 1, Len(q))
  OBVIOUS
<1>. QED
  BY <1>1 DEF IsPrefix

\* All the rows of an ingest, whoever runs it.
LEMMA IngestRowsEffect ==
    ASSUME NEW s \in Database, NEW d \in Docs, NEW i \in ProjectIds
    PROVE  /\ IngestRows(s, d, i) \in Database
           /\ IngestRows(s, d, i).projects[i] # NoRow
           /\ \A k \in ProjectIds : s.projects[k] # NoRow =>
                 IngestRows(s, d, i).projects[k] # NoRow
           /\ IngestRows(s, d, i).documents = [s.documents EXCEPT ![d] = i]
           /\ IngestRows(s, d, i).revisions = [s.revisions EXCEPT ![d] =
                 s.revisions[d] \cup {InitialRevision(ImportedText(d))}]
           /\ IngestRows(s, d, i).contents = s.contents
           /\ IngestRows(s, d, i).facts = [s.facts EXCEPT ![d] = TRUE]
           /\ IngestRows(s, d, i).spans = [s.spans EXCEPT ![d] = {}]
           /\ IngestRows(s, d, i).approvals = [s.approvals EXCEPT ![d] =
                 Append(s.approvals[d], [kind |-> "ingest", revision |-> 1])]
<1>1. InitialRevision(ImportedText(d)) \in RevisionRow
  <2>1. ImportedText(d) \in Text
    BY StoreAssumption DEF ImportedText, Text
  <2>. QED
    BY <2>1, RevisionValues
<1>2. IngestRows(s, d, i).approvals = [s.approvals EXCEPT ![d] =
          Append(s.approvals[d], [kind |-> "ingest", revision |-> 1])]
  BY DEF IngestRows, EnsureProject, AddDocument, SaveFacts, SaveSpans,
         SaveRevision, RecordApproval, Database
<1>3. Append(s.approvals[d], [kind |-> "ingest", revision |-> 1])
        \in Seq(ApprovalRow)
  BY DEF Database, ApprovalRow
<1>4. /\ IngestRows(s, d, i).projects[i] # NoRow
      /\ \A k \in ProjectIds : s.projects[k] # NoRow =>
            IngestRows(s, d, i).projects[k] # NoRow
  <2>1. IngestRows(s, d, i).projects = EnsureProject(s, i).projects
    BY DEF IngestRows, EnsureProject, AddDocument, SaveFacts, SaveSpans,
           SaveRevision, RecordApproval, Database
  <2>. QED
    BY <2>1, StoreAssumption DEF EnsureProject, Database
<1>5. IngestRows(s, d, i).documents = [s.documents EXCEPT ![d] = i]
  BY DEF IngestRows, EnsureProject, AddDocument, SaveFacts, SaveSpans,
         SaveRevision, RecordApproval, Database, ImportedText
<1>6. IngestRows(s, d, i).revisions = [s.revisions EXCEPT ![d] =
          s.revisions[d] \cup {InitialRevision(ImportedText(d))}]
  BY DEF IngestRows, EnsureProject, AddDocument, SaveFacts, SaveSpans,
         SaveRevision, RecordApproval, Database, ImportedText
<1>7. IngestRows(s, d, i).contents = s.contents
  BY DEF IngestRows, EnsureProject, AddDocument, SaveFacts, SaveSpans,
         SaveRevision, RecordApproval, Database, ImportedText
<1>8. IngestRows(s, d, i).facts = [s.facts EXCEPT ![d] = TRUE]
  BY DEF IngestRows, EnsureProject, AddDocument, SaveFacts, SaveSpans,
         SaveRevision, RecordApproval, Database, ImportedText
<1>9. IngestRows(s, d, i).spans = [s.spans EXCEPT ![d] = {}]
  BY DEF IngestRows, EnsureProject, AddDocument, SaveFacts, SaveSpans,
         SaveRevision, RecordApproval, Database, ImportedText
<1>10. IngestRows(s, d, i) \in Database
  <2>1. EnsureProject(s, i) \in Database
    BY EnsureProjectEffect
  <2>2. AddDocument(EnsureProject(s, i), d, i) \in Database
    BY <2>1, AddDocumentEffect
  <2>3. SaveFacts(AddDocument(EnsureProject(s, i), d, i), d) \in Database
    BY <2>2, SaveFactsEffect
  <2>4. SaveSpans(SaveFacts(AddDocument(EnsureProject(s, i), d, i), d),
                  d, {}) \in Database
    BY <2>3, SaveSpansEffect
  <2>5. SaveRevision(
          SaveSpans(SaveFacts(AddDocument(EnsureProject(s, i), d, i), d),
                    d, {}),
          d, InitialRevision(ImportedText(d))) \in Database
    BY <1>1, <2>4, SaveRevisionEffect
  <2>6. IngestRows(s, d, i) =
          RecordApproval(SaveRevision(
              SaveSpans(SaveFacts(AddDocument(EnsureProject(s, i), d, i), d),
                        d, {}),
              d, InitialRevision(ImportedText(d))), d, "ingest", 1)
    BY DEF IngestRows, ImportedText
  <2>7. \A x \in Database : RecordApproval(x, d, "ingest", 1) \in Database
    BY RecordApprovalEffect
  <2>. QED
    BY <2>5, <2>6, <2>7
<1>. QED
  BY <1>2, <1>4, <1>5, <1>6, <1>7, <1>8, <1>9, <1>10

-----------------------------------------------------------------------------
(* A transaction leaves the database sound *)

\* A revision whose token follows the head extends the chain by one.
LEMMA ChainGrows ==
    ASSUME NEW s \in Database, NEW t \in Database, NEW d \in Docs,
           NEW r \in RevisionRow,
           RevisionsSound(s, d),
           t.revisions[d] = s.revisions[d] \cup {r},
           r.status = "accepted", r.token = Size(s, d) + 1,
           r.revision = r.token, r.parent = Size(s, d), r.base = Size(s, d)
    PROVE  /\ RevisionsSound(t, d)
           /\ Size(t, d) = Size(s, d) + 1
           /\ Size(s, d) \in Nat
<1>1. IsFiniteSet(s.revisions[d]) /\ Size(s, d) \in Nat
  BY FS_CardinalityType DEF RevisionsSound, Size
<1>2. r \notin s.revisions[d]
  BY <1>1 DEF RevisionsSound
<1>3. IsFiniteSet(t.revisions[d]) /\ Size(t, d) = Size(s, d) + 1
  <2>1. /\ IsFiniteSet(s.revisions[d] \cup {r})
        /\ Cardinality(s.revisions[d] \cup {r}) =
              Cardinality(s.revisions[d]) + 1
    <3>1. IsFiniteSet(s.revisions[d])
      BY <1>1
    <3>. QED
      BY <3>1, <1>2, FS_AddElement
  <2>. QED
    BY <2>1 DEF Size
<1>4. \A x \in s.revisions[d] : x.token \in Nat /\ x.token <= Size(s, d)
  BY DEF RevisionsSound, Database, RevisionRow
<1>5. IsChain(t.revisions[d])
  <2> SUFFICES ASSUME NEW x \in t.revisions[d]
               PROVE  /\ x.status = "accepted"
                      /\ x.token > 0
                      /\ x.revision = x.token
                      /\ x.parent = x.token - 1
                      /\ x.base = x.token - 1
                      /\ \A y \in t.revisions[d] : y.token = x.token => y = x
                      /\ x.token > 1 =>
                            \E y \in t.revisions[d] : y.token = x.token - 1
    BY DEF IsChain
  <2>1. CASE x = r
    <3>1. x.token > 1 => \E y \in t.revisions[d] : y.token = x.token - 1
      <4>1. x.token - 1 = Size(s, d)
        BY <1>1, <2>1
      <4>2. Size(s, d) > 0 =>
              \E y \in s.revisions[d] : y.token = Size(s, d)
        BY <1>1 DEF RevisionsSound
      <4>. QED
        BY <1>1, <2>1, <4>1, <4>2
    <3>. QED
      BY <1>1, <1>4, <2>1, <3>1
  <2>2. CASE x \in s.revisions[d]
    <3>1. x.token # r.token
      BY <1>1, <1>4, <2>2
    <3>. QED
      BY <2>2, <3>1 DEF RevisionsSound, IsChain
  <2>. QED
    BY <2>1, <2>2
<1>6. \A x \in t.revisions[d] : x.token <= Size(t, d)
  BY <1>1, <1>3, <1>4
<1>7. \A n \in 1..Size(t, d) : \E x \in t.revisions[d] : x.token = n
  <2> SUFFICES ASSUME NEW n \in 1..Size(t, d)
               PROVE  \E x \in t.revisions[d] : x.token = n
    OBVIOUS
  <2>1. CASE n = Size(s, d) + 1
    BY <2>1
  <2>2. CASE n \in 1..Size(s, d)
    BY <2>2 DEF RevisionsSound
  <2>. QED
    BY <1>1, <1>3, <2>1, <2>2
<1>. QED
  BY <1>1, <1>3, <1>5, <1>6, <1>7 DEF RevisionsSound

\* A document whose rows are the same in s and t is as sound in t.
LEMMA SameRows ==
    ASSUME NEW s \in Database, NEW t \in Database, NEW d \in Docs,
           Sound(s),
           t.revisions[d] = s.revisions[d], t.contents[d] = s.contents[d],
           t.spans[d] = s.spans[d], t.approvals[d] = s.approvals[d],
           t.documents[d] = s.documents[d], t.facts[d] = s.facts[d],
           \A i \in ProjectIds : s.projects[i] # NoRow => t.projects[i] # NoRow
    PROVE  /\ RevisionsSound(t, d) /\ ContentsSound(t, d)
           /\ TextsSound(t, d) /\ ApprovalsSound(t, d) /\ RowsSound(t, d)
<1>1. s.documents[d] # NoRow => s.documents[d] \in ProjectIds
  BY DEF Database
<1>. QED
  BY <1>1 DEF Sound, RevisionsSound, ContentsSound, TextsSound,
              ApprovalsSound, RowsSound, Size

\* The rows of an ingest, written for a document that has no revision yet,
\* leave a sound database that differs by the imported revision alone.
LEMMA IngestRowsSound ==
    ASSUME NEW s, Sound(s), NEW d \in Docs, NEW i \in ProjectIds,
           s.revisions[d] = {}
    PROVE  /\ Sound(IngestRows(s, d, i))
           /\ OneTransaction(s, IngestRows(s, d, i))
           /\ IngestRows(s, d, i).revisions[d] =
                 {InitialRevision(ImportedText(d))}
           /\ IngestRows(s, d, i).contents[d] = {}
<1> DEFINE t == IngestRows(s, d, i)
           r == InitialRevision(ImportedText(d))
           row == [kind |-> "ingest", revision |-> 1]
<1>1. s \in Database
  BY DEF Sound
<1>2. /\ t \in Database
      /\ t.projects[i] # NoRow
      /\ \A k \in ProjectIds : s.projects[k] # NoRow => t.projects[k] # NoRow
      /\ t.documents = [s.documents EXCEPT ![d] = i]
      /\ t.revisions = [s.revisions EXCEPT ![d] = s.revisions[d] \cup {r}]
      /\ t.contents = s.contents
      /\ t.facts = [s.facts EXCEPT ![d] = TRUE]
      /\ t.spans = [s.spans EXCEPT ![d] = {}]
      /\ t.approvals = [s.approvals EXCEPT ![d] = Append(s.approvals[d], row)]
  BY <1>1, IngestRowsEffect, SMTT(40)
<1>3. /\ r \in RevisionRow
      /\ r = [revision |-> 1, parent |-> 0, base |-> 0, token |-> 1,
              status |-> "accepted", sha |-> ImportedText(d)]
  <2>1. ImportedText(d) \in Text
    BY StoreAssumption DEF ImportedText, Text
  <2>. QED
    BY <2>1, RevisionValues DEF InitialRevision
<1> HIDE DEF t, r
<1>4. /\ s.documents[d] = NoRow
      /\ Size(s, d) = 0
      /\ s.approvals[d] = << >>
      /\ s.contents[d] = {}
  <2>1. RowsSound(s, d) /\ ApprovalsSound(s, d) /\ ContentsSound(s, d)
    BY DEF Sound
  <2>2. Size(s, d) = 0
    BY FS_EmptySet DEF Size
  <2>3. s.approvals[d] \in Seq(ApprovalRow) /\ Len(s.approvals[d]) = 0
    BY <1>1, <2>1, <2>2 DEF ApprovalsSound, Database
  <2>4. s.approvals[d] = << >>
    BY <2>3
  <2>. QED
    BY <2>1, <2>2, <2>4 DEF RowsSound, ContentsSound
<1>7. RevisionsSound(t, d) /\ Size(t, d) = 1
  <2>1. RevisionsSound(s, d)
    BY DEF Sound
  <2>2. t.revisions[d] = s.revisions[d] \cup {r}
    BY <1>1, <1>2 DEF Database
  <2>. QED
    BY <1>1, <1>2, <1>3, <1>4, <2>1, <2>2, ChainGrows
<1>8. ASSUME NEW e \in Docs
      PROVE  /\ RevisionsSound(t, e) /\ ContentsSound(t, e)
             /\ TextsSound(t, e) /\ ApprovalsSound(t, e) /\ RowsSound(t, e)
  <2>1. CASE e # d
    <3>1. /\ t.revisions[e] = s.revisions[e] /\ t.contents[e] = s.contents[e]
          /\ t.spans[e] = s.spans[e] /\ t.approvals[e] = s.approvals[e]
          /\ t.documents[e] = s.documents[e] /\ t.facts[e] = s.facts[e]
      BY <1>1, <1>2, <2>1 DEF Database
    <3>. QED
      BY <1>1, <1>2, <3>1, SameRows
  <2>2. CASE e = d
    <3>1. t.revisions[d] = {r}
      BY <1>1, <1>2 DEF Database
    <3>2. ContentsSound(t, d)
      BY <1>2, <1>4 DEF ContentsSound
    <3>3. TextsSound(t, d)
      <4>1. t.spans[d] = {}
        BY <1>1, <1>2 DEF Database
      <4>. QED
        BY <1>3, <3>1, <4>1 DEF TextsSound, Aligned, ImportedText
    <3>4. ApprovalsSound(t, d)
      <4>1. t.approvals[d] = << row >>
        BY <1>1, <1>2, <1>4 DEF Database
      <4>. QED
        BY <1>7, <4>1 DEF ApprovalsSound
    <3>5. RowsSound(t, d)
      <4>1. t.documents[d] = i /\ i # NoRow /\ t.facts[d]
        BY <1>1, <1>2, StoreAssumption DEF Database
      <4>. QED
        BY <1>2, <3>1, <4>1 DEF RowsSound
    <3>. QED
      BY <1>7, <2>2, <3>2, <3>3, <3>4, <3>5
  <2>. QED
    BY <2>1, <2>2
<1>9. Sound(t)
  BY <1>2, <1>8 DEF Sound
<1>10. Grows(s, t)
  <2> SUFFICES ASSUME NEW e \in Docs
               PROVE  /\ s.revisions[e] \subseteq t.revisions[e]
                      /\ s.contents[e] \subseteq t.contents[e]
                      /\ IsPrefix(s.approvals[e], t.approvals[e])
                      /\ s.documents[e] # NoRow =>
                            t.documents[e] = s.documents[e]
    BY DEF Grows
  <2>1. IsPrefix(s.approvals[e], t.approvals[e])
    <3>1. row \in ApprovalRow
      BY DEF ApprovalRow
    <3>2. s.approvals[e] \in Seq(ApprovalRow)
      BY <1>1 DEF Database
    <3>3. t.approvals[e] = s.approvals[e]
             \/ t.approvals[e] = Append(s.approvals[e], row)
      BY <1>1, <1>2 DEF Database
    <3>4. IsPrefix(s.approvals[e], s.approvals[e])
      BY <3>2 DEF IsPrefix
    <3>5. IsPrefix(s.approvals[e], Append(s.approvals[e], row))
      BY <3>1, <3>2, AppendIsPrefix
    <3>. QED
      BY <3>3, <3>4, <3>5
  <2>2. s.revisions[e] \subseteq t.revisions[e]
    BY <1>1, <1>2 DEF Database
  <2>3. s.documents[e] # NoRow => t.documents[e] = s.documents[e]
    BY <1>1, <1>2, <1>4 DEF Database
  <2>. QED
    BY <1>2, <2>1, <2>2, <2>3
<1>11. OneTransaction(s, t)
  <2>1. Imported(s, d, r)
    BY <1>3 DEF Imported
  <2>2. r \in t.revisions[d]
    BY <1>1, <1>2 DEF Database
  <2>. QED
    BY <1>2, <1>10, <2>1, <2>2 DEF OneTransaction
<1>12. t.revisions[d] = {r} /\ t.contents[d] = {}
  BY <1>1, <1>2, <1>4 DEF Database
<1>. QED
  BY <1>9, <1>11, <1>12 DEF t, r

\* Adding the content of a revision that has none keeps a database sound,
\* and what a transaction may publish stays publishable.
LEMMA SaveContentSound ==
    ASSUME NEW s, NEW t, Sound(t), OneTransaction(s, t),
           NEW d \in Docs, NEW c \in ContentRow,
           \E r \in t.revisions[d] : r.revision = c.revision /\ r.sha = c.text,
           ContentOf(t, d, c.revision) = {}
    PROVE  /\ Sound(SaveContent(t, d, c))
           /\ OneTransaction(s, SaveContent(t, d, c))
           /\ SaveContent(t, d, c).projects = t.projects
<1> DEFINE u == SaveContent(t, d, c)
<1>1. t \in Database
  BY DEF Sound
<1>2. /\ u \in Database
      /\ u = [t EXCEPT !.contents =
                 [t.contents EXCEPT ![d] = t.contents[d] \cup {c}]]
  BY <1>1, SaveContentEffect
<1> HIDE DEF u
<1>3. /\ u.revisions = t.revisions /\ u.spans = t.spans
      /\ u.approvals = t.approvals /\ u.documents = t.documents
      /\ u.facts = t.facts /\ u.projects = t.projects
      /\ u.contents = [t.contents EXCEPT ![d] = t.contents[d] \cup {c}]
  BY <1>1, <1>2 DEF Database
<1>4. ASSUME NEW e \in Docs
      PROVE  /\ RevisionsSound(u, e) /\ ContentsSound(u, e)
             /\ TextsSound(u, e) /\ ApprovalsSound(u, e) /\ RowsSound(u, e)
  <2>1. ContentsSound(t, e)
    BY DEF Sound
  <2>2. ContentsSound(u, e)
    <3>1. CASE e = d
      <4>1. u.contents[d] = t.contents[d] \cup {c}
        BY <1>1, <1>3 DEF Database
      <4>2. \A x \in t.contents[d] : x.revision # c.revision
        BY DEF ContentOf
      <4>. QED
        BY <1>3, <2>1, <3>1, <4>1, <4>2 DEF ContentsSound
    <3>2. CASE e # d
      <4>1. u.contents[e] = t.contents[e]
        BY <1>1, <1>3, <3>2 DEF Database
      <4>. QED
        BY <1>3, <2>1, <4>1 DEF ContentsSound
    <3>. QED
      BY <3>1, <3>2
  <2>. QED
    BY <1>3, <2>2 DEF Sound, RevisionsSound, TextsSound, ApprovalsSound,
                      RowsSound, Size
<1>5. Grows(s, u)
  <2>1. \A e \in Docs : t.contents[e] \subseteq u.contents[e]
    BY <1>1, <1>3 DEF Database
  <2>. QED
    BY <1>3, <2>1 DEF OneTransaction, Grows
<1>6. OneTransaction(s, u)
  BY <1>3, <1>5 DEF OneTransaction
<1>. QED
  BY <1>2, <1>3, <1>4, <1>6 DEF Sound, u

\* Binding a profile changes the row of a project that exists.
LEMMA BindStyleSound ==
    ASSUME NEW s, NEW t, Sound(t), OneTransaction(s, t),
           NEW i \in ProjectIds, NEW label \in Labels
    PROVE  /\ Sound(BindStyle(t, i, label))
           /\ OneTransaction(s, BindStyle(t, i, label))
<1> DEFINE u == BindStyle(t, i, label)
<1>1. t \in Database
  BY DEF Sound
<1>2. u \in Database
  BY <1>1, BindStyleEffect
<1>3. /\ u.revisions = t.revisions /\ u.spans = t.spans
      /\ u.approvals = t.approvals /\ u.documents = t.documents
      /\ u.facts = t.facts /\ u.contents = t.contents
      /\ u.projects = [t.projects EXCEPT ![i] = label]
  BY <1>1 DEF BindStyle, Database
<1> HIDE DEF u
<1>4. \A k \in ProjectIds : t.projects[k] # NoRow => u.projects[k] # NoRow
  BY <1>1, <1>3, StoreAssumption DEF Database
<1>5. \A e \in Docs :
         /\ RevisionsSound(u, e) /\ ContentsSound(u, e)
         /\ TextsSound(u, e) /\ ApprovalsSound(u, e) /\ RowsSound(u, e)
  BY <1>1, <1>2, <1>3, <1>4, SameRows
<1>6. OneTransaction(s, u)
  BY <1>3 DEF OneTransaction, Grows
<1>. QED
  BY <1>2, <1>5, <1>6 DEF Sound, u

\* A revision that was loaded and is still the latest accepted one is the
\* last of the chain.
LEMMA HeadIsLast ==
    ASSUME NEW s, Sound(s), NEW d \in Docs, NEW row \in s.revisions[d],
           HeadUnchanged(s, d, row)
    PROVE  /\ row.token = Size(s, d)
           /\ row.revision = Size(s, d)
           /\ Size(s, d) \in Nat \ {0}
           /\ row \in RevisionRow
<1>1. RevisionsSound(s, d) /\ s \in Database
  BY DEF Sound
<1>2. Size(s, d) \in Nat
  BY <1>1, FS_CardinalityType DEF RevisionsSound, Size
<1>3. \A x \in s.revisions[d] : /\ x \in RevisionRow /\ x.token \in Nat \ {0}
                                /\ x.status = "accepted"
                                /\ x.revision = x.token
                                /\ x.token <= Size(s, d)
  BY <1>1 DEF RevisionsSound, IsChain, Database, RevisionRow
<1>4. \A x \in s.revisions[d] : x.token <= row.token
  <2>1. PICK head \in s.revisions[d] :
           IsLatestAccepted(s, d, head) /\ head.revision = row.revision
    BY DEF HeadUnchanged
  <2>. QED
    BY <1>3, <2>1 DEF IsLatestAccepted, Accepted
<1>5. Size(s, d) \in 1..Size(s, d)
  BY <1>2, <1>3
<1>6. PICK last \in s.revisions[d] : last.token = Size(s, d)
  BY <1>1, <1>5 DEF RevisionsSound
<1>. QED
  BY <1>2, <1>3, <1>4, <1>5, <1>6

\* The writes of a finalization as one value.
FinalRows(s, d, row, spans, accepted, label, run) ==
    LET new == AcceptRevision(ProposeNext(row, NextText(row.sha, accepted)))
        content == [revision |-> new.revision, text |-> new.sha,
                    style |-> label, run |-> run]
    IN  RecordApproval(
            SaveSpans(SaveContent(SaveRevision(s, d, new), d, content),
                      d, Rebased(spans, accepted)),
            d, "revision", new.revision)

\* The revision and the content a finalization of row adds.
NewRow(row, accepted) ==
    [revision |-> row.token + 1, parent |-> row.revision, base |-> row.token,
     token |-> row.token + 1, status |-> "accepted",
     sha |-> NextText(row.sha, accepted)]

NewContent(row, accepted, label, run) ==
    [revision |-> row.token + 1, text |-> NextText(row.sha, accepted),
     style |-> label, run |-> run]

LEMMA FinalRowsEffect ==
    ASSUME NEW s \in Database, NEW d \in Docs, NEW row \in RevisionRow,
           NEW spans \in SUBSET Shifting, NEW accepted \in SUBSET Changes,
           NEW label \in Labels \cup {NoLabel}, NEW run \in Run,
           NEW t, t = FinalRows(s, d, row, spans, accepted, label, run)
    PROVE  /\ NewRow(row, accepted) \in RevisionRow
           /\ NewContent(row, accepted, label, run) \in ContentRow
           /\ t \in Database
           /\ t.projects = s.projects
           /\ t.documents = s.documents
           /\ t.facts = s.facts
           /\ t.revisions = [s.revisions EXCEPT ![d] =
                 s.revisions[d] \cup {NewRow(row, accepted)}]
           /\ t.contents = [s.contents EXCEPT ![d] =
                 s.contents[d] \cup {NewContent(row, accepted, label, run)}]
           /\ t.spans = [s.spans EXCEPT ![d] = Rebased(spans, accepted)]
           /\ t.approvals = [s.approvals EXCEPT ![d] = Append(s.approvals[d],
                 [kind |-> "revision", revision |-> row.token + 1])]
<1> DEFINE new == NewRow(row, accepted)
           content == NewContent(row, accepted, label, run)
<1>1. NextText(row.sha, accepted) \in Text
  BY DEF NextText, Text, RevisionRow
<1>2. /\ new \in RevisionRow
      /\ AcceptRevision(ProposeNext(row, NextText(row.sha, accepted))) = new
  BY <1>1, RevisionValues DEF NewRow
<1>3. content \in ContentRow
  BY <1>1 DEF NewContent, ContentRow, RevisionRow
<1>4. Rebased(spans, accepted) \in SUBSET Shifting
  BY DEF Rebased
<1>5. new.revision = row.token + 1 /\ row.token + 1 \in Nat /\
      new.sha = NextText(row.sha, accepted)
  BY DEF NewRow, RevisionRow
<1> DEFINE s1 == SaveRevision(s, d, new)
           s2 == SaveContent(s1, d, content)
           s3 == SaveSpans(s2, d, Rebased(spans, accepted))
           s4 == RecordApproval(s3, d, "revision", row.token + 1)
<1>6. t = s4
  BY <1>2, <1>5 DEF FinalRows, NewContent
<1>7. s1 \in Database
  BY <1>2, SaveRevisionEffect
<1>8. s2 \in Database
  BY <1>3, <1>7, SaveContentEffect
<1>9. s3 \in Database
  BY <1>4, <1>8, SaveSpansEffect
<1>10. s4 \in Database
  BY <1>5, <1>9, RecordApprovalEffect
<1>11. /\ s4.projects = s.projects /\ s4.documents = s.documents
       /\ s4.facts = s.facts
  BY DEF SaveRevision, SaveContent, SaveSpans, RecordApproval, Database
<1>12. /\ s4.revisions = [s.revisions EXCEPT ![d] = s.revisions[d] \cup {new}]
       /\ s4.contents =
             [s.contents EXCEPT ![d] = s.contents[d] \cup {content}]
  BY DEF SaveRevision, SaveContent, SaveSpans, RecordApproval, Database
<1>13. /\ s4.spans = [s.spans EXCEPT ![d] = Rebased(spans, accepted)]
       /\ s4.approvals = [s.approvals EXCEPT ![d] = Append(s.approvals[d],
             [kind |-> "revision", revision |-> row.token + 1])]
  BY DEF SaveRevision, SaveContent, SaveSpans, RecordApproval, Database
<1>. HIDE DEF s4
<1>. QED
  BY <1>2, <1>3, <1>6, <1>10, <1>11, <1>12, <1>13

\* A finalization that passes its checks adds one reviewed revision after
\* the head and moves the span rows onto the text of that revision.
LEMMA FinalRowsSound ==
    ASSUME NEW s, Sound(s), NEW d \in Docs, NEW row \in s.revisions[d],
           HeadUnchanged(s, d, row),
           NEW spans \in SUBSET Shifting, NEW accepted \in SUBSET Changes,
           CanRebase(spans, row.sha, accepted),
           NEW label \in Labels \cup {NoLabel}, NEW run \in Run
    PROVE  /\ Sound(FinalRows(s, d, row, spans, accepted, label, run))
           /\ OneTransaction(s,
                 FinalRows(s, d, row, spans, accepted, label, run))
<1> DEFINE t == FinalRows(s, d, row, spans, accepted, label, run)
           new == NewRow(row, accepted)
           content == NewContent(row, accepted, label, run)
           approval == [kind |-> "revision", revision |-> row.token + 1]
<1>1. s \in Database /\ RevisionsSound(s, d) /\ ContentsSound(s, d)
      /\ TextsSound(s, d) /\ ApprovalsSound(s, d) /\ RowsSound(s, d)
  BY DEF Sound
<1>2. /\ row.token = Size(s, d) /\ row.revision = Size(s, d)
      /\ Size(s, d) \in Nat \ {0} /\ row \in RevisionRow
  BY HeadIsLast
<1> HIDE DEF t
<1>3. /\ new \in RevisionRow
      /\ content \in ContentRow
      /\ t \in Database
      /\ t.projects = s.projects
      /\ t.documents = s.documents
      /\ t.facts = s.facts
      /\ t.revisions = [s.revisions EXCEPT ![d] = s.revisions[d] \cup {new}]
      /\ t.contents = [s.contents EXCEPT ![d] = s.contents[d] \cup {content}]
      /\ t.spans = [s.spans EXCEPT ![d] = Rebased(spans, accepted)]
      /\ t.approvals =
            [s.approvals EXCEPT ![d] = Append(s.approvals[d], approval)]
  BY <1>1, <1>2, FinalRowsEffect DEF t
<1>4. /\ new.status = "accepted" /\ new.token = Size(s, d) + 1
      /\ new.revision = new.token /\ new.parent = Size(s, d)
      /\ new.base = Size(s, d) /\ new.sha = NextText(row.sha, accepted)
      /\ content.revision = new.token /\ content.text = new.sha
      /\ approval.revision = new.token
  BY <1>2 DEF NewRow, NewContent
<1> HIDE DEF new, content, approval
<1>5. /\ t.revisions[d] = s.revisions[d] \cup {new}
      /\ t.contents[d] = s.contents[d] \cup {content}
      /\ t.spans[d] = Rebased(spans, accepted)
      /\ t.approvals[d] = Append(s.approvals[d], approval)
  BY <1>1, <1>3 DEF Database
<1>6. RevisionsSound(t, d) /\ Size(t, d) = Size(s, d) + 1
  BY <1>1, <1>3, <1>4, <1>5, ChainGrows
<1>7. \A x \in s.revisions[d] :
         /\ x.revision = x.token /\ x.token \in Nat /\ x.token <= Size(s, d)
  BY <1>1 DEF RevisionsSound, IsChain, Database, RevisionRow
<1>8. ContentsSound(t, d)
  <2>1. \A x \in s.contents[d] : x.revision # content.revision
    BY <1>1, <1>2, <1>4, <1>7 DEF ContentsSound
  <2>2. new.revision = content.revision /\ new.sha = content.text
    BY <1>4
  <2>. QED
    BY <1>1, <1>5, <2>1, <2>2 DEF ContentsSound
<1>9. TextsSound(t, d)
  <2>1. /\ row.sha.source = SourceOf[d]
        /\ row.sha.edits \cap Guarded = {}
        /\ row.sha \in Text
    BY <1>1, <1>2 DEF TextsSound, RevisionRow
  <2>2. /\ new.sha.source = SourceOf[d]
        /\ new.sha.edits = row.sha.edits \cup accepted
    BY <1>4, <2>1 DEF NextText, Text
  <2>3. accepted \cap Guarded = {} /\ spans = row.sha.edits \cap Shifting
    BY DEF CanRebase, Aligned
  <2>4. Aligned(t.spans[d], new.sha)
    BY <1>5, <2>2, <2>3 DEF Rebased, Aligned
  <2>5. \A x \in s.revisions[d] : x.token # Size(t, d)
    BY <1>2, <1>6, <1>7
  <2>6. new.token # 1
    BY <1>2, <1>4
  <2>. QED
    BY <1>1, <1>5, <2>2, <2>3, <2>4, <2>5, <2>6, <2>1 DEF TextsSound
<1>10. approval \in ApprovalRow /\ s.approvals[d] \in Seq(ApprovalRow)
  BY <1>1, <1>2 DEF approval, ApprovalRow, Database
<1>11. ApprovalsSound(t, d)
  <2>1. /\ Len(t.approvals[d]) = Size(t, d)
        /\ t.approvals[d][Size(t, d)] = approval
        /\ \A n \in 1..Size(s, d) : t.approvals[d][n] = s.approvals[d][n]
    BY <1>1, <1>5, <1>6, <1>10, AppendIsPrefix DEF ApprovalsSound
  <2>2. approval = [kind |-> "revision", revision |-> Size(t, d)]
    BY <1>2, <1>6 DEF approval
  <2>3. ASSUME NEW n \in 1..Size(t, d)
        PROVE  t.approvals[d][n] =
                  [kind |-> IF n = 1 THEN "ingest" ELSE "revision",
                   revision |-> n]
    <3>1. CASE n = Size(t, d)
      BY <1>2, <1>6, <2>1, <2>2, <3>1
    <3>2. CASE n \in 1..Size(s, d)
      BY <1>1, <2>1, <3>2 DEF ApprovalsSound
    <3>. QED
      BY <1>2, <1>6, <3>1, <3>2
  <2>. QED
    BY <2>1, <2>3 DEF ApprovalsSound
<1>12. RowsSound(t, d)
  BY <1>1, <1>3, <1>5 DEF RowsSound
<1>13. ASSUME NEW e \in Docs
       PROVE  /\ RevisionsSound(t, e) /\ ContentsSound(t, e)
              /\ TextsSound(t, e) /\ ApprovalsSound(t, e) /\ RowsSound(t, e)
  <2>1. CASE e # d
    <3>1. /\ t.revisions[e] = s.revisions[e] /\ t.contents[e] = s.contents[e]
          /\ t.spans[e] = s.spans[e] /\ t.approvals[e] = s.approvals[e]
          /\ t.documents[e] = s.documents[e] /\ t.facts[e] = s.facts[e]
      BY <1>1, <1>3, <2>1 DEF Database
    <3>2. \A i \in ProjectIds :
             s.projects[i] # NoRow => t.projects[i] # NoRow
      BY <1>3
    <3>. QED
      BY <1>1, <1>3, <3>1, <3>2, SameRows
  <2>. QED
    BY <2>1, <1>6, <1>8, <1>9, <1>11, <1>12
<1>14. Grows(s, t)
  <2> SUFFICES ASSUME NEW e \in Docs
               PROVE  /\ s.revisions[e] \subseteq t.revisions[e]
                      /\ s.contents[e] \subseteq t.contents[e]
                      /\ IsPrefix(s.approvals[e], t.approvals[e])
                      /\ s.documents[e] # NoRow =>
                            t.documents[e] = s.documents[e]
    BY DEF Grows
  <2>1. IsPrefix(s.approvals[e], t.approvals[e])
    <3>1. CASE e = d
      <4>1. IsPrefix(s.approvals[d], Append(s.approvals[d], approval))
        BY <1>10, AppendIsPrefix
      <4>. QED
        BY <1>5, <3>1, <4>1
    <3>2. CASE e # d
      <4>1. t.approvals[e] = s.approvals[e]
        BY <1>1, <1>3, <3>2 DEF Database
      <4>. QED
        BY <1>1, <4>1 DEF IsPrefix, Database
    <3>. QED
      BY <3>1, <3>2
  <2>. QED
    BY <1>1, <1>3, <2>1 DEF Database
<1>15. Finalized(s, d, new)
  <2>1. accepted \in SUBSET (Changes \ Guarded)
    BY DEF CanRebase
  <2>. QED
    BY <1>2, <1>4, <2>1 DEF Finalized
<1>16. OneTransaction(s, t)
  BY <1>3, <1>5, <1>14, <1>15 DEF OneTransaction
<1>. QED
  BY <1>3, <1>13, <1>16 DEF Sound, t

-----------------------------------------------------------------------------
(* The steps: what they have in common *)

LEMMA BlankType == Blank \in Locals
BY DEF Blank, Locals, Journal, NoDecisions

\* A process that does nothing keeps what it relies on, because the rows it
\* loaded are never withdrawn.
LEMMA OthersKeepWorking ==
    ASSUME NEW q \in Clients, Working(q), TypeOK,
           pc'[q] = pc[q], loc'[q] = loc[q], Grows(db, db'),
           DOMAIN proposals \subseteq DOMAIN proposals',
           DOMAIN reviews \subseteq DOMAIN reviews'
    PROVE  Working(q)'
<1>1. Canonical # NoRow
  BY StoreAssumption, ClientAssumption
<1>2. loc[q].doc \in Docs =>
         /\ db.revisions[loc[q].doc] \subseteq db'.revisions[loc[q].doc]
         /\ db.documents[loc[q].doc] # NoRow =>
               db'.documents[loc[q].doc] = db.documents[loc[q].doc]
  BY DEF Grows
<1>. QED
  BY <1>1, <1>2 DEF Working, Loaded

\* A step of one process that leaves the database and the lock alone keeps
\* the invariant when it keeps the types and what the process relies on.
LEMMA LocalStep ==
    ASSUME IInv, TypeOK', UNCHANGED <<db, staged, lock>>,
           NEW p \in Clients, pc[p] # "commit", pc'[p] # "commit",
           \A q \in Clients \ {p} : pc'[q] = pc[q] /\ loc'[q] = loc[q],
           DOMAIN proposals \subseteq DOMAIN proposals',
           DOMAIN reviews \subseteq DOMAIN reviews',
           Working(p)'
    PROVE  IInv'
<1>1. OneWriter'
  BY DEF IInv, OneWriter
<1>2. Sound(db)' /\ Sound(staged)' /\ OneTransaction(db, staged)'
  BY DEF IInv
<1>3. Grows(db, db')
  BY GrowsReflexive DEF IInv, TypeOK
<1>4. \A q \in Clients : Working(q)'
  <2> SUFFICES ASSUME NEW q \in Clients, q # p PROVE Working(q)'
    OBVIOUS
  <2>. QED
    BY <1>3, OthersKeepWorking DEF IInv
<1>. QED
  BY <1>1, <1>2, <1>4 DEF IInv

\* A step that opens a transaction: what it will publish must be sound.
LEMMA StageStep ==
    ASSUME IInv, NEW p \in Clients, NEW next, Stage(p, next), UNCHANGED loc,
           Sound(next), OneTransaction(db, next)
    PROVE  IInv'
<1>1. /\ lock = Nobody /\ lock' = p /\ staged' = next
      /\ pc' = [pc EXCEPT ![p] = "commit"] /\ db' = db
      /\ proposals' = proposals /\ reviews' = reviews /\ approved' = approved
  BY DEF Stage, Goto, files
<1>2. TypeOK'
  BY <1>1 DEF IInv, TypeOK, Steps, Sound
<1>3. OneWriter'
  <2>1. \A q \in Clients : pc[q] # "commit"
    BY <1>1, ClientAssumption DEF IInv, OneWriter
  <2>. QED
    BY <1>1, <2>1, ClientAssumption DEF IInv, TypeOK, OneWriter
<1>4. Grows(db, db')
  BY <1>1, GrowsReflexive DEF IInv, TypeOK
<1>5. \A q \in Clients : Working(q)'
  <2> SUFFICES ASSUME NEW q \in Clients PROVE Working(q)'
    OBVIOUS
  <2>1. CASE q = p
    <3>1. pc'[p] = "commit"
      BY <1>1 DEF IInv, TypeOK
    <3>. QED
      BY <2>1, <3>1 DEF Working, Loaded
  <2>2. CASE q # p
    <3>1. pc'[q] = pc[q] /\ loc'[q] = loc[q]
      BY <1>1, <2>2 DEF IInv, TypeOK
    <3>. QED
      BY <1>1, <1>4, <3>1, OthersKeepWorking DEF IInv
  <2>. QED
    BY <2>1, <2>2
<1>6. Sound(db)' /\ Sound(staged)' /\ OneTransaction(db, staged)'
  BY <1>1 DEF IInv
<1>. QED
  BY <1>2, <1>3, <1>5, <1>6 DEF IInv

\* A process that has ended relies on nothing.
LEMMA FinishEffect ==
    ASSUME TypeOK, NEW p \in Clients, Finish(p)
    PROVE  /\ pc' \in [Clients -> Steps] /\ loc' \in [Clients -> Locals]
           /\ pc'[p] = "idle"
           /\ Working(p)'
           /\ \A q \in Clients \ {p} : pc'[q] = pc[q] /\ loc'[q] = loc[q]
<1>1. /\ pc' = [pc EXCEPT ![p] = "idle"] /\ loc' = [loc EXCEPT ![p] = Blank]
  BY DEF Finish, Goto
<1>2. pc'[p] = "idle"
  BY <1>1 DEF TypeOK
<1>. QED
  BY <1>1, <1>2, BlankType DEF TypeOK, Steps, Working, Loaded

\* The first step of a command.
LEMMA StartEffect ==
    ASSUME IInv, NEW p \in Clients, NEW cmd, NEW step \in Steps \ {"commit"},
           NEW locals \in Locals, Start(p, cmd, step, locals)
    PROVE  /\ TypeOK'
           /\ pc[p] = "idle" /\ pc'[p] = step
           /\ loc'[p] = [locals EXCEPT !.cmd = cmd]
           /\ \A q \in Clients \ {p} : pc'[q] = pc[q] /\ loc'[q] = loc[q]
           /\ UNCHANGED <<db, staged, lock, proposals, reviews, approved>>
<1>1. /\ pc[p] = "idle" /\ cmd \in Commands
      /\ loc' = [loc EXCEPT ![p] = [locals EXCEPT !.cmd = cmd]]
      /\ pc' = [pc EXCEPT ![p] = step]
      /\ UNCHANGED <<db, staged, lock, proposals, reviews, approved>>
  BY ClientAssumption DEF Start, Goto, files
<1>2. [locals EXCEPT !.cmd = cmd] \in Locals
  BY <1>1 DEF Locals
<1>. QED
  BY <1>1, <1>2 DEF IInv, TypeOK

-----------------------------------------------------------------------------
(* The steps: the transactions *)

\* A document that may be added has no revision, so an ingest starts a chain.
LEMMA IngestTxKeeps ==
    ASSUME IInv, NEW p \in Clients, IngestTx(p)
    PROVE  IInv'
<1> DEFINE d == loc[p].doc
           label == loc[p].label
           rows == IngestRows(db, d, Canonical)
           content == InitialContent(d, label)
<1>1. /\ d \in Docs /\ label \in Labels \cup {NoLabel}
      /\ Canonical \in ProjectIds
  BY ClientAssumption DEF IngestTx, IInv, TypeOK, Locals, Working
<1>2. db.revisions[d] = {} /\ db.contents[d] = {} /\ db \in Database
  <2>1. db.documents[d] = NoRow
    BY DEF IngestTx, CanAddDocument
  <2>. QED
    BY <1>1, <2>1 DEF IInv, Sound, RowsSound, ContentsSound
<1>3. /\ Sound(rows) /\ OneTransaction(db, rows)
      /\ rows.revisions[d] = {InitialRevision(ImportedText(d))}
      /\ rows.contents[d] = {}
  BY <1>1, <1>2, IngestRowsSound DEF IInv
<1>5. content \in ContentRow
  BY <1>1, StoreAssumption DEF InitialContent, ContentRow, Text
<1>6. /\ content.revision = 1
      /\ InitialRevision(ImportedText(d)).revision = 1
      /\ InitialRevision(ImportedText(d)).sha = content.text
  BY DEF InitialContent, InitialRevision, ImportedText
<1>7. ContentOf(rows, d, content.revision) = {}
  BY <1>3 DEF ContentOf
<1> DEFINE saved == SaveContent(rows, d, content)
<1>8. Sound(saved) /\ OneTransaction(db, saved)
  <2> HIDE DEF rows, content, d
  <2>1. \E r \in rows.revisions[d] :
           r.revision = content.revision /\ r.sha = content.text
    BY <1>3, <1>6
  <2>. QED
    BY <1>1, <1>3, <1>5, <1>7, <2>1, SaveContentSound
<1>9. label # NoLabel =>
         /\ Sound(BindStyle(saved, Canonical, label))
         /\ OneTransaction(db, BindStyle(saved, Canonical, label))
  <2> HIDE DEF saved, label
  <2>. QED
    BY <1>1, <1>8, BindStyleSound
<1>10. UNCHANGED loc
  BY DEF IngestTx
<1>11. Stage(p, IF label = NoLabel THEN saved
                                   ELSE BindStyle(saved, Canonical, label))
  BY DEF IngestTx
<1> HIDE DEF saved, label
<1>. QED
  BY <1>8, <1>9, <1>10, <1>11, StageStep

LEMMA ProjectIngestTxKeeps ==
    ASSUME IInv, NEW p \in Clients, NEW d \in Docs, NEW i \in ProjectIds,
           ProjectIngestTx(p, d, i)
    PROVE  IInv'
<1>1. db.revisions[d] = {} /\ UNCHANGED loc /\ Stage(p, IngestRows(db, d, i))
  BY DEF ProjectIngestTx, HasRevision
<1>2. Sound(IngestRows(db, d, i)) /\ OneTransaction(db, IngestRows(db, d, i))
  BY <1>1, IngestRowsSound DEF IInv
<1>. QED
  BY <1>1, <1>2, StageStep

\* The revision that was loaded is still in the store, and the check under
\* the lock finds it to be the head.
LEMMA FinalizeKeeps ==
    ASSUME IInv, NEW p \in Clients, Finalize(p)
    PROVE  IInv'
<1> DEFINE d == loc[p].doc
           row == loc[p].row
           rows == FinalRows(db, d, row, loc[p].spans, loc[p].accepted,
                             loc[p].label, loc[p].run)
<1>1. /\ d \in Docs /\ row \in db.revisions[d] /\ loc[p].run \in Run
      /\ loc[p].spans \in SUBSET Shifting /\ loc[p].accepted \in SUBSET Changes
      /\ loc[p].label \in Labels \cup {NoLabel}
  BY DEF Finalize, IInv, TypeOK, Locals, Working, Loaded
<1>2. /\ HeadUnchanged(db, d, row)
      /\ CanRebase(loc[p].spans, row.sha, loc[p].accepted)
      /\ UNCHANGED loc
  BY DEF Finalize
<1>3. Stage(p, rows)
  BY DEF Finalize, FinalRows
<1>4. Sound(rows) /\ OneTransaction(db, rows)
  BY <1>1, <1>2, FinalRowsSound DEF IInv
<1> HIDE DEF rows
<1>. QED
  BY <1>2, <1>3, <1>4, StageStep

\* What was staged becomes the database: readers find what they loaded.
LEMMA CommitKeeps ==
    ASSUME IInv, NEW p \in Clients, Commit(p)
    PROVE  IInv'
<1>1. /\ pc[p] = "commit" /\ db' = staged /\ staged' = staged
      /\ lock' = Nobody /\ Finish(p)
      /\ UNCHANGED <<proposals, reviews, approved>>
  BY DEF Commit, files
<1>2. lock = p /\ \A q \in Clients \ {p} : pc[q] # "commit"
  BY <1>1 DEF IInv, OneWriter
<1>3. /\ pc' \in [Clients -> Steps] /\ loc' \in [Clients -> Locals]
      /\ pc'[p] = "idle" /\ Working(p)'
      /\ \A q \in Clients \ {p} : pc'[q] = pc[q] /\ loc'[q] = loc[q]
  BY <1>1, FinishEffect DEF IInv
<1>4. TypeOK'
  BY <1>1, <1>3 DEF IInv, TypeOK
<1>5. OneWriter'
  BY <1>1, <1>2, <1>3, ClientAssumption DEF OneWriter
<1>6. Sound(db)' /\ Sound(staged)'
  BY <1>1 DEF IInv
<1>7. OneTransaction(db, staged)'
  BY <1>1, GrowsReflexive DEF IInv, TypeOK, OneTransaction
<1>8. Grows(db, db')
  BY <1>1 DEF IInv, OneTransaction
<1>9. \A q \in Clients : Working(q)'
  <2> SUFFICES ASSUME NEW q \in Clients, q # p PROVE Working(q)'
    BY <1>3
  <2>. QED
    BY <1>1, <1>3, <1>8, OthersKeepWorking DEF IInv
<1>. QED
  BY <1>4, <1>5, <1>6, <1>7, <1>9 DEF IInv

\* A rolled back transaction leaves the database it started from.
LEMMA AbortKeeps ==
    ASSUME IInv, NEW p \in Clients, Abort(p)
    PROVE  IInv'
<1>1. /\ db' = db /\ Finish(p) /\ UNCHANGED <<proposals, reviews, approved>>
      /\ IF lock = p THEN lock' = Nobody /\ staged' = db
                     ELSE UNCHANGED <<lock, staged>>
  BY DEF Abort, files
<1>2. /\ pc' \in [Clients -> Steps] /\ loc' \in [Clients -> Locals]
      /\ pc'[p] = "idle" /\ Working(p)'
      /\ \A q \in Clients \ {p} : pc'[q] = pc[q] /\ loc'[q] = loc[q]
  BY <1>1, FinishEffect DEF IInv
<1>3. TypeOK'
  BY <1>1, <1>2 DEF IInv, TypeOK
<1>4. OneWriter'
  BY <1>1, <1>2, ClientAssumption DEF IInv, OneWriter
<1>5. Grows(db, db') /\ OneTransaction(db, db)
  BY <1>1, GrowsReflexive DEF IInv, TypeOK, OneTransaction
<1>6. Sound(db)' /\ Sound(staged)' /\ OneTransaction(db, staged)'
  BY <1>1, <1>5 DEF IInv
<1>7. \A q \in Clients : Working(q)'
  <2> SUFFICES ASSUME NEW q \in Clients, q # p PROVE Working(q)'
    BY <1>2
  <2>. QED
    BY <1>1, <1>2, <1>5, OthersKeepWorking DEF IInv
<1>. QED
  BY <1>3, <1>4, <1>6, <1>7 DEF IInv

\* bind-style writes the row of a project and nothing of a document.
LEMMA BindStyleCmdKeeps ==
    ASSUME IInv, NEW p \in Clients, NEW label \in Labels,
           BindStyleCmd(p, label)
    PROVE  /\ IInv'
           /\ OneTransaction(db, db')
<1>1. /\ lock = Nobody /\ staged' = db' /\ db' = BindStyle(db, Canonical, label)
      /\ UNCHANGED <<lock, pc, loc, proposals, reviews, approved>>
  BY DEF BindStyleCmd, files
<1>2. OneTransaction(db, db)
  BY GrowsReflexive DEF IInv, TypeOK, OneTransaction
<1>3. Sound(db') /\ OneTransaction(db, db')
  BY <1>1, <1>2, ClientAssumption, BindStyleSound DEF IInv
<1>4. Grows(db, db') /\ db' \in Database
  BY <1>3 DEF OneTransaction, Sound
<1>5. TypeOK' /\ OneWriter'
  BY <1>1, <1>4 DEF IInv, TypeOK, OneWriter
<1>6. OneTransaction(db, staged)'
  <2>1. Grows(db', db')
    BY <1>4, GrowsReflexive
  <2>. QED
    BY <1>1, <2>1 DEF OneTransaction
<1>7. Sound(db)' /\ Sound(staged)'
  BY <1>1, <1>3
<1>8. \A q \in Clients : Working(q)'
  BY <1>1, <1>4, OthersKeepWorking DEF IInv
<1>. QED
  BY <1>3, <1>5, <1>6, <1>7, <1>8 DEF IInv

-----------------------------------------------------------------------------
(* The steps: reading the store *)

LEMMA IngestCheckKeeps ==
    ASSUME IInv, NEW p \in Clients, NEW d \in Docs,
           NEW label \in Labels \cup {NoLabel}, IngestCheck(p, d, label)
    PROVE  IInv'
<1> DEFINE locals == [Blank EXCEPT !.doc = d, !.label = label]
<1>1. locals \in Locals
  BY BlankType DEF Locals
<1>2. Start(p, "ingest", "ingest", locals) /\ "ingest" \in Steps \ {"commit"}
  BY DEF IngestCheck, Steps
<1>3. locals.doc = d
  BY DEF Blank
<1> HIDE DEF locals
<1>4. /\ TypeOK' /\ pc[p] = "idle" /\ pc'[p] = "ingest"
      /\ loc'[p] = [locals EXCEPT !.cmd = "ingest"]
      /\ \A q \in Clients \ {p} : pc'[q] = pc[q] /\ loc'[q] = loc[q]
      /\ UNCHANGED <<db, staged, lock, proposals, reviews, approved>>
  BY <1>1, <1>2, StartEffect
<1>5. loc'[p].doc = d
  BY <1>1, <1>3, <1>4 DEF Locals
<1>6. Working(p)'
  BY <1>4, <1>5 DEF Working, Loaded
<1>. QED
  BY <1>4, <1>6, LocalStep

\* The three commands that load a document start the same way.
LEMMA StartLoadKeeps ==
    ASSUME IInv, NEW p \in Clients, NEW locals \in Locals,
           NEW cmd \in {"context", "propose", "apply"},
           locals.doc \in Docs, cmd = "apply" => locals.run \in Run,
           Start(p, cmd, "revision", locals)
    PROVE  IInv'
<1>1. /\ TypeOK' /\ pc[p] = "idle" /\ pc'[p] = "revision"
      /\ loc'[p] = [locals EXCEPT !.cmd = cmd]
      /\ \A q \in Clients \ {p} : pc'[q] = pc[q] /\ loc'[q] = loc[q]
      /\ UNCHANGED <<db, staged, lock, proposals, reviews, approved>>
  BY StartEffect DEF Steps
<1>2. /\ loc'[p].doc = locals.doc /\ loc'[p].run = locals.run
      /\ loc'[p].cmd = cmd
  BY <1>1 DEF Locals
<1>3. Working(p)'
  BY <1>1, <1>2 DEF Working, Loaded
<1>. QED
  BY <1>1, <1>3, LocalStep

LEMMA StartContextKeeps ==
    ASSUME IInv, NEW p \in Clients, NEW d \in Docs,
           StartContext(p, d) \/ StartPropose(p, d)
    PROVE  IInv'
<1>1. [Blank EXCEPT !.doc = d] \in Locals /\ [Blank EXCEPT !.doc = d].doc = d
  BY BlankType DEF Locals, Blank
<1>. QED
  BY <1>1, StartLoadKeeps DEF StartContext, StartPropose

LEMMA StartApplyKeeps ==
    ASSUME IInv, NEW p \in Clients, NEW d \in Docs,
           NEW run \in DOMAIN proposals, StartApply(p, d, run)
    PROVE  IInv'
<1> DEFINE locals == [Blank EXCEPT !.doc = d, !.run = run,
                                   !.accepted = reviews[run].accepted]
<1>1. run \in Run /\ reviews[run] \in Journal
  BY DEF StartApply, IInv, TypeOK
<1>2. locals \in Locals
  BY <1>1, BlankType DEF Locals, Journal
<1>3. locals.doc = d /\ locals.run = run
  BY DEF Blank
<1>4. Start(p, "apply", "revision", locals)
  BY DEF StartApply
<1> HIDE DEF locals
<1>. QED
  BY <1>1, <1>2, <1>3, <1>4, StartLoadKeeps

LEMMA LoadRevisionKeeps ==
    ASSUME IInv, NEW p \in Clients, LoadRevision(p)
    PROVE  IInv'
<1>1. /\ pc[p] = "revision" /\ pc' = [pc EXCEPT ![p] = "spans"]
      /\ UNCHANGED <<db, staged, lock, proposals, reviews, approved>>
      /\ db.documents[loc[p].doc] = Canonical
  BY DEF LoadRevision, Goto, files
<1>2. PICK row \in db.revisions[loc[p].doc] :
         loc' = [loc EXCEPT ![p] = [@ EXCEPT !.row = row]]
  BY DEF LoadRevision, Accepted
<1>3. loc[p] \in Locals /\ loc[p].doc \in Docs /\ row \in RevisionRow
  BY <1>1 DEF IInv, TypeOK, Working, Database
<1>4. [loc[p] EXCEPT !.row = row] \in Locals
  BY <1>3 DEF Locals
<1>5. /\ loc'[p] = [loc[p] EXCEPT !.row = row] /\ pc'[p] = "spans"
      /\ \A q \in Clients \ {p} : pc'[q] = pc[q] /\ loc'[q] = loc[q]
  BY <1>1, <1>2 DEF IInv, TypeOK
<1>6. TypeOK'
  BY <1>1, <1>2, <1>4 DEF IInv, TypeOK, Steps
<1>7. /\ loc'[p].row = row /\ loc'[p].doc = loc[p].doc
      /\ loc'[p].cmd = loc[p].cmd /\ loc'[p].run = loc[p].run
  BY <1>3, <1>5 DEF Locals
<1>8. Working(p)'
  BY <1>1, <1>3, <1>5, <1>7 DEF IInv, Working, Loaded
<1>. QED
  BY <1>1, <1>5, <1>6, <1>8, LocalStep

LEMMA LoadSpansKeeps ==
    ASSUME IInv, NEW p \in Clients, LoadSpans(p)
    PROVE  IInv'
<1> DEFINE step == AfterLoad(loc[p].cmd)
<1>1. /\ pc[p] = "spans" /\ pc' = [pc EXCEPT ![p] = step]
      /\ UNCHANGED <<db, staged, lock, proposals, reviews, approved>>
      /\ loc' = [loc EXCEPT ![p] =
                    [@ EXCEPT !.spans = db.spans[loc[p].doc]]]
  BY DEF LoadSpans, Goto, files
<1>2. /\ loc[p] \in Locals /\ loc[p].doc \in Docs
      /\ loc[p].cmd \in {"context", "propose", "apply"}
      /\ db.spans[loc[p].doc] \in SUBSET Shifting
  BY <1>1 DEF IInv, TypeOK, Working, Loaded, Database
<1>3. /\ step \in {"show", "build", "profile"}
      /\ step = "profile" => loc[p].cmd = "apply"
  BY <1>2 DEF AfterLoad
<1> HIDE DEF step
<1>4. [loc[p] EXCEPT !.spans = db.spans[loc[p].doc]] \in Locals
  BY <1>2 DEF Locals
<1>5. /\ loc'[p] = [loc[p] EXCEPT !.spans = db.spans[loc[p].doc]]
      /\ pc'[p] = step
      /\ \A q \in Clients \ {p} : pc'[q] = pc[q] /\ loc'[q] = loc[q]
  BY <1>1 DEF IInv, TypeOK
<1>6. TypeOK'
  BY <1>1, <1>3, <1>4 DEF IInv, TypeOK, Steps
<1>7. /\ loc'[p].row = loc[p].row /\ loc'[p].doc = loc[p].doc
      /\ loc'[p].cmd = loc[p].cmd /\ loc'[p].run = loc[p].run
  BY <1>2, <1>5 DEF Locals
<1>8. Working(p)'
  BY <1>1, <1>2, <1>3, <1>5, <1>7 DEF IInv, Working, Loaded
<1>. QED
  BY <1>1, <1>3, <1>5, <1>6, <1>8, LocalStep

\* The document that was loaded belongs to the canonical project, which
\* therefore has a row and a label.
LEMMA ReadProfileKeeps ==
    ASSUME IInv, NEW p \in Clients, ReadProfile(p)
    PROVE  IInv'
<1>1. /\ pc[p] = "profile" /\ pc' = [pc EXCEPT ![p] = "finalize"]
      /\ UNCHANGED <<db, staged, lock, proposals, reviews, approved>>
      /\ loc' = [loc EXCEPT ![p] =
                    [@ EXCEPT !.label = db.projects[Canonical]]]
  BY DEF ReadProfile, Goto, files
<1>2. /\ loc[p] \in Locals /\ loc[p].doc \in Docs
      /\ db.documents[loc[p].doc] = Canonical
      /\ loc[p].row \in db.revisions[loc[p].doc] /\ loc[p].run \in Run
  BY <1>1 DEF IInv, TypeOK, Working, Loaded
<1>3. db.projects[Canonical] \in Labels \cup {NoLabel}
  <2>1. Canonical # NoRow /\ Canonical \in ProjectIds
    BY ClientAssumption, StoreAssumption
  <2>2. db.projects[Canonical] # NoRow
    BY <1>2, <2>1 DEF IInv, Sound, RowsSound
  <2>. QED
    BY <2>1, <2>2 DEF IInv, TypeOK, Database
<1>4. [loc[p] EXCEPT !.label = db.projects[Canonical]] \in Locals
  BY <1>2, <1>3 DEF Locals
<1>5. /\ loc'[p] = [loc[p] EXCEPT !.label = db.projects[Canonical]]
      /\ pc'[p] = "finalize"
      /\ \A q \in Clients \ {p} : pc'[q] = pc[q] /\ loc'[q] = loc[q]
  BY <1>1 DEF IInv, TypeOK
<1>6. TypeOK'
  BY <1>1, <1>4 DEF IInv, TypeOK, Steps
<1>7. /\ loc'[p].row = loc[p].row /\ loc'[p].doc = loc[p].doc
      /\ loc'[p].run = loc[p].run
  BY <1>2, <1>5 DEF Locals
<1>8. Working(p)'
  BY <1>1, <1>2, <1>5, <1>7 DEF Working, Loaded
<1>. QED
  BY <1>1, <1>5, <1>6, <1>8, LocalStep

LEMMA ShowKeeps ==
    ASSUME IInv, NEW p \in Clients, Show(p)
    PROVE  IInv'
<1>1. /\ pc[p] = "show" /\ Finish(p)
      /\ UNCHANGED <<db, staged, lock, proposals, reviews, approved>>
  BY DEF Show, files
<1>2. /\ pc' \in [Clients -> Steps] /\ loc' \in [Clients -> Locals]
      /\ pc'[p] = "idle" /\ Working(p)'
      /\ \A q \in Clients \ {p} : pc'[q] = pc[q] /\ loc'[q] = loc[q]
  BY <1>1, FinishEffect DEF IInv
<1>3. TypeOK'
  BY <1>1, <1>2 DEF IInv, TypeOK
<1>. QED
  BY <1>1, <1>2, <1>3, LocalStep

-----------------------------------------------------------------------------
(* The steps: the proposal and review files *)

LEMMA BuildProposalKeeps ==
    ASSUME IInv, NEW p \in Clients, BuildProposal(p)
    PROVE  IInv'
<1>1. pc[p] = "build" /\ pc' = [pc EXCEPT ![p] = "writeProposal"]
      /\ UNCHANGED <<db, staged, lock, reviews, approved>>
  BY DEF BuildProposal, Goto
<1>2. /\ loc[p] \in Locals /\ loc[p].doc \in Docs
      /\ loc[p].row \in db.revisions[loc[p].doc]
  BY <1>1 DEF IInv, TypeOK, Working, Loaded
<1>3. PICK run \in Run :
         /\ loc' = [loc EXCEPT ![p] = [@ EXCEPT !.run = run]]
         /\ proposals' = Put(proposals, run, "empty")
  <2>1. loc[p].row \in RevisionRow
    BY <1>2 DEF IInv, TypeOK, Database
  <2>2. PICK changes \in Proposable(loc[p].row.sha, loc[p].spans) :
           LET run == [text |-> loc[p].row.sha, changes |-> changes]
           IN  /\ loc' = [loc EXCEPT ![p] = [@ EXCEPT !.run = run]]
               /\ proposals' = Put(proposals, run, "empty")
    BY DEF BuildProposal
  <2>3. changes \in SUBSET Changes
    BY DEF Proposable
  <2>4. [text |-> loc[p].row.sha, changes |-> changes] \in Run
    BY <2>1, <2>3 DEF Run, RevisionRow
  <2>. QED
    BY <2>2, <2>4
<1>4. [loc[p] EXCEPT !.run = run] \in Locals
  BY <1>2 DEF Locals
<1>5. /\ loc'[p] = [loc[p] EXCEPT !.run = run]
      /\ pc'[p] = "writeProposal"
      /\ \A q \in Clients \ {p} : pc'[q] = pc[q] /\ loc'[q] = loc[q]
  BY <1>1, <1>3 DEF IInv, TypeOK
<1>6. /\ DOMAIN proposals' = DOMAIN proposals \cup {run}
      /\ \A k \in DOMAIN proposals' : proposals'[k] \in {"empty", "intact"}
  BY <1>3 DEF Put, IInv, TypeOK
<1>7. TypeOK'
  BY <1>1, <1>3, <1>4, <1>6 DEF IInv, TypeOK, Steps
<1>8. loc'[p].run = run
  BY <1>2, <1>5 DEF Locals
<1>9. Working(p)'
  BY <1>5, <1>6, <1>8 DEF Working, Loaded
<1>. QED
  BY <1>1, <1>5, <1>6, <1>7, <1>9, LocalStep

LEMMA WriteProposalKeeps ==
    ASSUME IInv, NEW p \in Clients, WriteProposal(p)
    PROVE  IInv'
<1>1. /\ pc[p] = "writeProposal" /\ Finish(p)
      /\ proposals' = Put(proposals, loc[p].run, "intact")
      /\ UNCHANGED <<db, staged, lock, reviews, approved>>
  BY DEF WriteProposal
<1>2. /\ pc' \in [Clients -> Steps] /\ loc' \in [Clients -> Locals]
      /\ pc'[p] = "idle" /\ Working(p)'
      /\ \A q \in Clients \ {p} : pc'[q] = pc[q] /\ loc'[q] = loc[q]
  BY <1>1, FinishEffect DEF IInv
<1>3. loc[p].run \in Run
  BY <1>1 DEF IInv, Working
<1>4. /\ DOMAIN proposals' = DOMAIN proposals \cup {loc[p].run}
      /\ \A k \in DOMAIN proposals' : proposals'[k] \in {"empty", "intact"}
  BY <1>1 DEF Put, IInv, TypeOK
<1>5. TypeOK'
  BY <1>1, <1>2, <1>3, <1>4 DEF IInv, TypeOK
<1>. QED
  BY <1>1, <1>2, <1>4, <1>5, LocalStep

LEMMA ReadReviewKeeps ==
    ASSUME IInv, NEW p \in Clients, NEW run \in DOMAIN proposals,
           NEW change \in run.changes, NEW verdict \in {"accept", "reject"},
           ReadReview(p, run, change, verdict)
    PROVE  IInv'
<1> DEFINE prior == IF run \in DOMAIN reviews THEN reviews[run]
                                              ELSE NoDecisions
           next == Decide(prior, change, verdict)
           locals == [Blank EXCEPT !.run = run, !.prior = prior,
                                   !.next = next]
<1>1. run \in Run /\ change \in Changes
  BY DEF IInv, TypeOK, Run
<1>2. prior \in Journal
  BY DEF NoDecisions, Journal, IInv, TypeOK
<1> HIDE DEF prior
<1>3. next \in Journal
  BY <1>1, <1>2 DEF Decide, Journal
<1> HIDE DEF next
<1>4. locals \in Locals /\ locals.run = run /\ locals.next = next
  BY <1>1, <1>2, <1>3, BlankType DEF Locals, Blank
<1>5. Start(p, "decide", "truncate", locals)
  BY DEF ReadReview, prior, next
<1> HIDE DEF locals
<1>6. /\ TypeOK' /\ pc[p] = "idle" /\ pc'[p] = "truncate"
      /\ loc'[p] = [locals EXCEPT !.cmd = "decide"]
      /\ \A q \in Clients \ {p} : pc'[q] = pc[q] /\ loc'[q] = loc[q]
      /\ UNCHANGED <<db, staged, lock, proposals, reviews, approved>>
  BY <1>4, <1>5, StartEffect DEF Steps
<1>7. loc'[p].run = run /\ loc'[p].next = next
  BY <1>4, <1>6 DEF Locals
<1>8. next.accepted \subseteq Changes
  BY <1>3 DEF Journal
<1>9. Working(p)'
  BY <1>1, <1>6, <1>7, <1>8 DEF Working, Loaded
<1>. QED
  BY <1>6, <1>9, LocalStep

LEMMA TruncateReviewKeeps ==
    ASSUME IInv, NEW p \in Clients, TruncateReview(p)
    PROVE  IInv'
<1>1. /\ pc[p] = "truncate" /\ pc' = [pc EXCEPT ![p] = "writeReview"]
      /\ reviews' = Put(reviews, loc[p].run, Unreadable("empty"))
      /\ UNCHANGED <<db, staged, lock, loc, proposals, approved>>
  BY DEF TruncateReview, Goto
<1>2. loc[p].run \in Run /\ loc[p].next.accepted \subseteq Changes
  BY <1>1 DEF IInv, Working
<1>3. Unreadable("empty") \in Journal
  BY DEF Unreadable, Journal
<1>4. /\ DOMAIN reviews' = DOMAIN reviews \cup {loc[p].run}
      /\ \A k \in DOMAIN reviews' : reviews'[k] \in Journal
  BY <1>1, <1>3 DEF Put, IInv, TypeOK
<1>5. TypeOK'
  BY <1>1, <1>2, <1>4 DEF IInv, TypeOK, Steps
<1>6. /\ pc'[p] = "writeReview"
      /\ \A q \in Clients \ {p} : pc'[q] = pc[q] /\ loc'[q] = loc[q]
  BY <1>1 DEF IInv, TypeOK
<1>7. Working(p)'
  BY <1>1, <1>2, <1>4, <1>6 DEF Working, Loaded
<1>. QED
  BY <1>1, <1>4, <1>5, <1>6, <1>7, LocalStep

LEMMA WriteReviewKeeps ==
    ASSUME IInv, NEW p \in Clients, WriteReview(p)
    PROVE  IInv'
<1> DEFINE run == loc[p].run
<1>1. /\ pc[p] = "writeReview" /\ Finish(p)
      /\ approved' = approved \cup ({run} \X loc[p].next.accepted)
      /\ UNCHANGED <<db, staged, lock, proposals>>
  BY DEF WriteReview
<1>2. PICK journal \in {loc[p].next, Unreadable("mixed")} :
         reviews' = Put(reviews, run, journal)
  BY DEF WriteReview
<1>3. /\ run \in Run /\ loc[p].next \in Journal
      /\ loc[p].next.accepted \subseteq Changes
  BY <1>1 DEF IInv, Working, TypeOK, Locals
<1>4. journal \in Journal
  BY <1>2, <1>3 DEF Unreadable, Journal
<1>5. /\ DOMAIN reviews' = DOMAIN reviews \cup {run}
      /\ \A k \in DOMAIN reviews' : reviews'[k] \in Journal
  BY <1>2, <1>4 DEF Put, IInv, TypeOK
<1>6. /\ pc' \in [Clients -> Steps] /\ loc' \in [Clients -> Locals]
      /\ pc'[p] = "idle" /\ Working(p)'
      /\ \A q \in Clients \ {p} : pc'[q] = pc[q] /\ loc'[q] = loc[q]
  BY <1>1, FinishEffect DEF IInv
<1>7. TypeOK'
  BY <1>1, <1>3, <1>5, <1>6 DEF IInv, TypeOK
<1>. QED
  BY <1>1, <1>5, <1>6, <1>7, LocalStep

-----------------------------------------------------------------------------
(* The inductive invariant holds *)

LEMMA EmptyIsSound == Sound(EmptyDatabase)
<1>1. EmptyDatabase \in Database
  <2>1. << >> \in Seq(ApprovalRow)
    OBVIOUS
  <2> DEFINE projects  == [i \in ProjectIds |-> NoRow]
             documents == [d \in Docs |-> NoRow]
             facts     == [d \in Docs |-> FALSE]
             none      == [d \in Docs |-> {}]
             approvals == [d \in Docs |-> << >>]
  <2>2. approvals \in [Docs -> Seq(ApprovalRow)]
    BY <2>1
  <2>3. /\ projects \in [ProjectIds -> Labels \cup {NoLabel, NoRow}]
        /\ documents \in [Docs -> ProjectIds \cup {NoRow}]
        /\ facts \in [Docs -> BOOLEAN]
    OBVIOUS
  <2>4. /\ none \in [Docs -> SUBSET RevisionRow]
        /\ none \in [Docs -> SUBSET ContentRow]
        /\ none \in [Docs -> SUBSET Shifting]
    OBVIOUS
  <2>5. EmptyDatabase =
           [projects |-> projects, documents |-> documents,
            revisions |-> none, contents |-> none, facts |-> facts,
            spans |-> none, approvals |-> approvals]
    BY DEF EmptyDatabase
  <2> HIDE DEF projects, documents, facts, none, approvals
  <2>. QED
    BY <2>2, <2>3, <2>4, <2>5 DEF Database
<1>2. ASSUME NEW d \in Docs
      PROVE  /\ EmptyDatabase.revisions[d] = {}
             /\ EmptyDatabase.contents[d] = {}
             /\ EmptyDatabase.approvals[d] = << >>
             /\ EmptyDatabase.documents[d] = NoRow
             /\ EmptyDatabase.facts[d] = FALSE
  BY DEF EmptyDatabase
<1>3. ASSUME NEW d \in Docs PROVE Size(EmptyDatabase, d) = 0
  BY <1>2, FS_EmptySet DEF Size
<1>4. ASSUME NEW d \in Docs PROVE RevisionsSound(EmptyDatabase, d)
  <2>1. EmptyDatabase.revisions[d] = {} /\ IsFiniteSet({})
    BY <1>2, FS_EmptySet
  <2>2. IsFiniteSet(EmptyDatabase.revisions[d])
    BY <2>1
  <2>3. Size(EmptyDatabase, d) = 0
    BY <1>3
  <2>. QED
    BY <2>1, <2>2, <2>3 DEF RevisionsSound, IsChain
<1>5. ASSUME NEW d \in Docs
      PROVE  /\ ContentsSound(EmptyDatabase, d) /\ TextsSound(EmptyDatabase, d)
             /\ ApprovalsSound(EmptyDatabase, d) /\ RowsSound(EmptyDatabase, d)
  <2>1. ContentsSound(EmptyDatabase, d) /\ TextsSound(EmptyDatabase, d)
    BY <1>2 DEF ContentsSound, TextsSound
  <2>2. ApprovalsSound(EmptyDatabase, d)
    <3>1. Len(EmptyDatabase.approvals[d]) = 0
      <4>1. EmptyDatabase.approvals[d] = << >>
        BY <1>2
      <4>2. Len(<< >>) = 0
        OBVIOUS
      <4>. QED
        BY <4>1, <4>2, Zenon
    <3>. QED
      BY <1>3, <3>1 DEF ApprovalsSound
  <2>3. RowsSound(EmptyDatabase, d)
    BY <1>2 DEF RowsSound
  <2>. QED
    BY <2>1, <2>2, <2>3
<1>. QED
  BY <1>1, <1>4, <1>5 DEF Sound

LEMMA InitIInv == Init => IInv
<1> SUFFICES ASSUME Init PROVE IInv
  OBVIOUS
<1>1. /\ db = EmptyDatabase /\ staged = EmptyDatabase /\ lock = Nobody
      /\ pc = [p \in Clients |-> "idle"] /\ loc = [p \in Clients |-> Blank]
      /\ approved = {}
  BY DEF Init
<1>2. Sound(db) /\ db \in Database
  BY <1>1, EmptyIsSound DEF Sound
<1>3. DOMAIN proposals = {} /\ DOMAIN reviews = {}
  BY DEF Init
<1>4. TypeOK
  BY <1>1, <1>2, <1>3, BlankType DEF TypeOK, Steps
<1>5. OneWriter
  BY <1>1, ClientAssumption DEF OneWriter
<1>6. OneTransaction(db, staged)
  BY <1>1, <1>2, GrowsReflexive DEF OneTransaction
<1>7. \A p \in Clients : Working(p)
  BY <1>1 DEF Working, Loaded
<1>. QED
  BY <1>1, <1>2, <1>4, <1>5, <1>6, <1>7 DEF IInv

LEMMA StutterKeeps ==
    ASSUME IInv, UNCHANGED vars
    PROVE  IInv'
<1>1. UNCHANGED <<db, lock, staged, pc, loc, proposals, reviews, approved>>
  BY DEF vars
<1>. QED
  BY <1>1 DEF IInv, TypeOK, OneWriter, Working

LEMMA StepKeepsIInv == IInv /\ [Next]_vars => IInv'
<1> SUFFICES ASSUME IInv, [Next]_vars PROVE IInv'
  OBVIOUS
<1>1. CASE UNCHANGED vars
  BY <1>1, StutterKeeps
<1>2. ASSUME NEW p \in Clients, Ingest(p) PROVE IInv'
  BY <1>2, IngestCheckKeeps, IngestTxKeeps, ProjectIngestTxKeeps DEF Ingest
<1>3. ASSUME NEW p \in Clients, NEW label \in Labels, BindStyleCmd(p, label)
      PROVE  IInv'
  BY <1>3, BindStyleCmdKeeps
<1>4. ASSUME NEW p \in Clients, Load(p) PROVE IInv'
  BY <1>4, StartContextKeeps, StartApplyKeeps, LoadRevisionKeeps,
     LoadSpansKeeps DEF Load
<1>5. ASSUME NEW p \in Clients, Show(p) PROVE IInv'
  BY <1>5, ShowKeeps
<1>6. ASSUME NEW p \in Clients, BuildProposal(p) \/ WriteProposal(p)
      PROVE  IInv'
  BY <1>6, BuildProposalKeeps, WriteProposalKeeps
<1>7. ASSUME NEW p \in Clients, Review(p) PROVE IInv'
  BY <1>7, ReadReviewKeeps, TruncateReviewKeeps, WriteReviewKeeps DEF Review
<1>8. ASSUME NEW p \in Clients, ReadProfile(p) \/ Finalize(p) PROVE IInv'
  BY <1>8, ReadProfileKeeps, FinalizeKeeps
<1>9. ASSUME NEW p \in Clients, Commit(p) \/ Abort(p) PROVE IInv'
  BY <1>9, CommitKeeps, AbortKeeps
<1>. QED
  BY <1>1, <1>2, <1>3, <1>4, <1>5, <1>6, <1>7, <1>8, <1>9 DEF Next

\* Every step takes the committed database at most one transaction further.
LEMMA StepIsOneTransaction == IInv /\ [Next]_vars => OneTransaction(db, db')
<1> SUFFICES ASSUME IInv, [Next]_vars PROVE OneTransaction(db, db')
  OBVIOUS
<1>1. CASE db' = db
  BY <1>1, GrowsReflexive DEF IInv, TypeOK, OneTransaction
<1>2. ASSUME NEW p \in Clients, Commit(p) PROVE OneTransaction(db, db')
  BY <1>2 DEF Commit, IInv
<1>3. ASSUME NEW p \in Clients, NEW label \in Labels, BindStyleCmd(p, label)
      PROVE  OneTransaction(db, db')
  BY <1>3, BindStyleCmdKeeps
<1>4. ASSUME NEW p \in Clients, Ingest(p) \/ Load(p) \/ Review(p)
      PROVE  db' = db
  BY <1>4 DEF Ingest, IngestCheck, IngestTx, ProjectIngestTx, Load,
       StartContext, StartPropose, StartApply, LoadRevision, LoadSpans,
       Review, ReadReview, TruncateReview, WriteReview, Start, Stage
<1>5. ASSUME NEW p \in Clients,
             \/ Show(p) \/ BuildProposal(p) \/ WriteProposal(p)
             \/ ReadProfile(p) \/ Finalize(p) \/ Abort(p)
      PROVE  db' = db
  BY <1>5 DEF Show, BuildProposal, WriteProposal, ReadProfile, Finalize,
              Stage, Abort
<1>6. UNCHANGED vars => db' = db
  BY DEF vars
<1>. QED
  BY <1>1, <1>2, <1>3, <1>4, <1>5, <1>6 DEF Next

\* The inductive invariant, from which every theorem below follows.
THEOREM Invariance == Spec => []IInv
BY InitIInv, StepKeepsIInv, PTL DEF Spec

-----------------------------------------------------------------------------
(* The theorems *)

\* The tokens of a sound document name its revisions.
LEMMA RowOf ==
    ASSUME NEW s, Sound(s), NEW d \in Docs, NEW r \in s.revisions[d]
    PROVE  /\ Row(s, d, r.token) = r
           /\ r.token = Size(s, d) => HeadRow(s, d) = r
           /\ r.token \in 1..Size(s, d)
           /\ Size(s, d) \in Nat
<1>1. /\ s \in Database /\ RevisionsSound(s, d)
  BY DEF Sound
<1>2. Size(s, d) \in Nat
  BY <1>1, FS_CardinalityType DEF RevisionsSound, Size
<1>3. \A x \in s.revisions[d] :
         /\ x.token \in 1..Size(s, d)
         /\ \A y \in s.revisions[d] : y.token = x.token => y = x
  BY <1>1, <1>2 DEF RevisionsSound, IsChain, Database, RevisionRow
<1>4. Row(s, d, r.token) = r
  BY <1>3 DEF Row
<1>5. ASSUME r.token = Size(s, d) PROVE HeadRow(s, d) = r
  <2>1. IsHead(s, d, r)
    BY <1>2, <1>3, <1>5 DEF IsHead
  <2>2. \A x \in s.revisions[d] : IsHead(s, d, x) => x = r
    <3> SUFFICES ASSUME NEW x \in s.revisions[d], IsHead(s, d, x)
                 PROVE  x = r
      OBVIOUS
    <3>1. r.token <= x.token
      BY DEF IsHead
    <3>2. x.token = r.token
      BY <1>2, <1>3, <1>5, <3>1
    <3>. QED
      BY <1>3, <3>2
  <2>. QED
    BY <2>1, <2>2 DEF HeadRow
<1>. QED
  BY <1>2, <1>3, <1>4, <1>5

\* The head of a document that has a revision.
LEMMA LastRow ==
    ASSUME NEW s, Sound(s), NEW d \in Docs, s.revisions[d] # {}
    PROVE  /\ HeadRow(s, d) \in s.revisions[d]
           /\ HeadRow(s, d).token = Size(s, d)
           /\ Size(s, d) \in Nat \ {0}
<1>1. PICK r \in s.revisions[d] : TRUE
  OBVIOUS
<1>2. Size(s, d) \in Nat \ {0}
  BY <1>1, RowOf
<1>3. Size(s, d) \in 1..Size(s, d)
  BY <1>2
<1>4. PICK last \in s.revisions[d] : last.token = Size(s, d)
  BY <1>3 DEF Sound, RevisionsSound
<1>. QED
  BY <1>2, <1>4, RowOf

\* For any number of invocations and documents every variable keeps its
\* type; in particular `apply` never commits a content row whose style label
\* is that of a project without a row.
THEOREM TypeCorrect == Spec => []TypeOK
<1>1. IInv => TypeOK
  BY DEF IInv
<1>. QED
  BY <1>1, Invariance, PTL

\* However many commands run at once, the revisions of every document form
\* one chain (save_revision, finalize_reviewed_revision).
THEOREM RevisionsAreAChain == Spec => []RevisionChain
<1>1. IInv => RevisionChain
  BY DEF IInv, Sound, RevisionsSound, RevisionChain
<1>. QED
  BY <1>1, Invariance, PTL

\* The committed span offsets are those of the committed head text
\* (_rebase_protected_spans).
THEOREM SpansStayOnHead == Spec => []SpansOnHead
<1>1. ASSUME IInv, NEW d \in Docs, HasRevision(db, d)
      PROVE  Aligned(db.spans[d], HeadRow(db, d).sha)
  <2>1. /\ HeadRow(db, d) \in db.revisions[d]
        /\ HeadRow(db, d).token = Size(db, d)
    BY <1>1, LastRow DEF IInv, HasRevision
  <2>. QED
    BY <1>1, <2>1 DEF IInv, Sound, TextsSound
<1>2. IInv => SpansOnHead
  BY <1>1 DEF SpansOnHead
<1>. QED
  BY <1>2, Invariance, PTL

\* No accepted text edits a protected fragment (finalize_reviewed_revision).
THEOREM GuardedStayUntouched == Spec => []GuardedUntouched
<1>1. IInv => GuardedUntouched
  BY DEF IInv, Sound, TextsSound, GuardedUntouched
<1>. QED
  BY <1>1, Invariance, PTL

\* A stored text belongs to the revision whose hash was taken from it
\* (save_revision_content).
THEOREM ContentsMatchRevisions == Spec => []ContentMatches
<1>1. IInv => ContentMatches
  BY DEF IInv, Sound, ContentsSound, ContentMatches
<1>. QED
  BY <1>1, Invariance, PTL

\* The approvals name each revision once and in order (record_approval).
THEOREM ApprovalsNameRevisions == Spec => []OneApprovalPerRevision
<1>1. ASSUME IInv, NEW d \in Docs
      PROVE  /\ Len(db.approvals[d]) = Cardinality(db.revisions[d])
             /\ \A n \in 1..Len(db.approvals[d]) :
                   /\ db.approvals[d][n].revision = n
                   /\ db.approvals[d][n].kind =
                         IF n = 1 THEN "ingest" ELSE "revision"
  <2>1. ApprovalsSound(db, d)
    BY <1>1 DEF IInv, Sound
  <2>2. Len(db.approvals[d]) = Cardinality(db.revisions[d])
    BY <2>1 DEF ApprovalsSound, Size
  <2>3. ASSUME NEW n \in 1..Len(db.approvals[d])
        PROVE  /\ db.approvals[d][n].revision = n
               /\ db.approvals[d][n].kind =
                     IF n = 1 THEN "ingest" ELSE "revision"
    <3>1. db.approvals[d][n] =
             [kind |-> IF n = 1 THEN "ingest" ELSE "revision", revision |-> n]
      BY <2>1, <2>3 DEF ApprovalsSound
    <3>. QED
      BY <3>1
  <2>. QED
    BY <2>2, <2>3
<1>2. IInv => OneApprovalPerRevision
  BY <1>1 DEF OneApprovalPerRevision
<1>. QED
  BY <1>2, Invariance, PTL

\* A document row stands with all the rows of its ingest or not at all
\* (ingest_source_package, project_ingest_cmd).
THEOREM IngestIsAtomic == Spec => []IngestAllOrNothing
<1> DEFINE row == [kind |-> "ingest", revision |-> 1]
<1>1. ASSUME IInv, NEW d \in Docs
      PROVE  /\ db.documents[d] # NoRow <=> HasRevision(db, d)
             /\ db.documents[d] # NoRow <=> db.facts[d]
             /\ db.documents[d] # NoRow <=> row \in Range(db.approvals[d])
             /\ db.documents[d] # NoRow =>
                   db.projects[db.documents[d]] # NoRow
  <2>1. /\ RowsSound(db, d) /\ ApprovalsSound(db, d)
        /\ RevisionsSound(db, d)
    BY <1>1 DEF IInv, Sound
  <2>2. db.documents[d] # NoRow <=> row \in Range(db.approvals[d])
    <3>1. CASE db.revisions[d] # {}
      <4>1. Size(db, d) \in Nat \ {0}
        BY <1>1, <3>1, LastRow DEF IInv
      <4>2. 1 \in 1..Len(db.approvals[d])
        BY <2>1, <4>1 DEF ApprovalsSound
      <4>3. db.approvals[d][1] = row
        BY <2>1, <4>2 DEF ApprovalsSound
      <4>4. db.approvals[d] \in Seq(ApprovalRow)
        BY <1>1 DEF IInv, TypeOK, Database
      <4>5. 1 \in DOMAIN db.approvals[d]
        BY <4>2, <4>4
      <4>. QED
        BY <2>1, <3>1, <4>3, <4>5 DEF Range, RowsSound
    <3>2. CASE db.revisions[d] = {}
      <4>1. Len(db.approvals[d]) = 0
        <5>1. Size(db, d) = 0
          BY <3>2, FS_EmptySet DEF Size
        <5>. QED
          BY <2>1, <5>1 DEF ApprovalsSound
      <4>2. db.approvals[d] \in Seq(ApprovalRow)
        BY <1>1 DEF IInv, TypeOK, Database
      <4>3. DOMAIN db.approvals[d] = {}
        BY <4>1, <4>2
      <4>. QED
        BY <2>1, <3>2, <4>3 DEF Range, RowsSound
    <3>. QED
      BY <3>1, <3>2
  <2>. QED
    BY <2>1, <2>2 DEF RowsSound, HasRevision
<1>2. IInv => IngestAllOrNothing
  BY <1>1 DEF IngestAllOrNothing
<1>. QED
  BY <1>2, Invariance, PTL

\* No step changes or withdraws a committed revision, content, approval or
\* document row.
THEOREM HistoryGrows == Spec => HistoryOnlyGrows
<1>1. IInv /\ [Next]_vars => [Grows(db, db')]_vars
  BY StepIsOneTransaction DEF OneTransaction
<1>. QED
  BY <1>1, Invariance, PTL DEF Spec, HistoryOnlyGrows

-----------------------------------------------------------------------------
(* Refinement: seen through its accepted texts the system is RevisionLog *)

TextLog(s) == [d \in Docs |-> Texts(s, d)]

\* A transaction that writes no revision leaves the log as it is; one that
\* imports a document starts its log; a finalization appends to it.
LEMMA SameLog ==
    ASSUME NEW s, NEW t, t.revisions = s.revisions
    PROVE  TextLog(t) = TextLog(s)
BY DEF TextLog, Texts, Row

\* The logs of the documents a transaction does not touch.
LEMMA OtherTexts ==
    ASSUME NEW s \in Database, NEW t \in Database, NEW d \in Docs, NEW r,
           t.revisions = [s.revisions EXCEPT ![d] = s.revisions[d] \cup {r}],
           NEW e \in Docs, e # d
    PROVE  Texts(t, e) = Texts(s, e)
<1>1. t.revisions[e] = s.revisions[e]
  BY DEF Database
<1>2. \A n : Row(t, e, n) = Row(s, e, n)
  BY <1>1 DEF Row
<1>. QED
  BY <1>1, <1>2 DEF Texts

LEMMA ImportIsImport ==
    ASSUME NEW s, NEW t, Sound(s), Sound(t), NEW d \in Docs,
           NEW r \in t.revisions[d],
           t.revisions = [s.revisions EXCEPT ![d] = s.revisions[d] \cup {r}],
           Imported(s, d, r)
    PROVE  /\ Texts(s, d) = << >>
           /\ Texts(t, d) = << ImportedText(d) >>
<1>1. s \in Database /\ t \in Database
  BY DEF Sound
<1>2. s.revisions[d] = {} /\ t.revisions[d] = {r}
  BY <1>1 DEF Imported, Database
<1>3. Cardinality({}) = 0 /\ Cardinality({r}) = 1
  BY FS_EmptySet, FS_Singleton
<1>4. Cardinality(s.revisions[d]) = 0 /\ Cardinality(t.revisions[d]) = 1
  BY <1>2, <1>3
<1>5. Texts(s, d) = << >>
  BY <1>4 DEF Texts
<1>6. Row(t, d, 1).sha = ImportedText(d)
  BY RowOf DEF Imported
<1>7. Texts(t, d) = [n \in 1..1 |-> Row(t, d, n).sha]
  BY <1>4 DEF Texts
<1>. QED
  BY <1>5, <1>6, <1>7

LEMMA OneMore ==
    ASSUME NEW S, IsFiniteSet(S), NEW x, x \notin S
    PROVE  Cardinality(S \cup {x}) = Cardinality(S) + 1
BY FS_AddElement

\* A log with one more text: its last text with further edits.
Extended(log, edits) ==
    Append(log, [log[Len(log)] EXCEPT !.edits = @ \cup edits])

IsExtension(log, longer) ==
    \E edits \in SUBSET (Changes \ Guarded) : longer = Extended(log, edits)

LEMMA FinalizeIsAppend ==
    ASSUME NEW s, NEW t, Sound(s), Sound(t), NEW d \in Docs,
           NEW r \in t.revisions[d],
           t.revisions = [s.revisions EXCEPT ![d] = s.revisions[d] \cup {r}],
           Finalized(s, d, r)
    PROVE  /\ Texts(s, d) # << >>
           /\ IsExtension(Texts(s, d), Texts(t, d))
<1> DEFINE N == Size(s, d)
<1>1. s \in Database /\ t \in Database
  BY DEF Sound
<1>2. t.revisions[d] = s.revisions[d] \cup {r}
  BY <1>1 DEF Database
<1>3. PICK head \in s.revisions[d], edits \in SUBSET (Changes \ Guarded) :
         /\ head.token = N /\ r.token = N + 1
         /\ r.sha = NextText(head.sha, edits)
  BY DEF Finalized
<1>4. /\ N \in Nat \ {0} /\ r \notin s.revisions[d]
  BY <1>3, RowOf
<1>5. Size(t, d) = N + 1
  <2>1. IsFiniteSet(s.revisions[d])
    BY DEF Sound, RevisionsSound
  <2>2. r \notin s.revisions[d]
    BY <1>4
  <2>3. Cardinality(s.revisions[d] \cup {r}) = Cardinality(s.revisions[d]) + 1
    BY <2>1, <2>2, OneMore
  <2>. QED
    BY <1>2, <2>3 DEF Size
<1>6. ASSUME NEW n \in 1..N
      PROVE  /\ Row(s, d, n) \in s.revisions[d]
             /\ Row(t, d, n) = Row(s, d, n)
  <2>1. PICK x \in s.revisions[d] : x.token = n
    BY DEF Sound, RevisionsSound
  <2>2. Row(s, d, n) = x
    BY <2>1, RowOf
  <2>3. Row(t, d, n) = x
    BY <1>2, <2>1, RowOf
  <2>. QED
    BY <2>2, <2>3
<1>7. Row(t, d, N + 1) = r
  BY <1>3, RowOf
<1>8. /\ Texts(s, d) = [n \in 1..N |-> Row(s, d, n).sha]
      /\ Texts(t, d) = [n \in 1..(N + 1) |-> Row(t, d, n).sha]
  BY <1>5 DEF Texts, Size
<1>9. \A n \in 1..N : Row(s, d, n).sha \in Text
  BY <1>1, <1>6 DEF Database, RevisionRow
<1> HIDE DEF N
<1>10. Texts(s, d) \in Seq(Text) /\ Len(Texts(s, d)) = N
  BY <1>4, <1>8, <1>9
<1>11. Texts(s, d)[N] = head.sha
  <2>1. Row(s, d, N) = head
    BY <1>3, RowOf
  <2>. QED
    BY <1>4, <1>8, <2>1
<1> DEFINE next == [head.sha EXCEPT !.edits = @ \cup edits]
<1>12. r.sha = next
  BY <1>3 DEF NextText
<1> HIDE DEF next
<1>13. Texts(t, d) = Append(Texts(s, d), next)
  <2>1. next \in Text
    BY <1>1, <1>12 DEF Database, RevisionRow
  <2>2. /\ Append(Texts(s, d), next) \in Seq(Text)
        /\ Len(Append(Texts(s, d), next)) = N + 1
        /\ \A n \in 1..N : Append(Texts(s, d), next)[n] = Texts(s, d)[n]
        /\ Append(Texts(s, d), next)[N + 1] = next
    BY <1>10, <2>1, AppendProperties
  <2>3. \A n \in 1..(N + 1) :
           Row(t, d, n).sha = Append(Texts(s, d), next)[n]
    BY <1>4, <1>6, <1>7, <1>8, <1>12, <2>2
  <2>4. Texts(t, d) \in Seq(Text) /\ Len(Texts(t, d)) = N + 1
    <3>1. \A n \in 1..(N + 1) : Row(t, d, n).sha \in Text
      BY <1>4, <1>6, <1>7, <1>9, <1>12, <2>1
    <3>. QED
      BY <1>4, <1>8, <3>1
  <2>5. \A n \in 1..(N + 1) :
           Texts(t, d)[n] = Append(Texts(s, d), next)[n]
    BY <1>8, <2>3
  <2>. QED
    BY <2>2, <2>4, <2>5, SeqEqual
<1>14. Texts(s, d) # << >>
  BY <1>4, <1>10
<1>15. Append(Texts(s, d), next) = Extended(Texts(s, d), edits)
  BY <1>10, <1>11 DEF next, Extended
<1>. QED
  BY <1>13, <1>14, <1>15 DEF IsExtension

LEMMA OneTransactionIsOneLogStep ==
    ASSUME NEW s, NEW t, Sound(s), Sound(t), OneTransaction(s, t)
    PROVE  \/ TextLog(t) = TextLog(s)
           \/ \E d \in Docs :
                 /\ TextLog(s)[d] = << >>
                 /\ TextLog(t) =
                       [TextLog(s) EXCEPT ![d] = << ImportedText(d) >>]
           \/ \E d \in Docs, edits \in SUBSET (Changes \ Guarded) :
                 /\ TextLog(s)[d] # << >>
                 /\ TextLog(t) = [TextLog(s) EXCEPT ![d] =
                                      Extended(TextLog(s)[d], edits)]
<1>1. CASE t.revisions = s.revisions
  BY <1>1, SameLog
<1>2. ASSUME NEW d \in Docs, NEW r \in t.revisions[d],
             t.revisions =
                [s.revisions EXCEPT ![d] = s.revisions[d] \cup {r}]
      PROVE  /\ \A e \in Docs : e # d => Texts(t, e) = Texts(s, e)
             /\ TextLog(t) = [TextLog(s) EXCEPT ![d] = Texts(t, d)]
             /\ TextLog(s)[d] = Texts(s, d)
  <2>1. \A e \in Docs : e # d => Texts(t, e) = Texts(s, e)
    BY <1>2, OtherTexts DEF Sound
  <2>. QED
    BY <2>1 DEF TextLog
<1>3. ASSUME NEW d \in Docs, NEW r \in t.revisions[d],
             t.revisions =
                [s.revisions EXCEPT ![d] = s.revisions[d] \cup {r}],
             Imported(s, d, r)
      PROVE  /\ TextLog(s)[d] = << >>
             /\ TextLog(t) = [TextLog(s) EXCEPT ![d] = << ImportedText(d) >>]
  <2>1. Texts(s, d) = << >> /\ Texts(t, d) = << ImportedText(d) >>
    BY <1>3, ImportIsImport
  <2>2. /\ TextLog(t) = [TextLog(s) EXCEPT ![d] = Texts(t, d)]
        /\ TextLog(s)[d] = Texts(s, d)
    BY <1>2, <1>3
  <2>. QED
    BY <2>1, <2>2
<1>4. ASSUME NEW d \in Docs, NEW r \in t.revisions[d],
             t.revisions =
                [s.revisions EXCEPT ![d] = s.revisions[d] \cup {r}],
             Finalized(s, d, r)
      PROVE  \E edits \in SUBSET (Changes \ Guarded) :
                /\ TextLog(s)[d] # << >>
                /\ TextLog(t) = [TextLog(s) EXCEPT ![d] =
                                     Extended(TextLog(s)[d], edits)]
  <2>1. Texts(s, d) # << >> /\ IsExtension(Texts(s, d), Texts(t, d))
    BY <1>4, FinalizeIsAppend
  <2>2. PICK edits \in SUBSET (Changes \ Guarded) :
           Texts(t, d) = Extended(Texts(s, d), edits)
    BY <2>1 DEF IsExtension
  <2>3. /\ TextLog(t) = [TextLog(s) EXCEPT ![d] = Texts(t, d)]
        /\ TextLog(s)[d] = Texts(s, d)
    BY <1>2, <1>4
  <2>4. TextLog(t) =
           [TextLog(s) EXCEPT ![d] = Extended(TextLog(s)[d], edits)]
    BY <2>2, <2>3
  <2>. QED
    BY <2>1, <2>3, <2>4
<1>. QED
  BY <1>1, <1>3, <1>4 DEF OneTransaction

\* The whole system implements the append-only log of accepted texts: the
\* empty database is the empty log, and every step of any command is an
\* import, a finalization or no step of the log.
THEOREM Refinement == Spec => ImplementsRevisionLog
<1>1. Init => Log!Init
  <2> SUFFICES ASSUME Init PROVE Log!Init
    OBVIOUS
  <2>1. ASSUME NEW d \in Docs PROVE Texts(db, d) = << >>
    <3>1. db.revisions[d] = {}
      BY DEF Init, EmptyDatabase
    <3>2. Cardinality(db.revisions[d]) = 0
      BY <3>1, FS_EmptySet
    <3>. QED
      BY <3>2 DEF Texts
  <2>. QED
    BY <2>1 DEF Log!Init
<1>2. IInv /\ IInv' /\ [Next]_vars => [Log!Next]_(TextLog(db))
  <2> SUFFICES ASSUME IInv, IInv', [Next]_vars
               PROVE  Log!Next \/ TextLog(db') = TextLog(db)
    BY DEF TextLog, Texts, Row
  <2>1. Sound(db) /\ Sound(db') /\ OneTransaction(db, db')
    BY StepIsOneTransaction DEF IInv
  <2>2. ASSUME NEW d \in Docs, TextLog(db)[d] = << >>,
               TextLog(db') = [TextLog(db) EXCEPT ![d] = << ImportedText(d) >>]
        PROVE  Log!Import(d)
    BY <2>2 DEF TextLog, Log!Import, ImportedText, Texts, Row
  <2>3. ASSUME NEW d \in Docs, NEW edits \in SUBSET (Changes \ Guarded),
               TextLog(db)[d] # << >>,
               TextLog(db') = [TextLog(db) EXCEPT ![d] =
                                  Extended(TextLog(db)[d], edits)]
        PROVE  Log!Finalize(d, edits)
    BY <2>3 DEF TextLog, Log!Finalize, Extended, Texts, Row
  <2>. QED
    BY <2>1, <2>2, <2>3, OneTransactionIsOneLogStep DEF Log!Next
<1>3. [Log!Next]_(TextLog(db)) =>
         [Log!Next]_([d \in Docs |-> Texts(db, d)])
  BY DEF TextLog
<1>. QED
  BY <1>1, <1>2, <1>3, Invariance, StepKeepsIInv, PTL
     DEF Spec, ImplementsRevisionLog, Log!Spec

-----------------------------------------------------------------------------
(* Reviews: what a human accepted is all that an application writes, and a *)
(* run is applied to one text only.                                        *)
(*                                                                         *)
(* The argument.  An application reads the accepted changes of a run out   *)
(* of a file other commands may rewrite, and writes them to the database   *)
(* many steps later.  ReviewInv follows a decision along that way: from    *)
(* the history of the approvals into the review file (JournalsApproved),   *)
(* from there into the local variables of an `apply` (Applying), from      *)
(* there into the database it stages and the one it commits (Reviewed).    *)
(* That a run is spent follows from the texts themselves: they only gain   *)
(* edits along the chain, so none comes back once it was left.             *)

\* A content row that is not the imported one names a run that was proposed
\* for the text before it, and that run's human accepted every new edit.
ContentsReviewed(s, d, marked) ==
    \A c \in s.contents[d] :
        /\ c.revision = 1 => c.run = NoRun
        /\ c.revision # 1 => \E r \in s.revisions[d] :
              /\ r.token = c.revision - 1
              /\ c.run \in Run
              /\ c.run.text = r.sha
              /\ \A e \in c.text.edits \ r.sha.edits : <<c.run, e>> \in marked

\* Along the chain the texts only gain edits.
EditsGrow(s, d) ==
    \A x, y \in s.revisions[d] :
        x.token <= y.token => x.sha.edits \subseteq y.sha.edits

Reviewed(s, marked) ==
    \A d \in Docs : ContentsReviewed(s, d, marked) /\ EditsGrow(s, d)

JournalsApproved ==
    \A run \in DOMAIN reviews : \A e \in reviews[run].accepted :
        <<run, e>> \in approved

\* Process p is an `apply` that has read the accepted changes of its run.
Applying(p) ==
    \/ pc[p] \in {"profile", "finalize"}
    \/ pc[p] \in {"revision", "spans"} /\ loc[p].cmd = "apply"

HoldsApproved(p) ==
    Applying(p) => \A e \in loc[p].accepted : <<loc[p].run, e>> \in approved

ReviewInv ==
    /\ Reviewed(db, approved)
    /\ Reviewed(staged, approved)
    /\ JournalsApproved
    /\ \A p \in Clients : HoldsApproved(p)

-----------------------------------------------------------------------------
(* What the transactions write *)

\* More approvals, and no other revision or content, keep the rows reviewed.
LEMMA SameRowsReviewed ==
    ASSUME NEW marked, NEW s, NEW t, NEW d \in Docs,
           ContentsReviewed(s, d, marked), EditsGrow(s, d),
           t.revisions[d] = s.revisions[d], t.contents[d] = s.contents[d]
    PROVE  ContentsReviewed(t, d, marked) /\ EditsGrow(t, d)
BY DEF ContentsReviewed, EditsGrow

\* The revisions and contents of the two kinds of transaction.
LEMMA IngestAdds ==
    ASSUME NEW s \in Database, NEW d \in Docs, NEW i \in ProjectIds
    PROVE  /\ IngestRows(s, d, i).revisions = [s.revisions EXCEPT ![d] =
                 s.revisions[d] \cup {InitialRevision(ImportedText(d))}]
           /\ IngestRows(s, d, i).contents = s.contents
BY DEF IngestRows, EnsureProject, AddDocument, SaveFacts, SaveSpans,
       SaveRevision, RecordApproval, Database, ImportedText

LEMMA FinalizeAdds ==
    ASSUME NEW s \in Database, NEW d \in Docs, NEW row \in RevisionRow,
           NEW spans \in SUBSET Shifting, NEW accepted \in SUBSET Changes,
           NEW label \in Labels \cup {NoLabel}, NEW run \in Run
    PROVE  /\ FinalRows(s, d, row, spans, accepted, label, run).revisions =
                 [s.revisions EXCEPT ![d] =
                     s.revisions[d] \cup {NewRow(row, accepted)}]
           /\ FinalRows(s, d, row, spans, accepted, label, run).contents =
                 [s.contents EXCEPT ![d] =
                     s.contents[d] \cup {NewContent(row, accepted, label, run)}]
<1> DEFINE new == AcceptRevision(ProposeNext(row, NextText(row.sha, accepted)))
           content == [revision |-> new.revision, text |-> new.sha,
                       style |-> label, run |-> run]
           t == FinalRows(s, d, row, spans, accepted, label, run)
<1>1. new = NewRow(row, accepted)
  <2>1. NextText(row.sha, accepted) \in Text
    BY DEF NextText, Text, RevisionRow
  <2>. QED
    BY <2>1, RevisionValues DEF NewRow
<1>2. content = NewContent(row, accepted, label, run)
  BY <1>1 DEF NewRow, NewContent
<1>3. t = RecordApproval(
             SaveSpans(SaveContent(SaveRevision(s, d, new), d, content),
                       d, Rebased(spans, accepted)),
             d, "revision", new.revision)
  BY DEF FinalRows
<1> HIDE DEF new, content
<1>4. /\ t.revisions = [s.revisions EXCEPT ![d] = s.revisions[d] \cup {new}]
      /\ t.contents = [s.contents EXCEPT ![d] = s.contents[d] \cup {content}]
  <2> HIDE DEF t
  <2>. QED
    BY <1>3 DEF SaveRevision, SaveContent, SaveSpans, RecordApproval, Database
<1>. QED
  BY <1>1, <1>2, <1>4

\* The rows of an ingest: one revision, without a run.
LEMMA IngestRowsReviewed ==
    ASSUME NEW marked, NEW s \in Database, Reviewed(s, marked), NEW d \in Docs,
           NEW i \in ProjectIds, s.revisions[d] = {}, s.contents[d] = {}
    PROVE  Reviewed(IngestRows(s, d, i), marked)
<1>1. /\ IngestRows(s, d, i).revisions = [s.revisions EXCEPT ![d] =
            s.revisions[d] \cup {InitialRevision(ImportedText(d))}]
      /\ IngestRows(s, d, i).contents = s.contents
  BY IngestAdds
<1> DEFINE t == IngestRows(s, d, i)
           r == InitialRevision(ImportedText(d))
<1> HIDE DEF t, r
<1>2. t.revisions[d] = {r} /\ t.contents[d] = {}
  BY <1>1 DEF Database, t, r
<1>3. ASSUME NEW e \in Docs PROVE ContentsReviewed(t, e, marked) /\ EditsGrow(t, e)
  <2>1. CASE e = d
    BY <1>2, <2>1 DEF ContentsReviewed, EditsGrow
  <2>2. CASE e # d
    <3>1. t.revisions[e] = s.revisions[e] /\ t.contents[e] = s.contents[e]
      BY <1>1, <2>2 DEF Database, t
    <3>. QED
      BY <3>1, SameRowsReviewed DEF Reviewed
  <2>. QED
    BY <2>1, <2>2
<1>. QED
  BY <1>3 DEF Reviewed, t

\* The content of an import carries no run.
LEMMA InitialContentReviewed ==
    ASSUME NEW marked, NEW s \in Database, Reviewed(s, marked), NEW d \in Docs,
           NEW c \in ContentRow, c.revision = 1, c.run = NoRun
    PROVE  Reviewed(SaveContent(s, d, c), marked)
<1> DEFINE t == SaveContent(s, d, c)
<1>1. /\ t.revisions = s.revisions
      /\ t.contents = [s.contents EXCEPT ![d] = s.contents[d] \cup {c}]
  BY DEF SaveContent, Database
<1> HIDE DEF t
<1>2. ASSUME NEW e \in Docs PROVE ContentsReviewed(t, e, marked) /\ EditsGrow(t, e)
  <2>1. ContentsReviewed(s, e, marked) /\ EditsGrow(s, e)
    BY DEF Reviewed
  <2>2. \A x \in t.contents[e] : x \in s.contents[e] \/ x = c
    BY <1>1 DEF Database
  <2>. QED
    BY <1>1, <2>1, <2>2 DEF ContentsReviewed, EditsGrow
<1>. QED
  BY <1>2 DEF Reviewed, t

\* A finalization that passes its checks: the accepted edits are applied to
\* the text their run was proposed for.
LEMMA FinalRowsReviewed ==
    ASSUME NEW marked, NEW s, Sound(s), Reviewed(s, marked), NEW d \in Docs,
           NEW row \in s.revisions[d], HeadUnchanged(s, d, row),
           NEW spans \in SUBSET Shifting, NEW accepted \in SUBSET Changes,
           NEW label \in Labels \cup {NoLabel}, NEW run \in Run,
           HashMatches(run, row.sha),
           \A e \in accepted : <<run, e>> \in marked
    PROVE  Reviewed(FinalRows(s, d, row, spans, accepted, label, run), marked)
<1> DEFINE t == FinalRows(s, d, row, spans, accepted, label, run)
           new == NewRow(row, accepted)
           content == NewContent(row, accepted, label, run)
<1>1. s \in Database /\ RevisionsSound(s, d)
  BY DEF Sound
<1>2. /\ row.token = Size(s, d) /\ Size(s, d) \in Nat \ {0}
      /\ row \in RevisionRow
  BY HeadIsLast
<1> HIDE DEF t
<1>3. /\ t.revisions = [s.revisions EXCEPT ![d] = s.revisions[d] \cup {new}]
      /\ t.contents = [s.contents EXCEPT ![d] = s.contents[d] \cup {content}]
  BY <1>1, <1>2, FinalizeAdds DEF t
<1>4. /\ new.token = Size(s, d) + 1
      /\ new.sha.edits = row.sha.edits \cup accepted
      /\ content.revision = Size(s, d) + 1 /\ content.run = run
      /\ content.text = new.sha
  BY <1>2 DEF NewRow, NewContent, NextText, RevisionRow, Text
<1> HIDE DEF new, content
<1>5. /\ t.revisions[d] = s.revisions[d] \cup {new}
      /\ t.contents[d] = s.contents[d] \cup {content}
  BY <1>1, <1>3 DEF Database
<1>6. ContentsReviewed(s, d, marked) /\ EditsGrow(s, d)
  BY DEF Reviewed
<1>7. ContentsReviewed(t, d, marked)
  <2>1. \A e \in content.text.edits \ row.sha.edits : <<run, e>> \in marked
    BY <1>4
  <2>2. /\ content.revision # 1 /\ row.token = content.revision - 1
        /\ content.run \in Run /\ content.run.text = row.sha
    BY <1>2, <1>4 DEF HashMatches
  <2>3. row \in t.revisions[d]
    BY <1>5
  <2>. QED
    BY <1>4, <1>5, <1>6, <2>1, <2>2, <2>3 DEF ContentsReviewed
<1>8. EditsGrow(t, d)
  <2>1. \A x \in s.revisions[d] : x.token \in Nat /\ x.token <= Size(s, d)
    BY <1>1 DEF RevisionsSound, Database, RevisionRow
  <2>2. \A x \in s.revisions[d] : x.sha.edits \subseteq new.sha.edits
    BY <1>2, <1>4, <1>6, <2>1 DEF EditsGrow
  <2>3. \A x \in s.revisions[d] : ~(new.token <= x.token)
    BY <1>2, <1>4, <2>1
  <2>. QED
    BY <1>5, <1>6, <2>2, <2>3 DEF EditsGrow
<1>9. ASSUME NEW e \in Docs PROVE ContentsReviewed(t, e, marked) /\ EditsGrow(t, e)
  <2>1. CASE e # d
    <3>1. t.revisions[e] = s.revisions[e] /\ t.contents[e] = s.contents[e]
      BY <1>1, <1>3, <2>1 DEF Database
    <3>. QED
      BY <3>1, SameRowsReviewed DEF Reviewed
  <2>. QED
    BY <1>7, <1>8, <2>1
<1>. QED
  BY <1>9 DEF Reviewed, t

-----------------------------------------------------------------------------
(* The steps *)

\* Approvals are never withdrawn.
LEMMA ApprovalsGrow ==
    ASSUME [Next]_vars
    PROVE  approved \subseteq approved'
<1>1. ASSUME NEW p \in Clients, Ingest(p) \/ Load(p) \/ Review(p)
      PROVE  approved \subseteq approved'
  BY <1>1 DEF Ingest, IngestCheck, IngestTx, ProjectIngestTx, Load,
       StartContext, StartPropose, StartApply, LoadRevision, LoadSpans,
       Review, ReadReview, TruncateReview, WriteReview, Start, Stage, files
<1>2. ASSUME NEW p \in Clients,
             \/ Show(p) \/ BuildProposal(p) \/ WriteProposal(p)
             \/ ReadProfile(p) \/ Finalize(p) \/ Abort(p) \/ Commit(p)
             \/ \E label \in Labels : BindStyleCmd(p, label)
      PROVE  approved \subseteq approved'
  BY <1>2 DEF Show, BuildProposal, WriteProposal, ReadProfile, Finalize,
              Stage, Abort, Commit, BindStyleCmd, files
<1>. QED
  BY <1>1, <1>2 DEF Next, vars

\* Rows that were reviewed stay so when approvals are added.
LEMMA ReviewedStays ==
    ASSUME NEW marked, NEW more, marked \subseteq more,
           NEW s, Reviewed(s, marked),
           NEW t, t.revisions = s.revisions, t.contents = s.contents
    PROVE  Reviewed(t, more)
BY DEF Reviewed, ContentsReviewed, EditsGrow

\* Every step but those that open a transaction leaves the staged database
\* as it is or takes the committed one.
LEMMA OtherStepsStage ==
    ASSUME NEW p \in Clients,
           \/ \E d \in Docs, label \in Labels \cup {NoLabel} :
                 IngestCheck(p, d, label)
           \/ Load(p) \/ Show(p) \/ BuildProposal(p) \/ WriteProposal(p)
           \/ Review(p) \/ ReadProfile(p) \/ Commit(p) \/ Abort(p)
    PROVE  db' \in {db, staged} /\ staged' \in {db, staged}
BY DEF IngestCheck, Load, StartContext, StartPropose, StartApply,
       LoadRevision, LoadSpans, Show, BuildProposal, WriteProposal, Review,
       ReadReview, TruncateReview, WriteReview, ReadProfile, Commit, Abort,
       Start

\* An ingest stages rows without a run.
LEMMA IngestStagesReviewed ==
    ASSUME IInv, ReviewInv, NEW p \in Clients, IngestTx(p)
    PROVE  db' = db /\ Reviewed(staged', approved)
<1> DEFINE d == loc[p].doc
           label == loc[p].label
           rows == IngestRows(db, d, Canonical)
           content == InitialContent(d, label)
           saved == SaveContent(rows, d, content)
<1>1. /\ d \in Docs /\ label \in Labels \cup {NoLabel}
      /\ Canonical \in ProjectIds /\ db \in Database
  BY ClientAssumption DEF IngestTx, IInv, TypeOK, Locals, Working
<1>2. db.revisions[d] = {} /\ db.contents[d] = {}
  <2>1. db.documents[d] = NoRow
    BY DEF IngestTx, CanAddDocument
  <2>. QED
    BY <1>1, <2>1 DEF IInv, Sound, RowsSound, ContentsSound
<1>3. rows \in Database
  BY <1>1, <1>2, IngestRowsSound DEF IInv, Sound
<1>4. Reviewed(rows, approved)
  BY <1>1, <1>2, IngestRowsReviewed DEF ReviewInv
<1>5. /\ content \in ContentRow
      /\ content.revision = 1 /\ content.run = NoRun
  BY <1>1, StoreAssumption DEF InitialContent, ContentRow, Text
<1> HIDE DEF rows, content
<1>6. saved \in Database /\ Reviewed(saved, approved)
  BY <1>1, <1>3, <1>4, <1>5, InitialContentReviewed, SaveContentEffect
<1>7. db' = db /\ staged' \in {saved, BindStyle(saved, Canonical, label)}
  BY DEF IngestTx, Stage, rows, content
<1> HIDE DEF saved
<1>8. /\ BindStyle(saved, Canonical, label).revisions = saved.revisions
      /\ BindStyle(saved, Canonical, label).contents = saved.contents
  BY <1>6 DEF BindStyle, Database
<1>. QED
  BY <1>6, <1>7, <1>8, ReviewedStays

LEMMA ProjectIngestStagesReviewed ==
    ASSUME IInv, ReviewInv, NEW p \in Clients, NEW d \in Docs,
           NEW i \in ProjectIds, ProjectIngestTx(p, d, i)
    PROVE  db' = db /\ Reviewed(staged', approved)
<1>1. db.revisions[d] = {} /\ db' = db /\ staged' = IngestRows(db, d, i)
  BY DEF ProjectIngestTx, HasRevision, Stage
<1>2. db.contents[d] = {} /\ db \in Database
  BY <1>1 DEF IInv, Sound, ContentsSound
<1>. QED
  BY <1>1, <1>2, IngestRowsReviewed DEF ReviewInv

\* A finalization stages the changes its process read from the review.
LEMMA FinalizeStagesReviewed ==
    ASSUME IInv, ReviewInv, NEW p \in Clients, Finalize(p)
    PROVE  db' = db /\ Reviewed(staged', approved)
<1> DEFINE d == loc[p].doc
           row == loc[p].row
<1>1. /\ d \in Docs /\ row \in db.revisions[d] /\ loc[p].run \in Run
      /\ loc[p].spans \in SUBSET Shifting /\ loc[p].accepted \in SUBSET Changes
      /\ loc[p].label \in Labels \cup {NoLabel}
  BY DEF Finalize, IInv, TypeOK, Locals, Working, Loaded
<1>2. /\ HeadUnchanged(db, d, row) /\ HashMatches(loc[p].run, row.sha)
      /\ db' = db
      /\ staged' = FinalRows(db, d, row, loc[p].spans, loc[p].accepted,
                             loc[p].label, loc[p].run)
  BY DEF Finalize, FinalRows, Stage
<1>3. \A e \in loc[p].accepted : <<loc[p].run, e>> \in approved
  BY DEF Finalize, ReviewInv, HoldsApproved, Applying
<1>. QED
  BY <1>1, <1>2, <1>3, FinalRowsReviewed DEF IInv, ReviewInv

\* The committed database and the staged one stay reviewed.
LEMMA DatabasesStayReviewed ==
    ASSUME IInv, ReviewInv, [Next]_vars
    PROVE  Reviewed(db, approved)' /\ Reviewed(staged, approved)'
<1>1. approved \subseteq approved'
  BY ApprovalsGrow
<1>2. Reviewed(db, approved') /\ Reviewed(staged, approved')
  BY <1>1, ReviewedStays DEF ReviewInv
<1>3. ASSUME db' \in {db, staged}, staged' \in {db, staged}
      PROVE  Reviewed(db, approved)' /\ Reviewed(staged, approved)'
  BY <1>2, <1>3
<1>4. ASSUME db' = db, Reviewed(staged', approved)
      PROVE  Reviewed(db, approved)' /\ Reviewed(staged, approved)'
  BY <1>1, <1>2, <1>4, ReviewedStays
<1>5. ASSUME NEW p \in Clients, NEW label \in Labels, BindStyleCmd(p, label)
      PROVE  Reviewed(db, approved)' /\ Reviewed(staged, approved)'
  <2>1. db' = BindStyle(db, Canonical, label) /\ staged' = db'
    BY <1>5 DEF BindStyleCmd
  <2>2. db'.revisions = db.revisions /\ db'.contents = db.contents
    BY <2>1 DEF BindStyle, IInv, TypeOK, Database
  <2>. QED
    BY <1>2, <2>1, <2>2, ReviewedStays
<1>6. ASSUME NEW p \in Clients, Ingest(p)
      PROVE  Reviewed(db, approved)' /\ Reviewed(staged, approved)'
  BY <1>3, <1>4, <1>6, OtherStepsStage, IngestStagesReviewed,
     ProjectIngestStagesReviewed DEF Ingest
<1>7. ASSUME NEW p \in Clients, Finalize(p)
      PROVE  Reviewed(db, approved)' /\ Reviewed(staged, approved)'
  BY <1>4, <1>7, FinalizeStagesReviewed
<1>8. UNCHANGED vars => db' \in {db, staged} /\ staged' \in {db, staged}
  BY DEF vars
<1>. QED
  BY <1>3, <1>5, <1>6, <1>7, <1>8, OtherStepsStage DEF Next

\* A review file holds what the last `decide` that wrote it accepted, and
\* that `decide` enters the history with the same step.
LEMMA JournalsStayApproved ==
    ASSUME IInv, ReviewInv, [Next]_vars
    PROVE  JournalsApproved'
<1>1. approved \subseteq approved'
  BY ApprovalsGrow
<1>2. ASSUME reviews' = reviews PROVE JournalsApproved'
  BY <1>1, <1>2 DEF ReviewInv, JournalsApproved
<1>3. ASSUME NEW p \in Clients, TruncateReview(p) PROVE JournalsApproved'
  BY <1>1, <1>3 DEF TruncateReview, Put, Unreadable, ReviewInv,
                    JournalsApproved
<1>4. ASSUME NEW p \in Clients, WriteReview(p) PROVE JournalsApproved'
  <2>1. PICK journal \in {loc[p].next, Unreadable("mixed")} :
           reviews' = Put(reviews, loc[p].run, journal)
    BY <1>4 DEF WriteReview
  <2>2. \A e \in loc[p].next.accepted : <<loc[p].run, e>> \in approved'
    BY <1>4 DEF WriteReview
  <2>3. \A e \in journal.accepted : <<loc[p].run, e>> \in approved'
    BY <2>1, <2>2 DEF Unreadable
  <2>. QED
    BY <1>1, <2>1, <2>3 DEF Put, ReviewInv, JournalsApproved
<1>5. ASSUME NEW p \in Clients, Ingest(p) \/ Load(p)
      PROVE  reviews' = reviews
  BY <1>5 DEF Ingest, IngestCheck, IngestTx, ProjectIngestTx, Load,
       StartContext, StartPropose, StartApply, LoadRevision, LoadSpans,
       Start, Stage, files
<1>6. ASSUME NEW p \in Clients,
             \/ Show(p) \/ BuildProposal(p) \/ WriteProposal(p)
             \/ ReadProfile(p) \/ Finalize(p) \/ Abort(p) \/ Commit(p)
             \/ \E label \in Labels : BindStyleCmd(p, label)
      PROVE  reviews' = reviews
  BY <1>6 DEF Show, BuildProposal, WriteProposal, ReadProfile, Finalize,
              Stage, Abort, Commit, BindStyleCmd, files
<1>7. ASSUME NEW p \in Clients, NEW run \in DOMAIN proposals,
             NEW change \in run.changes, NEW verdict \in {"accept", "reject"},
             ReadReview(p, run, change, verdict)
      PROVE  reviews' = reviews
  BY <1>7 DEF ReadReview, Start, files
<1>8. UNCHANGED vars => reviews' = reviews
  BY DEF vars
<1>. QED
  BY <1>2, <1>3, <1>4, <1>5, <1>6, <1>7, <1>8 DEF Next, Review

\* A process that takes a step where it is no `apply`, or where it ends or
\* leaves its run and its accepted changes alone, holds approved changes.
LEMMA StepHolds ==
    ASSUME ReviewInv, NEW p \in Clients, approved \subseteq approved',
           \/ pc'[p] \notin {"revision", "spans", "profile", "finalize"}
           \/ /\ pc'[p] \in {"revision", "spans"}
              /\ loc'[p].cmd # "apply"
           \/ /\ Applying(p)
              /\ loc'[p].run = loc[p].run
              /\ loc'[p].accepted = loc[p].accepted
    PROVE  HoldsApproved(p)'
BY DEF ReviewInv, HoldsApproved, Applying

\* `apply` starts with the accepted changes of an intact review.
LEMMA StartApplyHolds ==
    ASSUME IInv, ReviewInv, NEW p \in Clients, NEW d \in Docs,
           NEW run \in DOMAIN proposals, StartApply(p, d, run)
    PROVE  HoldsApproved(p)'
<1>1. /\ run \in DOMAIN reviews /\ approved' = approved
      /\ loc' = [loc EXCEPT ![p] =
                    [[Blank EXCEPT !.doc = d, !.run = run,
                                   !.accepted = reviews[run].accepted]
                       EXCEPT !.cmd = "apply"]]
  BY DEF StartApply, Start, files
<1>2. loc'[p].run = run /\ loc'[p].accepted = reviews[run].accepted
  BY <1>1 DEF Blank, IInv, TypeOK
<1>3. \A e \in reviews[run].accepted : <<run, e>> \in approved
  BY <1>1 DEF ReviewInv, JournalsApproved
<1>. QED
  BY <1>1, <1>2, <1>3 DEF HoldsApproved

LEMMA StepsHold ==
    ASSUME IInv, ReviewInv, [Next]_vars, NEW p \in Clients
    PROVE  HoldsApproved(p)'
<1>1. approved \subseteq approved'
  BY ApprovalsGrow
<1>2. pc \in [Clients -> Steps] /\ loc \in [Clients -> Locals]
  BY DEF IInv, TypeOK
<1>3. ASSUME pc'[p] = pc[p], loc'[p] = loc[p] PROVE HoldsApproved(p)'
  BY <1>1, <1>3 DEF ReviewInv, HoldsApproved, Applying
<1>4. ASSUME NEW q \in Clients, Ingest(q) PROVE HoldsApproved(p)'
  <2>1. /\ pc'[q] \in {"ingest", "commit"}
        /\ p # q => pc'[p] = pc[p] /\ loc'[p] = loc[p]
    BY <1>2, <1>4 DEF Ingest, IngestCheck, IngestTx, ProjectIngestTx, Start,
                      Stage, Goto
  <2>. QED
    BY <1>1, <1>3, <2>1, StepHolds
<1>5. ASSUME NEW q \in Clients, NEW label \in Labels, BindStyleCmd(q, label)
      PROVE  HoldsApproved(p)'
  BY <1>3, <1>5 DEF BindStyleCmd
<1>6. ASSUME NEW q \in Clients, NEW d \in Docs,
             StartContext(q, d) \/ StartPropose(q, d)
      PROVE  HoldsApproved(p)'
  <2>1. PICK cmd \in {"context", "propose"} :
           /\ pc' = [pc EXCEPT ![q] = "revision"]
           /\ loc' = [loc EXCEPT ![q] =
                         [[Blank EXCEPT !.doc = d] EXCEPT !.cmd = cmd]]
    BY <1>6 DEF StartContext, StartPropose, Start, Goto
  <2>2. pc'[q] = "revision" /\ loc'[q].cmd # "apply"
    BY <1>2, <2>1 DEF Blank
  <2>3. p # q => pc'[p] = pc[p] /\ loc'[p] = loc[p]
    BY <1>2, <2>1
  <2>. QED
    BY <1>1, <1>3, <2>2, <2>3, StepHolds
<1>7. ASSUME NEW q \in Clients, NEW d \in Docs, NEW run \in DOMAIN proposals,
             StartApply(q, d, run)
      PROVE  HoldsApproved(p)'
  <2>1. p # q => pc'[p] = pc[p] /\ loc'[p] = loc[p]
    BY <1>2, <1>7 DEF StartApply, Start, Goto
  <2>. QED
    BY <1>3, <1>7, <2>1, StartApplyHolds
<1>8. ASSUME NEW q \in Clients, LoadRevision(q) PROVE HoldsApproved(p)'
  <2>1. PICK row :
           /\ pc[q] = "revision" /\ pc' = [pc EXCEPT ![q] = "spans"]
           /\ loc' = [loc EXCEPT ![q] = [@ EXCEPT !.row = row]]
    BY <1>8 DEF LoadRevision, Goto
  <2>2. /\ pc'[q] = "spans" /\ loc'[q].cmd = loc[q].cmd
        /\ loc'[q].run = loc[q].run /\ loc'[q].accepted = loc[q].accepted
    BY <1>2, <2>1 DEF Locals
  <2>3. p # q => pc'[p] = pc[p] /\ loc'[p] = loc[p]
    BY <1>2, <2>1
  <2>4. loc[q].cmd = "apply" => Applying(q)
    BY <2>1 DEF Applying
  <2>. QED
    BY <1>1, <1>3, <2>2, <2>3, <2>4, StepHolds
<1>9. ASSUME NEW q \in Clients, LoadSpans(q) PROVE HoldsApproved(p)'
  <2>1. /\ pc[q] = "spans" /\ pc' = [pc EXCEPT ![q] = AfterLoad(loc[q].cmd)]
        /\ loc' = [loc EXCEPT ![q] =
                      [@ EXCEPT !.spans = db.spans[loc[q].doc]]]
    BY <1>9 DEF LoadSpans, Goto
  <2>2. loc[q].cmd \in {"context", "propose", "apply"}
    BY <2>1 DEF IInv, Working
  <2>3. /\ pc'[q] = AfterLoad(loc[q].cmd)
        /\ loc'[q].run = loc[q].run /\ loc'[q].accepted = loc[q].accepted
    BY <1>2, <2>1 DEF Locals
  <2>4. p # q => pc'[p] = pc[p] /\ loc'[p] = loc[p]
    BY <1>2, <2>1
  <2>5. CASE loc[q].cmd = "apply"
    <3>1. Applying(q)
      BY <2>1, <2>5 DEF Applying
    <3>. QED
      BY <1>1, <1>3, <2>3, <2>4, <3>1, StepHolds
  <2>6. CASE loc[q].cmd # "apply"
    <3>1. pc'[q] \in {"show", "build"}
      BY <2>2, <2>3, <2>6 DEF AfterLoad
    <3>. QED
      BY <1>1, <1>3, <2>4, <3>1, StepHolds
  <2>. QED
    BY <2>5, <2>6
<1>10. ASSUME NEW q \in Clients, ReadProfile(q) PROVE HoldsApproved(p)'
  <2>1. /\ pc[q] = "profile"
        /\ loc' = [loc EXCEPT ![q] =
                      [@ EXCEPT !.label = db.projects[Canonical]]]
    BY <1>10 DEF ReadProfile
  <2>2. /\ loc'[q].run = loc[q].run /\ loc'[q].accepted = loc[q].accepted
        /\ Applying(q)
    BY <1>2, <2>1 DEF Locals, Applying
  <2>3. p # q => pc'[p] = pc[p] /\ loc'[p] = loc[p]
    BY <1>2, <1>10 DEF ReadProfile, Goto
  <2>. QED
    BY <1>1, <1>3, <2>2, <2>3, StepHolds
<1>11. ASSUME NEW q \in Clients, NEW step \in Steps, Goto(q, step),
              step \notin {"revision", "spans", "profile", "finalize"},
              p # q => loc'[p] = loc[p]
       PROVE  HoldsApproved(p)'
  <2>1. /\ pc'[q] = step
        /\ p # q => pc'[p] = pc[p] /\ loc'[p] = loc[p]
    BY <1>2, <1>11 DEF Goto
  <2>. QED
    BY <1>1, <1>3, <1>11, <2>1, StepHolds
<1>12. ASSUME NEW q \in Clients,
              \/ Show(q) \/ BuildProposal(q) \/ WriteProposal(q)
              \/ Finalize(q) \/ Commit(q) \/ Abort(q)
              \/ TruncateReview(q) \/ WriteReview(q)
       PROVE  \E step \in Steps :
                 /\ Goto(q, step)
                 /\ step \notin {"revision", "spans", "profile", "finalize"}
                 /\ p # q => loc'[p] = loc[p]
  <2>1. CASE Show(q) \/ WriteProposal(q) \/ Commit(q) \/ Abort(q) \/ WriteReview(q)
    <3>1. Goto(q, "idle") /\ loc' = [loc EXCEPT ![q] = Blank]
      BY <2>1 DEF Show, WriteProposal, Commit, Abort, WriteReview, Finish
    <3>. QED
      BY <1>2, <3>1 DEF Steps
  <2>2. CASE BuildProposal(q)
    <3>1. \E run : loc' = [loc EXCEPT ![q] = [@ EXCEPT !.run = run]]
      BY <2>2 DEF BuildProposal
    <3>. QED
      BY <1>2, <2>2, <3>1 DEF BuildProposal, Steps
  <2>3. CASE Finalize(q)
    BY <2>3 DEF Finalize, Stage, Steps
  <2>4. CASE TruncateReview(q)
    BY <2>4 DEF TruncateReview, Steps
  <2>. QED
    BY <1>12, <2>1, <2>2, <2>3, <2>4
<1>13. ASSUME NEW q \in Clients, NEW run \in DOMAIN proposals,
              NEW change \in run.changes, NEW verdict \in {"accept", "reject"},
              ReadReview(q, run, change, verdict)
       PROVE  HoldsApproved(p)'
  <2>1. /\ pc'[q] = "truncate"
        /\ p # q => pc'[p] = pc[p] /\ loc'[p] = loc[p]
    BY <1>2, <1>13 DEF ReadReview, Start, Goto
  <2>. QED
    BY <1>1, <1>3, <2>1, StepHolds
<1>14. UNCHANGED vars => pc'[p] = pc[p] /\ loc'[p] = loc[p]
  BY DEF vars
<1>. QED
  BY <1>3, <1>4, <1>5, <1>6, <1>7, <1>8, <1>9, <1>10, <1>11, <1>12, <1>13,
     <1>14 DEF Next, Load, Review

LEMMA InitReviewInv == Init => ReviewInv
<1> SUFFICES ASSUME Init PROVE ReviewInv
  OBVIOUS
<1>1. \A d \in Docs : /\ EmptyDatabase.revisions[d] = {}
                      /\ EmptyDatabase.contents[d] = {}
  BY DEF EmptyDatabase
<1>2. Reviewed(EmptyDatabase, {})
  BY <1>1 DEF Reviewed, ContentsReviewed, EditsGrow
<1>. QED
  BY <1>2 DEF Init, ReviewInv, JournalsApproved, HoldsApproved, Applying

\* What is accepted and what is written stays within what was approved.
THEOREM ReviewInvariance == Spec => []ReviewInv
<1>1. IInv /\ ReviewInv /\ [Next]_vars => ReviewInv'
  BY DatabasesStayReviewed, JournalsStayApproved, StepsHold DEF ReviewInv
<1>. QED
  BY <1>1, InitReviewInv, Invariance, PTL DEF Spec

-----------------------------------------------------------------------------
(* The theorems *)

\* For any number of commands in any order: an accepted text contains, over
\* the text before it, only edits a human accepted in the run that its row
\* names, and that run was proposed for the text before it (apply_review,
\* apply_changes, finalize_reviewed_revision).
THEOREM OnlyReviewedEdits == Spec => []EditsReviewed
<1>1. ASSUME IInv, ReviewInv, NEW d \in Docs, NEW c \in db.contents[d],
             c.revision > 1
      PROVE  LET before == Row(db, d, c.revision - 1).sha
             IN  /\ c.run # NoRun
                 /\ c.run.text = before
                 /\ \A e \in c.text.edits \ before.edits :
                       <<c.run, e>> \in approved
  <2>1. c.revision # 1
    BY <1>1 DEF IInv, TypeOK, Database, ContentRow
  <2>2. PICK r \in db.revisions[d] :
           /\ r.token = c.revision - 1 /\ c.run \in Run /\ c.run.text = r.sha
           /\ \A e \in c.text.edits \ r.sha.edits : <<c.run, e>> \in approved
    BY <1>1, <2>1 DEF ReviewInv, Reviewed, ContentsReviewed
  <2>3. Row(db, d, c.revision - 1) = r
    BY <1>1, <2>2, RowOf DEF IInv
  <2>. QED
    BY <2>2, <2>3, RunAssumption
<1>2. IInv /\ ReviewInv => EditsReviewed
  BY <1>1 DEF EditsReviewed
<1>. QED
  BY <1>2, Invariance, ReviewInvariance, PTL

\* Two revisions of a document never come from one run, unless the first of
\* them changed nothing: the text a run was proposed for is gone with the
\* first edit (apply_changes compares the hash of the text).
THEOREM RunsAreSpent == Spec => []RunAppliedOnce
<1>1. ASSUME IInv, ReviewInv, NEW d \in Docs, NEW c1 \in db.contents[d],
             NEW c2 \in db.contents[d],
             c1.run = c2.run, c1.run # NoRun, c1.revision < c2.revision
      PROVE  c1.text = c1.run.text
  <2>1. /\ db \in Database /\ RevisionsSound(db, d) /\ ContentsSound(db, d)
        /\ TextsSound(db, d) /\ Sound(db)
        /\ ContentsReviewed(db, d, approved) /\ EditsGrow(db, d)
    BY <1>1 DEF IInv, Sound, ReviewInv, Reviewed
  <2>2. c1.revision \in Nat /\ c2.revision \in Nat
    BY <2>1 DEF Database, ContentRow
  <2>3. PICK r \in db.revisions[d] : r.revision = c1.revision /\ r.sha = c1.text
    BY <2>1 DEF ContentsSound
  <2>4. PICK r1 \in db.revisions[d] :
           r1.token = c1.revision - 1 /\ c1.run.text = r1.sha
    BY <1>1, <2>1 DEF ContentsReviewed
  <2>5. \A x \in db.revisions[d] :
           /\ x.revision = x.token /\ x.token \in Nat \ {0}
           /\ x.sha \in Text /\ x.sha.source = SourceOf[d]
    BY <2>1 DEF RevisionsSound, IsChain, TextsSound, Database, RevisionRow
  <2>6. c2.revision # 1
    BY <1>1, <2>2, <2>3, <2>5
  <2>7. PICK r2 \in db.revisions[d] :
           r2.token = c2.revision - 1 /\ c2.run.text = r2.sha
    BY <2>1, <2>6 DEF ContentsReviewed
  <2>8. r1.token <= r.token /\ r.token <= r2.token
    BY <1>1, <2>2, <2>3, <2>4, <2>5, <2>7
  <2>9. r1.sha.edits \subseteq r.sha.edits /\ r.sha.edits \subseteq r2.sha.edits
    BY <2>1, <2>8 DEF EditsGrow
  <2>10. r1.sha = r2.sha
    BY <1>1, <2>4, <2>7
  <2>11. r.sha.edits = r1.sha.edits /\ r.sha.source = r1.sha.source
    <3>1. r.sha.edits = r1.sha.edits
      BY <2>9, <2>10
    <3>. QED
      BY <2>5, <3>1
  <2>12. r.sha = r1.sha
    BY <2>5, <2>11 DEF Text
  <2>. QED
    BY <2>3, <2>4, <2>12
<1>2. IInv /\ ReviewInv => RunAppliedOnce
  BY <1>1 DEF RunAppliedOnce
<1>. QED
  BY <1>2, Invariance, ReviewInvariance, PTL

=============================================================================
