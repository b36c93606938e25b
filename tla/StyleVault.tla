----------------------------- MODULE StyleVault -----------------------------
(***************************************************************************)
(* The style evidence vault: original samples and evidence packages that   *)
(* are stored once, and the log of review decisions that every `style`     *)
(* command appends to and replays.  Imports and reviews are processes of   *)
(* their own that share the vault directory; there is no lock.             *)
(*                                                                         *)
(* Abstractions.  The content of a package is one value, and names the     *)
(* original it was made from.  Every package has the same span ids, as the *)
(* code numbers them a1, a2, ... in each.  The authorship classes are      *)
(* those of the voice profile ("voice"), all other ones ("other") and      *)
(* "excluded"; "unknown" is a span nobody decided.  The vault is in        *)
(* plaintext mode.                                                         *)
(***************************************************************************)
EXTENDS Integers, Sequences, FiniteSets, SequencesExt

CONSTANTS
    Clients,      \* command invocations that may run at the same time
    Packages,     \* package ids
    Artifacts,    \* sha256 of original samples
    Contents,     \* serialized packages
    ArtifactOf,   \* the original a package content was made from
    Spans,        \* span numbers, in document order
    Quoted,       \* spans over quotation nodes, resolved by construction
    NoContent,    \* an absent package file, or no package at hand
    Corrupt,      \* a line of the log that does not parse
    MaxLines      \* bound of the model: lines of the decision log

ASSUME VaultAssumption ==
    /\ ArtifactOf \in [Contents -> Artifacts]
    /\ Spans \subseteq Nat /\ IsFiniteSet(Spans)
    /\ Quoted \subseteq Spans
    /\ NoContent \notin Contents \cup Packages
    /\ MaxLines \in Nat

VARIABLES
    originals,    \* originals/<sha>.bin
    packages,     \* packages/<id>.json
    lines,        \* decisions.jsonl
    unended,      \* its last line has no newline
    pc, loc,      \* each process: its next step and its local variables
    stored        \* history: <<package, content>> of imports that succeeded

vars == <<originals, packages, lines, unended, pc, loc, stored>>

Decided == {"voice", "other", "excluded"}
Classes == Decided \cup {"unknown"}

Decision == [package : Packages, span : Spans, class : Decided]

View == [Spans -> Classes]

Locals ==
    [package : Packages \cup {NoContent}, content : Contents \cup {NoContent},
     class   : Classes,                     \* review: the class to assign
     view    : View,                        \* review: the effective package
     todo    : SUBSET Spans]                \* review: spans left to decide

\* derive_authorship_spans: only quotations are classified without a review.
BaseView == [s \in Spans |-> IF s \in Quoted THEN "other" ELSE "unknown"]

Blank == [package |-> NoContent, content |-> NoContent, class |-> "unknown",
          view |-> BaseView, todo |-> {}]

TypeOK ==
    /\ originals \subseteq Artifacts
    /\ packages \in [Packages -> Contents \cup {NoContent}]
    /\ lines \in Seq(Decision \cup {Corrupt})
    /\ unended \in BOOLEAN
    /\ pc \in [Clients -> {"idle", "original", "check", "link",
                           "append", "replay"}]
    /\ loc \in [Clients -> Locals]
    /\ stored \subseteq Packages \X Contents

Init ==
    /\ originals = {}
    /\ packages = [k \in Packages |-> NoContent]
    /\ lines = << >>
    /\ unended = FALSE
    /\ pc = [p \in Clients |-> "idle"]
    /\ loc = [p \in Clients |-> Blank]
    /\ stored = {}

vault == <<originals, packages, stored>>
log == <<lines, unended>>

Finish(p) ==
    /\ pc' = [pc EXCEPT ![p] = "idle"]
    /\ loc' = [loc EXCEPT ![p] = Blank]

\* A refusal, an error or a crash between two steps.
Abort(p) ==
    /\ pc[p] # "idle"
    /\ Finish(p)
    /\ UNCHANGED <<vault, log>>

-----------------------------------------------------------------------------
(* import style *)

StartImport(p, k, c) ==
    /\ pc[p] = "idle"
    /\ pc' = [pc EXCEPT ![p] = "original"]
    /\ loc' = [loc EXCEPT ![p] = [Blank EXCEPT !.package = k, !.content = c]]
    /\ UNCHANGED <<vault, log>>

\* Mutant: the package is stored without its original.
OriginalForgotten(p) ==
    /\ pc[p] = "original"
    /\ pc' = [pc EXCEPT ![p] = "check"]
    /\ UNCHANGED <<vault, log, loc>>

\* The file is named after its bytes, so whoever stores it stores the same.
StoreOriginal(p) ==
    /\ pc[p] = "original"
    /\ originals' = originals \cup {ArtifactOf[loc[p].content]}
    /\ pc' = [pc EXCEPT ![p] = "check"]
    /\ UNCHANGED <<packages, stored, log, loc>>

\* The import reports success when the package file holds its content.
Report(p, content) ==
    stored' = IF content = loc[p].content
              THEN stored \cup {<<loc[p].package, content>>} ELSE stored

\* _store_content_once: an existing file is compared, never rewritten.
CheckPackage(p) ==
    /\ pc[p] = "check"
    /\ IF packages[loc[p].package] = NoContent
       THEN /\ pc' = [pc EXCEPT ![p] = "link"]
            /\ UNCHANGED <<loc, stored>>
       ELSE /\ Report(p, packages[loc[p].package])
            /\ Finish(p)
    /\ UNCHANGED <<originals, packages, log>>

\* Mutant: the file is renamed into place.
Overwritten(file, content) == content

\* _create_once: os.link fails when the name was taken since the check.
CreateOnce(file, content) == IF file = NoContent THEN content ELSE file

LinkPackage(p) ==
    /\ pc[p] = "link"
    /\ packages' = [packages EXCEPT ![loc[p].package] =
                        CreateOnce(@, loc[p].content)]
    /\ Report(p, CreateOnce(packages[loc[p].package], loc[p].content))
    /\ Finish(p)
    /\ UNCHANGED <<originals, log>>

-----------------------------------------------------------------------------
(* style review *)

Readable == \A n \in 1..Len(lines) : lines[n] # Corrupt

\* replay_decisions: a decision about a span that the given package does not
\* have, or has no more, is an error.
Replayable(view, k) ==
    \A n \in 1..Len(lines) :
        lines[n].package = k => view[lines[n].span] # "excluded"

\* Mutant: the decision lines are not told apart by package.
ReplayedForAll(view, k) ==
    LET Apply(v, decision) == [v EXCEPT ![decision.span] = decision.class]
    IN  FoldLeft(Apply, view, lines)

\* Mutant: the first decision about a span stands.
FirstDecisionStands(view, k) ==
    LET Apply(decision, v) ==
            IF decision.package = k
            THEN [v EXCEPT ![decision.span] = decision.class] ELSE v
    IN  FoldRight(Apply, lines, view)

Replay(view, k) ==
    LET Apply(v, decision) ==
            IF decision.package = k
            THEN [v EXCEPT ![decision.span] = decision.class] ELSE v
    IN  FoldLeft(Apply, view, lines)

Unresolved(view) == {s \in Spans : view[s] = "unknown"}

\* load_effective_package, then the spans to decide: the one given with
\* --span, or all that are unresolved.
LoadEffective(p, k, class, given) ==
    /\ pc[p] = "idle"
    /\ packages[k] # NoContent
    /\ ArtifactOf[packages[k]] \in originals
    /\ Readable
    /\ LET view == Replay(BaseView, k)
           todo == IF given = {} THEN Unresolved(view) ELSE given
       IN  /\ todo # {}
           /\ loc' = [loc EXCEPT ![p] = [Blank EXCEPT
                         !.package = k, !.class = class,
                         !.view = view, !.todo = todo]]
    /\ pc' = [pc EXCEPT ![p] = "append"]
    /\ UNCHANGED <<vault, log>>

FirstSpan(spans) == CHOOSE s \in spans : \A t \in spans : s <= t

\* Mutant: the log is opened for writing instead of for appending.
WrittenAlone(text) == << text >>

\* The lines after text of one more line is written to the file.
Written(text) ==
    IF unended THEN [lines EXCEPT ![Len(lines)] = Corrupt]
               ELSE Append(lines, text)

\* Mutant: the decision repeats the class the span has.
ClassOfView(p) ==
    [package |-> loc[p].package, span |-> FirstSpan(loc[p].todo),
     class |-> loc[p].view[FirstSpan(loc[p].todo)]]

DecisionOf(p) ==
    [package |-> loc[p].package, span |-> FirstSpan(loc[p].todo),
     class |-> loc[p].class]

\* by_id refuses a span that is excluded; a KeyError appends nothing.
CanRecord(p) ==
    /\ pc[p] = "append"
    /\ loc[p].view[FirstSpan(loc[p].todo)] # "excluded"
    /\ Len(lines) < MaxLines

AppendDecision(p) ==
    /\ CanRecord(p)
    /\ lines' = Written(DecisionOf(p))
    /\ unended' = FALSE
    /\ pc' = [pc EXCEPT ![p] = "replay"]
    /\ UNCHANGED <<vault, loc>>

\* A crash in the write leaves a part of the line, or all but its newline.
CrashInAppend(p) ==
    /\ CanRecord(p)
    /\ \E text \in {Corrupt, DecisionOf(p)} : lines' = Written(text)
    /\ unended' = TRUE
    /\ Finish(p)
    /\ UNCHANGED vault

\* record_review_decision replays the log over the package it was given; the
\* next span of the command is decided on the outcome.
ReplayDecisions(p) ==
    /\ pc[p] = "replay"
    /\ Readable
    /\ Replayable(loc[p].view, loc[p].package)
    /\ LET left == loc[p].todo \ {FirstSpan(loc[p].todo)}
       IN  IF left = {}
           THEN Finish(p)
           ELSE /\ loc' = [loc EXCEPT
                        ![p].view = Replay(loc[p].view, loc[p].package),
                        ![p].todo = left]
                /\ pc' = [pc EXCEPT ![p] = "append"]
    /\ UNCHANGED <<vault, log>>

-----------------------------------------------------------------------------
Import(p) ==
    \/ \E k \in Packages, c \in Contents : StartImport(p, k, c)
    \/ StoreOriginal(p)
    \/ CheckPackage(p)
    \/ LinkPackage(p)

Review(p) ==
    \/ \E k \in Packages, class \in Decided,
          given \in {{}} \cup {{s} : s \in Spans} :
             LoadEffective(p, k, class, given)
    \/ AppendDecision(p)
    \/ CrashInAppend(p)
    \/ ReplayDecisions(p)

Next == \E p \in Clients : Import(p) \/ Review(p) \/ Abort(p)

Spec == Init /\ [][Next]_vars

-----------------------------------------------------------------------------
(* Properties *)

\* Two imports may race for one package id with different content.  Every
\* import that reported success finds exactly its content in the vault, for
\* ever; so only one of the two can have succeeded (_store_content_once).
StoredOnce == \A e \in stored : packages[e[1]] = e[2]

\* A package in the vault can always be verified against its original,
\* wherever an import was interrupted (build_style_evidence_package).
PackageHasOriginal ==
    \A k \in Packages : packages[k] # NoContent =>
        ArtifactOf[packages[k]] \in originals

\* Concurrent appends and crashes in the middle of one leave every complete
\* line of the log where it is and as it is: only a line that was cut off can
\* become unreadable by a later append (append_decision).
DecisionsOnlyGrow ==
    [][LET whole == IF unended THEN Len(lines) - 1 ELSE Len(lines)
       IN  /\ Len(lines') >= Len(lines)
           /\ \A n \in 1..whole : lines'[n] = lines[n]]_vars

LatestClass(k, s) ==
    LET decided == {n \in 1..Len(lines) :
                       lines[n].package = k /\ lines[n].span = s}
    IN  IF decided = {} THEN BaseView[s]
        ELSE lines[CHOOSE n \in decided : \A m \in decided : m <= n].class

\* Whatever the log holds, replaying it gives each span the class of the
\* latest decision about it, in this package and no other, and a span nobody
\* decided keeps the class it was imported with (replay_decisions).
LatestDecisionWins ==
    Readable => \A k \in Packages, s \in Spans :
        Replay(BaseView, k)[s] = LatestClass(k, s)

\* A review of several spans decides each of them on a view that some moment
\* of the log explains, although it folds the log over its own last outcome
\* and others append meanwhile (record_review_decision).
ViewExplained ==
    \A p \in Clients : (Readable /\ pc[p] = "append") =>
        \A s \in Spans :
            \/ loc[p].view[s] = BaseView[s]
            \/ \E n \in 1..Len(lines) :
                  lines[n] = [package |-> loc[p].package, span |-> s,
                              class |-> loc[p].view[s]]

\* record_review_decision: "Record one explicit review decision and return
\* the effective package."  Once its line is in a log that parses, the
\* review goes on to return a package; it does not end in an error that
\* tells the user nothing was recorded.
RecordedDecisionReturns ==
    \A p \in Clients : (pc[p] = "replay" /\ Readable) =>
        Replayable(loc[p].view, loc[p].package)
=============================================================================
