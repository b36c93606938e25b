---------------------------- MODULE RevisionLog ----------------------------
(***************************************************************************)
(* What the project store promises for the text of a document, seen by a   *)
(* reader who only asks for accepted revisions: every document has a log   *)
(* of accepted texts that grows at its end, one text per step, and a text  *)
(* is never withdrawn, replaced or reordered.  The first text is the one   *)
(* the clean-room import produced; each later one is the text before it    *)
(* with some further edits.  No text ever holds an edit of a protected     *)
(* fragment.                                                               *)
(*                                                                         *)
(* ProjectWorkflow is shown to implement this specification.               *)
(***************************************************************************)
EXTENDS Integers, Sequences

CONSTANTS
    Docs,       \* document ids
    Changes,    \* lexical edits a proposal may contain
    Guarded,    \* the edits that lie inside a protected span
    SourceOf    \* the text imported for each document

VARIABLE log    \* log[d]: the accepted texts of d, oldest first

TypeOK ==
    /\ DOMAIN log = Docs
    /\ \A d \in Docs : \A n \in 1..Len(log[d]) :
          /\ log[d][n].source = SourceOf[d]
          /\ log[d][n].edits \in SUBSET Changes

Init == log = [d \in Docs |-> << >>]

\* The imported text becomes the first accepted text of a document.
Import(d) ==
    /\ log[d] = << >>
    /\ log' = [log EXCEPT ![d] = << [source |-> SourceOf[d], edits |-> {}] >>]

\* A reviewed set of edits (perhaps none) is applied to the latest text.
Finalize(d, edits) ==
    /\ log[d] # << >>
    /\ LET last == log[d][Len(log[d])]
       IN  log' = [log EXCEPT ![d] =
                      Append(@, [last EXCEPT !.edits = @ \cup edits])]

Next == \E d \in Docs :
           \/ Import(d)
           \/ \E edits \in SUBSET (Changes \ Guarded) : Finalize(d, edits)

Spec == Init /\ [][Next]_log
=============================================================================
