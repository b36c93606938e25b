-------------------------- MODULE FinalizeJournal ---------------------------
(***************************************************************************)
(* The finalize commands over the files of one run: lexical writes the     *)
(* proposal, accept and reject read it, append an entry to the review      *)
(* history and write the whole history back.  Both files are written by    *)
(* write_text: the file is truncated, then written from its first byte.    *)
(* A run id is a digest of the proposal, so lexical always writes the same *)
(* bytes to the file of a run.  review only reads.                         *)
(***************************************************************************)
EXTENDS Integers, Sequences

CONSTANTS
    Deciders,     \* invocations of accept and reject at the same time
    Offered,      \* ids of the changes of the proposal
    MaxEntries    \* bound on the length of the history

ASSUME JournalAssumption == MaxEntries \in Nat

VARIABLES
    proposalFile, \* absent, truncated or whole
    journal,      \* the history file; size: entries its bytes would hold
    recorded,     \* what the last command that succeeded recorded (ghost)
    decidePc, decideLoc

journalVars == <<proposalFile, journal, recorded, decidePc, decideLoc>>

Entry == [change : Offered, decision : {"accept", "reject"}]

Requests == [change : Offered \cup {"unknown"},
             decision : {"accept", "reject"}]

Histories == UNION {[1..n -> Entry] : n \in 0..MaxEntries}

JournalTypeOK ==
    /\ proposalFile \in {"absent", "empty", "whole"}
    /\ journal.file \in {"absent", "empty", "mixed", "whole"}
    /\ journal.size \in 0..MaxEntries
    /\ journal.entries \in Histories /\ recorded \in Histories
    /\ decidePc \in [Deciders ->
           {"idle", "proposal", "journal", "truncate", "write"}]
    /\ \A d \in Deciders :
           /\ decideLoc[d].entries \in Histories
           /\ decideLoc[d].overtaken \in BOOLEAN

NotDeciding ==
    [entry |-> [change |-> "none", decision |-> "none"],
     entries |-> <<>>, overtaken |-> FALSE]

JournalInit ==
    /\ proposalFile = "absent"
    /\ journal = [file |-> "absent", entries |-> <<>>, size |-> 0]
    /\ recorded = <<>>
    /\ decidePc = [d \in Deciders |-> "idle"]
    /\ decideLoc = [d \in Deciders |-> NotDeciding]

DecideStep(d, from, to) ==
    /\ decidePc[d] = from
    /\ decidePc' = [decidePc EXCEPT ![d] = to]

-----------------------------------------------------------------------------
(* lexical *)

WriteProposalFile ==
    /\ proposalFile' = IF proposalFile = "empty" THEN "whole" ELSE "empty"
    /\ UNCHANGED <<journal, recorded, decidePc, decideLoc>>

-----------------------------------------------------------------------------
(* accept and reject *)

StartDecision(d, entry) ==
    /\ DecideStep(d, "idle", "proposal")
    /\ decideLoc' = [decideLoc EXCEPT ![d].entry = entry]
    /\ UNCHANGED <<proposalFile, journal, recorded>>

\* A file that is cut or missing, or that has no such change, is an error.
ReadProposalFile(d) ==
    /\ proposalFile = "whole"
    /\ decideLoc[d].entry.change \in Offered
    /\ DecideStep(d, "proposal", "journal")
    /\ UNCHANGED <<proposalFile, journal, recorded, decideLoc>>

\* Mutant: a file that does not parse is taken for one that is not there.
ReadableOrNew(file) == TRUE

\* _read_json_document: neither the cut nor the mixed text is JSON.
Readable(file) == file \in {"absent", "whole"}

\* The entry joins the history in memory; the review that results is applied
\* to the proposal as a test.
ReadJournal(d) ==
    /\ Readable(journal.file)
    /\ DecideStep(d, "journal", "truncate")
    /\ Len(journal.entries) < MaxEntries
    /\ decideLoc' = [decideLoc EXCEPT
           ![d].entries = Append(journal.entries, decideLoc[d].entry)]
    /\ UNCHANGED <<proposalFile, journal, recorded>>

\* The other commands that hold a history are overtaken (ghost).
Overtaking(d) ==
    [e \in Deciders |->
        [decideLoc[e] EXCEPT
            !.overtaken = @ \/ (e # d /\ decidePc[e] \in {"truncate", "write"})]]

TruncateJournal(d) ==
    /\ DecideStep(d, "truncate", "write")
    /\ journal' = [file |-> "empty", entries |-> <<>>, size |-> 0]
    /\ decideLoc' = Overtaking(d)
    /\ UNCHANGED <<proposalFile, recorded>>

\* A shorter text leaves the tail of a longer one that another command wrote
\* in between.  Both decisions have six letters: equal numbers of entries
\* have equal lengths.
Overwritten(entries) ==
    IF journal.size <= Len(entries)
    THEN [file |-> "whole", entries |-> entries, size |-> Len(entries)]
    ELSE [file |-> "mixed", entries |-> <<>>, size |-> journal.size]

WriteJournal(d) ==
    /\ DecideStep(d, "write", "idle")
    /\ journal' = Overwritten(decideLoc[d].entries)
    /\ recorded' = decideLoc[d].entries
    /\ decideLoc' = [Overtaking(d) EXCEPT ![d] = NotDeciding]
    /\ UNCHANGED proposalFile

\* An error before the write, or a crash.
DecisionEnds(d) ==
    /\ decidePc[d] # "idle"
    /\ decidePc' = [decidePc EXCEPT ![d] = "idle"]
    /\ decideLoc' = [decideLoc EXCEPT ![d] = NotDeciding]
    /\ UNCHANGED <<proposalFile, journal, recorded>>

JournalNext ==
    \/ WriteProposalFile
    \/ \E d \in Deciders :
        \/ \E e \in Requests : StartDecision(d, e)
        \/ ReadProposalFile(d) \/ ReadJournal(d)
        \/ TruncateJournal(d) \/ WriteJournal(d) \/ DecisionEnds(d)

JournalSpec == JournalInit /\ [][JournalNext]_journalVars

-----------------------------------------------------------------------------
(* Properties *)

\* A decision that was reported as recorded is dropped only by a command that
\* had read the history before: one that starts later goes on from it or,
\* after a crash or a mixed write, refuses (_record_decision).
OnlyOverlapDrops ==
    \A d \in Deciders : decidePc[d] \in {"truncate", "write"} =>
        \/ decideLoc[d].overtaken
        \/ decideLoc[d].entries = Append(recorded, decideLoc[d].entry)
=============================================================================
