---------------------------- MODULE RewriteLoop ----------------------------
(***************************************************************************)
(* One `rewrite` command: it asks a language model for a text, compares    *)
(* the facts of the text with those of the source, asks for repairs, and   *)
(* writes the text it accepts over the output file.  The retries of the    *)
(* client nest inside the repairs.  The model service and the file system  *)
(* answer as they like, and the process may be killed at any point.        *)
(*                                                                         *)
(* Abstractions.  Of a returned text only what the decision and the writer *)
(* tell apart is kept: how many of the source's fact anchors it has a      *)
(* match for, whether a match differs (a contradiction), whether it has an *)
(* anchor of its own (an addition), and whether one of the matches stands  *)
(* in a passage that the scrubber removes before the text is written.      *)
(* audit_text reports no modification of any text, so the branch on too    *)
(* many of them is never taken.                                            *)
(***************************************************************************)
EXTENDS Integers

CONSTANTS
    Anchors,      \* number of fact anchors of the source text
    MaxRepairs,   \* max_repair_attempts
    MaxRetries    \* OpenAiLlmClient._MAX_RETRIES

ASSUME RewriteAssumption ==
    /\ Anchors \in Nat
    /\ MaxRepairs \in Nat
    /\ MaxRetries \in Nat \ {0}

VARIABLES
    pc,           \* the step the command takes next
    repairs,      \* repair_attempts
    attempt,      \* attempt of the client's request at hand
    posts,        \* history: requests sent over the network
    candidate,    \* the text last returned
    output,       \* the output file: its state and the text written
    outcome       \* how the command ended

vars == <<pc, repairs, attempt, posts, candidate, output, outcome>>

Texts ==
    [matched : 0..Anchors, contradiction : BOOLEAN, addition : BOOLEAN,
     scrubbed : BOOLEAN]

\* Without a match there is neither a contradicted nor a scrubbed one.
Candidates ==
    {c \in Texts : c.matched = 0 => ~c.contradiction /\ ~c.scrubbed}

NoText == [matched |-> 0, contradiction |-> FALSE, addition |-> FALSE,
           scrubbed |-> FALSE]

\* "input" stands for every refusal before the first request.
Outcomes == {"running", "ok", "input", "drift", "llm", "uncaught",
             "unprintable", "killed"}

TypeOK ==
    /\ pc \in {"start", "post", "wait", "trickle", "decide", "truncate",
               "write", "report", "end"}
    /\ repairs \in 0..MaxRepairs
    /\ attempt \in 0..(MaxRetries - 1)
    /\ posts \in Nat
    /\ candidate \in Candidates
    /\ output \in [file : {"old", "partial", "new"}, text : Texts]
    /\ outcome \in Outcomes

Init ==
    /\ pc = "start"
    /\ repairs = 0
    /\ attempt = 0
    /\ posts = 0
    /\ candidate = NoText
    /\ output = [file |-> "old", text |-> NoText]
    /\ outcome = "running"

End(result) ==
    /\ pc' = "end"
    /\ outcome' = result

-----------------------------------------------------------------------------
(* The request and its retries *)

\* strict_local mode, paths, configuration and lengths are checked before the
\* first request.
Start ==
    /\ pc = "start"
    /\ \/ End("input")
       \/ pc' = "post" /\ UNCHANGED outcome
    /\ UNCHANGED <<repairs, attempt, posts, candidate, output>>

Post ==
    /\ pc = "post"
    /\ posts' = posts + 1
    /\ pc' = "wait"
    /\ UNCHANGED <<repairs, attempt, candidate, output, outcome>>

\* The answer comes in, piece by piece.  The timeout that the client is built
\* with bounds the wait for each piece, not the answer: there may always be
\* another piece.
Trickles ==
    /\ pc = "wait"
    /\ pc' = "trickle"
    /\ UNCHANGED <<repairs, attempt, posts, candidate, output, outcome>>

Requested == pc \in {"wait", "trickle"}

\* Mutant: one attempt more than the limit.
RetriesIncluded == attempt <= MaxRetries - 1

RetriesLeft == attempt < MaxRetries - 1

\* A timeout, a network error or a 5xx status.  The request may have been
\* served all the same; it is sent again.
Retryable ==
    /\ Requested
    /\ IF RetriesLeft
       THEN /\ attempt' = attempt + 1
            /\ pc' = "post"
            /\ UNCHANGED outcome
       ELSE /\ End("llm")
            /\ UNCHANGED attempt
    /\ UNCHANGED <<repairs, posts, candidate, output>>

\* Another HTTP error, a 4xx status, or a body that is not as expected.
Refused ==
    /\ Requested
    /\ End("llm")
    /\ UNCHANGED <<repairs, attempt, posts, candidate, output>>

Answered ==
    /\ Requested
    /\ candidate' \in Candidates
    /\ attempt' = 0
    /\ pc' = "decide"
    /\ UNCHANGED <<repairs, posts, output, outcome>>

-----------------------------------------------------------------------------
(* The decision *)

Omissions(c) == Anchors - c.matched

\* preservation_score >= DEFAULT_PRESERVATION_THRESHOLD
Preserved(c) == 100 * c.matched >= 85 * Anchors

HasDrift(c) == Omissions(c) > 0 \/ c.addition \/ c.contradiction

MinorOmission(c) ==
    Omissions(c) <= 1 /\ ~c.addition /\ ~c.contradiction

Acceptable(c) == Preserved(c) /\ (~HasDrift(c) \/ MinorOmission(c))

\* Mutant: a text over the budget is accepted as it is.
FailOpen ==
    IF repairs >= MaxRepairs \/ Acceptable(candidate) THEN "accept"
    ELSE "repair"

\* Mutant: the budget is exceeded by one.
BudgetExceeded ==
    IF repairs > MaxRepairs THEN "fail"
    ELSE IF Acceptable(candidate) THEN "accept" ELSE "repair"

\* Mutant: the loop goes round on the same text once the budget is used up.
DecidedAgain ==
    IF repairs >= MaxRepairs THEN "again"
    ELSE IF Acceptable(candidate) THEN "accept" ELSE "repair"

\* decide_repair: the budget comes first, whatever the candidate is.
Decision ==
    IF repairs >= MaxRepairs THEN "fail"
    ELSE IF Acceptable(candidate) THEN "accept" ELSE "repair"

Decide ==
    /\ pc = "decide"
    /\ \/ /\ Decision = "accept"
          /\ pc' = "truncate"
          /\ UNCHANGED <<repairs, outcome>>
       \/ /\ Decision = "fail"
          /\ End("drift")
          /\ UNCHANGED repairs
       \/ /\ Decision = "repair"
          /\ repairs' = repairs + 1
          /\ pc' = "post"
          /\ UNCHANGED outcome
    /\ UNCHANGED <<attempt, posts, candidate, output>>

-----------------------------------------------------------------------------
(* write_clean_text *)

\* The directory cannot be made or the file not opened; rewrite_cmd has no
\* handler for FileIOError at this point.
WriteRefused ==
    /\ pc \in {"truncate", "write"}
    /\ End("uncaught")
    /\ UNCHANGED <<repairs, attempt, posts, candidate, output>>

Truncate ==
    /\ pc = "truncate"
    /\ output' = [output EXCEPT !.file = "partial"]
    /\ pc' = "write"
    /\ UNCHANGED <<repairs, attempt, posts, candidate, outcome>>

\* scrub_output removes tags, wrappers and fences with all they contain.
Scrubbed(c) ==
    [c EXCEPT !.matched = IF c.scrubbed THEN @ - 1 ELSE @,
              !.scrubbed = FALSE]

\* The scrubbed text is written; it is not compared with the source again.
Write ==
    /\ pc = "write"
    /\ output' = [file |-> "new", text |-> Scrubbed(candidate)]
    /\ pc' = "report"
    /\ UNCHANGED <<repairs, attempt, posts, candidate, outcome>>

\* With --print the file is read back, and refused when it is blank.
Report ==
    /\ pc = "report"
    /\ \E result \in {"ok", "unprintable"} : End(result)
    /\ UNCHANGED <<repairs, attempt, posts, candidate, output>>

-----------------------------------------------------------------------------
Killed ==
    /\ pc # "end"
    /\ End("killed")
    /\ UNCHANGED <<repairs, attempt, posts, candidate, output>>

Running ==
    \/ Start \/ Post \/ Retryable \/ Refused \/ Answered
    \/ Decide \/ WriteRefused \/ Truncate \/ Write \/ Report

Next == Running \/ Trickles \/ Killed

Safety == Init /\ [][Next]_vars

\* The process is scheduled, and a wait in which nothing comes in is ended by
\* the timeout of the client.  Nothing is assumed about which answer it is, and
\* nothing ends an answer that keeps coming in.
RewriteFairness == WF_vars(pc # "trickle" /\ Running)

Spec == Safety /\ RewriteFairness

-----------------------------------------------------------------------------
(* Properties *)

\* The retries nest in the repairs: whatever the service answers, and
\* whether or not it served the requests that timed out, one command sends no
\* more requests than the product of the two limits (rewrite).
CallsBounded == posts <= (MaxRepairs + 1) * MaxRetries

\* The command ends, with one outcome, or hangs for ever in the reading of one
\* answer that never stops coming in: refused answers, timeouts and drifted
\* texts in any mixture use up one of the two budgets (rewrite, decide_repair).
Terminates == <>(pc = "end") \/ <>[](pc = "trickle")

\* The file that was there before is touched only for a text whose facts, as
\* it was returned, are those of the source but for one omission, and only
\* within the repair budget.  A command that ended in an error of the service
\* or in drift leaves it alone (decide_repair must not be fail-open).
OutputOnlyForFaithful ==
    /\ output.file # "old" =>
         /\ candidate.matched >= Anchors - 1
         /\ 20 * candidate.matched >= 17 * Anchors
         /\ ~candidate.addition /\ ~candidate.contradiction
    /\ outcome \in {"input", "drift", "llm"} => output.file = "old"

-----------------------------------------------------------------------------
(* What the documentation says and the code does not do *)

\* RewriteQualityError: "Raised when rewrite output cannot satisfy the
\* fact-preservation contract."  A command that ends in drift ends with a text
\* that drifted.
DriftIsDrift == outcome = "drift" => ~Acceptable(candidate)

\* SPEC-001 lists as an error "Unscrubbable metadata if output cannot be made
\* clean without losing content."  A command that ends well has written every
\* fact that the accepted text preserved.
ScrubKeepsFacts ==
    outcome = "ok" => Omissions(output.text) <= Omissions(candidate)
=============================================================================
