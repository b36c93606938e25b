--------------------------- MODULE ServicesProofs ---------------------------
(***************************************************************************)
(* Proofs about the rewrite for every number of fact anchors and every     *)
(* value of the two limits, about the import for any kinds, and about the  *)
(* instance in which they and the research call are checked together.      *)
(*                                                                         *)
(* The bound on the requests is not inductive: it must be known how many   *)
(* of them each repair and each attempt has used.  Spent counts them by    *)
(* the step the command is at, and Output says where the file may have     *)
(* been touched and for which text.  Of an import it must be known that    *)
(* the bytes it has are those that were measured and identified.  A        *)
(* research call stays within its attempts because it waits for another    *)
(* answer only while it has one left.                                      *)
(***************************************************************************)
EXTENDS MCServices, TLAPS

\* The requests used up: MaxRetries for each repair behind, one for each
\* attempt behind, and one for the attempt that is waited for.
Spent ==
    /\ pc \in {"start", "post"} => posts <= repairs * MaxRetries + attempt
    /\ Requested => posts <= repairs * MaxRetries + attempt + 1
    /\ posts <= (repairs + 1) * MaxRetries

\* The file is touched behind an acceptance only.
Output ==
    /\ pc \in {"truncate", "write", "report"} => Acceptable(candidate)
    /\ output.file # "old" =>
         /\ pc \in {"write", "report", "end"}
         /\ Acceptable(candidate)
    /\ pc # "end" => outcome = "running"
    /\ outcome \in {"input", "drift", "llm"} => output.file = "old"

IInv == TypeOK /\ Spent /\ Output

LEMMA NextRepair ==
    ASSUME NEW r \in Nat, NEW m \in Nat
    PROVE  /\ (r + 1) * m \in Nat
           /\ r * m \in Nat
           /\ (r + 1) * m = r * m + m
  OBVIOUS

LEMMA ScrubbedType ==
    ASSUME NEW c \in Candidates
    PROVE  Scrubbed(c) \in Texts
  <1>1. c \in Texts /\ (c.scrubbed => c.matched # 0)
    BY DEF Candidates
  <1>2. (IF c.scrubbed THEN c.matched - 1 ELSE c.matched) \in 0..Anchors
    BY <1>1, RewriteAssumption DEF Texts
  <1> QED
    BY <1>1, <1>2 DEF Scrubbed, Texts

LEMMA InitIInv == Init => IInv
  <1> SUFFICES ASSUME Init PROVE IInv
    OBVIOUS
  <1>1. NoText \in Candidates /\ NoText \in Texts
    BY RewriteAssumption DEF NoText, Candidates, Texts
  <1>2. TypeOK
    BY <1>1, RewriteAssumption DEF Init, TypeOK, Outcomes
  <1>3. Spent
    BY RewriteAssumption DEF Init, Spent, Requested
  <1>4. Output
    BY DEF Init, Output
  <1> QED
    BY <1>2, <1>3, <1>4 DEF IInv

LEMMA StepKeepsIInv == IInv /\ [Next]_vars => IInv'
  <1> SUFFICES ASSUME IInv, [Next]_vars PROVE IInv'
    OBVIOUS
  <1> USE RewriteAssumption DEF Requested
  <1>t. TypeOK /\ Spent /\ Output
    BY DEF IInv
  <1>n. /\ repairs \in Nat /\ attempt \in Nat /\ posts \in Nat
        /\ MaxRetries \in Nat
    BY <1>t DEF TypeOK
  <1>m. /\ (repairs + 1) * MaxRetries = repairs * MaxRetries + MaxRetries
        /\ (repairs + 1) * MaxRetries \in Nat
        /\ repairs * MaxRetries \in Nat
    BY <1>n, NextRepair
  <1>1. CASE Start
    BY <1>t, <1>1 DEF Start, End, IInv, TypeOK, Outcomes, Spent, Output,
                      Acceptable
  <1>2. CASE Post
    <2>1. posts' <= repairs' * MaxRetries + attempt' + 1
      BY <1>t, <1>n, <1>m, <1>2 DEF Post, Spent
    <2>2. attempt' + 1 <= MaxRetries
      BY <1>t, <1>2 DEF Post, TypeOK
    <2>3. posts' <= (repairs' + 1) * MaxRetries
      BY <1>n, <1>m, <1>2, <2>1, <2>2 DEF Post
    <2> QED
      BY <1>t, <1>2, <2>1, <2>3 DEF Post, IInv, TypeOK, Spent, Output
  <1>3. CASE Retryable
    <2>1. TypeOK'
      BY <1>t, <1>3 DEF Retryable, RetriesLeft, End, TypeOK, Outcomes
    <2>2. Spent'
      BY <1>t, <1>n, <1>m, <1>3 DEF Retryable, End, Spent
    <2>3. Output'
      BY <1>t, <1>3 DEF Retryable, End, Output
    <2> QED
      BY <2>1, <2>2, <2>3 DEF IInv
  <1>4. CASE Refused
    BY <1>t, <1>4 DEF Refused, End, IInv, TypeOK, Outcomes, Spent, Output
  <1>5. CASE Answered
    <2>1. TypeOK'
      BY <1>t, <1>5 DEF Answered, TypeOK
    <2>2. Spent'
      BY <1>t, <1>5 DEF Answered, Spent
    <2>3. Output'
      BY <1>t, <1>5 DEF Answered, Output
    <2> QED
      BY <2>1, <2>2, <2>3 DEF IInv
  <1>6. CASE Decide
    <2>1. CASE Decision = "accept"
      <3>1. Acceptable(candidate)
        BY <2>1 DEF Decision
      <3>2. /\ pc = "decide" /\ pc' = "truncate"
            /\ UNCHANGED <<repairs, outcome, attempt, posts, candidate, output>>
        BY <1>6, <2>1 DEF Decide
      <3>3. Output'
        BY <1>t, <3>1, <3>2 DEF Output, Acceptable, Preserved, HasDrift,
                                MinorOmission, Omissions
      <3> QED
        BY <1>t, <3>2, <3>3 DEF IInv, TypeOK, Spent
    <2>2. CASE Decision = "fail"
      <3>1. /\ pc = "decide" /\ pc' = "end" /\ outcome' = "drift"
            /\ UNCHANGED <<repairs, attempt, posts, candidate, output>>
        BY <1>6, <2>2 DEF Decide, End
      <3> QED
        BY <1>t, <3>1 DEF IInv, TypeOK, Outcomes, Spent, Output
    <2>3. CASE Decision = "repair"
      <3>1. /\ pc = "decide" /\ pc' = "post" /\ repairs' = repairs + 1
            /\ UNCHANGED <<outcome, attempt, posts, candidate, output>>
        BY <1>6, <2>3 DEF Decide
      <3>2. repairs < MaxRepairs
        BY <1>n, <2>3 DEF Decision
      <3>3. TypeOK'
        BY <1>t, <1>n, <3>1, <3>2 DEF TypeOK
      <3>4. /\ (repairs' + 1) * MaxRetries = repairs' * MaxRetries + MaxRetries
            /\ repairs' * MaxRetries \in Nat
        BY <1>n, <3>1, NextRepair
      <3>5. posts' <= repairs' * MaxRetries
        BY <1>t, <3>1 DEF Spent
      <3>6. Spent'
        BY <1>n, <3>1, <3>4, <3>5 DEF Spent
      <3> QED
        BY <1>t, <3>1, <3>3, <3>6 DEF IInv, Output
    <2> QED
      BY <1>6, <2>1, <2>2, <2>3 DEF Decide
  <1>7. CASE WriteRefused
    BY <1>t, <1>7 DEF WriteRefused, End, IInv, TypeOK, Outcomes, Spent, Output
  <1>8. CASE Truncate
    BY <1>t, <1>8 DEF Truncate, IInv, TypeOK, Spent, Output
  <1>9. CASE Write
    <2>1. Scrubbed(candidate) \in Texts
      BY <1>t, ScrubbedType DEF TypeOK
    <2> QED
      BY <1>t, <1>9, <2>1 DEF Write, IInv, TypeOK, Spent, Output
  <1>10. CASE Report
    BY <1>t, <1>10 DEF Report, End, IInv, TypeOK, Outcomes, Spent, Output
  <1>11. CASE Killed
    BY <1>t, <1>11 DEF Killed, End, IInv, TypeOK, Outcomes, Spent, Output
  <1>12. CASE Trickles
    BY <1>t, <1>12 DEF Trickles, IInv, TypeOK, Spent, Output
  <1>13. CASE UNCHANGED vars
    BY <1>t, <1>13 DEF vars, IInv, TypeOK, Spent, Output
  <1> QED
    BY <1>1, <1>2, <1>3, <1>4, <1>5, <1>6, <1>7, <1>8, <1>9, <1>10, <1>11,
       <1>12, <1>13 DEF Next, Running

\* The inductive invariant: every request is accounted for, and the output
\* file is touched behind an acceptance only (rewrite).
THEOREM RewriteInvariance == Spec => []IInv
  <1>1. Init => IInv
    BY InitIInv
  <1>2. IInv /\ [Next]_vars => IInv'
    BY StepKeepsIInv
  <1> QED
    BY <1>1, <1>2, PTL DEF Spec, Safety

\* Every variable keeps its type, with any limits.
THEOREM RewriteTypeCorrect == Spec => []TypeOK
  BY RewriteInvariance, PTL DEF IInv

LEMMA BoundedCalls == IInv => CallsBounded
  <1> SUFFICES ASSUME IInv PROVE CallsBounded
    OBVIOUS
  <1>1. /\ repairs \in Nat /\ posts \in Nat /\ repairs <= MaxRepairs
        /\ posts <= (repairs + 1) * MaxRetries
    BY RewriteAssumption DEF IInv, TypeOK, Spent
  <1>2. (repairs + 1) * MaxRetries <= (MaxRepairs + 1) * MaxRetries
    BY <1>1, RewriteAssumption
  <1> QED
    BY <1>1, <1>2, RewriteAssumption DEF CallsBounded

\* The retries nested in the repairs send at most the product of the limits,
\* whatever the service answers (rewrite, OpenAiLlmClient.rewrite).
THEOREM RequestsAreBounded == Spec => []CallsBounded
  BY RewriteInvariance, BoundedCalls, PTL

LEMMA FaithfulOutput == IInv => OutputOnlyForFaithful
  <1> SUFFICES ASSUME IInv PROVE OutputOnlyForFaithful
    OBVIOUS
  <1>1. Output /\ candidate \in Texts
    BY DEF IInv, TypeOK, Candidates
  <1>2. candidate.matched \in Nat
    BY <1>1, RewriteAssumption DEF Texts
  <1>3. ASSUME Acceptable(candidate)
        PROVE  /\ candidate.matched >= Anchors - 1
               /\ 20 * candidate.matched >= 17 * Anchors
               /\ ~candidate.addition /\ ~candidate.contradiction
    BY <1>2, <1>3, RewriteAssumption
       DEF Acceptable, Preserved, HasDrift, MinorOmission, Omissions
  <1> QED
    BY <1>1, <1>3 DEF Output, OutputOnlyForFaithful

\* Only a text that was accepted replaces the output file, for every number
\* of anchors (decide_repair, write_clean_text).
THEOREM OnlyFaithfulIsWritten == Spec => []OutputOnlyForFaithful
  BY RewriteInvariance, FaithfulOutput, PTL

-----------------------------------------------------------------------------
(* The import *)

\* Bytes that were measured, identified and handed to a worker.
Passed ==
    /\ ~import.raw.large
    /\ PrecheckFindings(import.declared, import.raw.magic) = {}

WorkerStates ==
    [state : {"none", "running", "written", "exited"},
     answer : {"none", "result", "long", "garbage", "nonzero"},
     findings : SUBSET Findings, document : BOOLEAN]

\* A worker writes findings only; a document, and the bytes that it is stored
\* with, are in the import once its worker has answered.
ImportInv ==
    /\ ImportTypeOK
    /\ worker \in WorkerStates
    /\ importPc \in {"spawn", "wait"} => PrecheckFindings(import.declared, import.raw.magic) = {}
    /\ importPc = "wait" => Passed
    /\ import.document => importPc = "decide" /\ Passed
    /\ OnlyCheckedKept

LEMMA ImportStarts == ImportInit => ImportInv
BY DEF ImportInit, ImportInv, WorkerStates, ImportTypeOK, NoWorker, NoImport, OnlyCheckedKept,
       ImportCommands, Kinds, Findings

\* What passed the first checks is of the kind that its name says.
LEMMA PassedIsOfItsKind ==
    ASSUME Passed
    PROVE  /\ import.raw.magic \in TextKinds => import.declared \in TextKinds \cup {"unknown"}
           /\ import.raw.magic \in {"pdf", "unknown"} => import.declared = import.raw.magic
<1>1. IdentityFindings(import.declared, import.raw.magic) = {}
  BY DEF Passed, PrecheckFindings
<1>2. ~ClearMismatch(import.declared, import.raw.magic) /\ import.raw.magic # "unknown"
  BY <1>1 DEF IdentityFindings
<1>3. ResolveKind(import.declared, import.raw.magic) \in Supported
      \/ import.declared = "legacy_doc"
  BY <1>2 DEF Passed, PrecheckFindings
<1>4. import.raw.magic = "pdf" => import.declared # "unknown"
  BY <1>3 DEF ResolveKind, TextKinds, Supported
<1> QED
  BY <1>2, <1>4 DEF ClearMismatch, MagicKind, TextKinds

\* A status that lets an ingest go on leaves notes only.
LEMMA IngestibleNotes ==
    ASSUME NEW findings \in SUBSET Findings, Ingestible(Status(findings))
    PROVE  findings \subseteq {"note"}
BY DEF Ingestible, Status, Findings

LEMMA DecideKeeps ==
    ASSUME ImportInv, DecideImport
    PROVE  ImportInv'
<1>1. OnlyCheckedKept'
  <2>1. CASE ~Keeps
    BY <2>1 DEF DecideImport, ImportInv, OnlyCheckedKept
  <2>2. CASE Keeps
    <3>1. kept' = import /\ Passed
      BY <2>2 DEF DecideImport, Keeps, ImportInv
    <3>2. import.command = "ingest" => import.findings \subseteq {"note"}
      BY <2>2, IngestibleNotes DEF Keeps, ImportInv, ImportTypeOK
    <3> QED
      BY <3>1, <3>2, PassedIsOfItsKind DEF OnlyCheckedKept, Passed
  <2> QED
    BY <2>1, <2>2
<1> QED
  BY <1>1 DEF DecideImport, ImportStep, ImportInv, ImportTypeOK, NoImport, Passed,
              ImportCommands, Kinds

\* The answer of the worker, or none, is taken over by the import that waits.
LEMMA ReceiveKeeps ==
    ASSUME ImportInv, NEW findings \in SUBSET Findings, NEW document \in BOOLEAN,
           Receive(findings, document)
    PROVE  ImportInv'
BY DEF ImportInv, ImportTypeOK, WorkerStates, Receive, ImportStep, NoWorker, Passed, OnlyCheckedKept

LEMMA SupervisedKeeps ==
    ASSUME ImportInv, Supervised
    PROVE  ImportInv'
<1>1. CASE MeasureFile
  BY <1>1 DEF MeasureFile, ImportStep, ImportInv, ImportTypeOK, Passed, OnlyCheckedKept
<1>2. CASE ReadHead
  <2>1. {"limit"} \cup IdentityFindings(import.declared, disk.magic) \subseteq Findings
    BY DEF IdentityFindings, Findings
  <2> QED
    BY <1>2, <2>1 DEF ReadHead, ImportStep, ImportInv, ImportTypeOK, Passed, OnlyCheckedKept
<1>3. CASE ReadFile
  <2>1. {"limit"} \cup IdentityFindings(import.declared, disk.magic) \subseteq Findings
    BY DEF IdentityFindings, Findings
  <2> QED
    BY <1>3, <2>1 DEF ReadFile, ImportInv, ImportTypeOK, Passed, OnlyCheckedKept
<1>4. CASE Identify
  <2>1. PrecheckFindings(import.declared, import.raw.magic) \subseteq Findings
    BY DEF PrecheckFindings, IdentityFindings, Findings
  <2> QED
    BY <1>4, <2>1
       DEF Identify, Identified, ImportInv, ImportTypeOK, Passed, OnlyCheckedKept
<1>5. CASE RefuseLarge
  BY <1>5 DEF RefuseLarge, ImportStep, ImportInv, ImportTypeOK, Passed, OnlyCheckedKept, Findings
<1>6. CASE SpawnWorker
  BY <1>6 DEF SpawnWorker, ImportStep, TooLarge, ImportInv, ImportTypeOK, WorkerStates, NoWorker, Passed,
              OnlyCheckedKept
<1>7. CASE TimeoutWorker \/ CannotSpawn
  <2>1. Receive({"error"}, FALSE)
    BY <1>7 DEF TimeoutWorker, CannotSpawn
  <2>2. {"error"} \in SUBSET Findings
    BY DEF Findings
  <2> QED
    BY <2>1, <2>2, ReceiveKeeps
<1>8. CASE Collect
  <2>1. {"error"} \in SUBSET Findings /\ {"limit"} \in SUBSET Findings
        /\ worker.findings \in SUBSET Findings /\ worker.document \in BOOLEAN
    BY DEF ImportInv, WorkerStates, Findings
  <2>2. CASE worker.answer \in {"nonzero", "garbage"}
    BY <1>8, <2>1, <2>2, ReceiveKeeps DEF Collect
  <2>3. CASE worker.answer = "long"
    BY <1>8, <2>1, <2>3, ReceiveKeeps DEF Collect
  <2>4. CASE worker.answer \notin {"nonzero", "garbage", "long"}
    <3>1. Receive(worker.findings, worker.document)
      BY <1>8, <2>4 DEF Collect
    <3> QED
      BY <3>1, <2>1, ReceiveKeeps
  <2> QED
    BY <2>2, <2>3, <2>4
<1>9. CASE ReadFails
  BY <1>9 DEF ReadFails, ImportInv, ImportTypeOK, NoImport, Passed, OnlyCheckedKept,
              ImportCommands, Kinds
<1> QED
  BY <1>1, <1>2, <1>3, <1>4, <1>5, <1>6, <1>7, <1>8, <1>9, DecideKeeps DEF Supervised

LEMMA WorkerKeeps ==
    ASSUME ImportInv,
           WorkerParses \/ WorkerFails \/ WorkerGarbles \/ WorkerExits \/ WorkerDies
    PROVE  ImportInv'
<1>1. ASSUME NEW answer \in {"result", "long", "garbage"}, NEW findings \in SUBSET Findings, NEW document \in BOOLEAN,
             WorkerWrites(answer, findings, document)
      PROVE  ImportInv'
  BY <1>1 DEF WorkerWrites, WorkerStates, ImportInv, ImportTypeOK, Passed, OnlyCheckedKept
<1>2. CASE WorkerParses
  <2>1. PICK parsed \in ParseResults : \E r \in {parsed, OverMemory(parsed)} :
            WorkerWrites("result", r.findings, r.document)
    BY <1>2 DEF WorkerParses
  <2>2. /\ parsed.findings \in SUBSET Findings /\ parsed.document \in BOOLEAN
        /\ OverMemory(parsed).findings \in SUBSET Findings
        /\ OverMemory(parsed).document \in BOOLEAN
    BY DEF ParseResults, OverMemory, Findings
  <2> QED
    BY <1>1, <2>1, <2>2
<1>3. CASE WorkerFails
  BY <1>1, <1>3 DEF WorkerFails, Findings
<1>4. CASE WorkerGarbles
  BY <1>1, <1>4 DEF WorkerGarbles, Findings
<1>5. CASE WorkerExits \/ WorkerDies
  BY <1>5 DEF WorkerExits, WorkerDies, WorkerStates, ImportInv, ImportTypeOK, Passed, OnlyCheckedKept
<1> QED
  BY <1>2, <1>3, <1>4, <1>5

LEMMA ImportKeeps == ImportInv /\ [ImportNext]_importVars => ImportInv'
<1> SUFFICES ASSUME ImportInv, [ImportNext]_importVars
             PROVE  ImportInv'
  OBVIOUS
<1>1. ASSUME NEW c \in Contents, SaveFile(c)
      PROVE  ImportInv'
  BY <1>1 DEF SaveFile, ImportInv, ImportTypeOK, Passed, OnlyCheckedKept
<1>2. ASSUME NEW c \in ImportCommands, NEW d \in Declared, StartImport(c, d)
      PROVE  ImportInv'
  BY <1>2, ImportAssumption
     DEF StartImport, ImportStep, ImportInv, ImportTypeOK, NoImport, Passed, OnlyCheckedKept
<1>3. CASE UNCHANGED importVars
  BY <1>3 DEF importVars, ImportInv, ImportTypeOK, Passed, OnlyCheckedKept
<1> QED
  BY <1>1, <1>2, <1>3, SupervisedKeeps, WorkerKeeps DEF ImportNext

\* The inductive invariant of the import: the version that is handed to a worker,
\* and later kept, is the one that was measured and identified.
THEOREM ImportInvHolds == ImportSpec => []ImportInv
BY ImportStarts, ImportKeeps, PTL DEF ImportSpec

\* Only what was itself within the limit and of its kind is stored, whatever is
\* saved meanwhile and whatever the worker does (inspect, run_worker, ingest_cmd).
THEOREM CheckedIsKept == ImportSpec => []OnlyCheckedKept
<1>1. ImportInv => OnlyCheckedKept
  BY DEF ImportInv
<1> QED
  BY <1>1, ImportInvHolds, PTL

-----------------------------------------------------------------------------
(* The research call, and the three together *)

\* A call that may send a request has sent fewer than it may.
ResearchInv ==
    /\ settings \in Settings
    /\ call \in [state : {"idle", "attempt", "trickle", "refused", "failed", "answered"},
                 attempt : 0 .. MaxAttempts]
    /\ call.state \in {"idle", "attempt", "trickle"} => call.attempt < MaxAttempts

LEMMA ResearchStarts == ResearchInit \/ ResearchEnded => ResearchInv
<1>1. Settings # {}
  <2>1. [test |-> FALSE, live |-> FALSE, network |-> "denied", configured |-> NoModel,
         retention |-> FALSE, verified |-> {}] \in Settings
    BY DEF Settings
  <2> QED
    BY <2>1
<1> QED
  BY <1>1, ResearchAssumption DEF ResearchInit, ResearchEnded, ResearchInv

LEMMA ResearchKeeps == ResearchInv /\ [ResearchNext]_researchVars => ResearchInv'
<1> SUFFICES ASSUME ResearchInv, [ResearchNext]_researchVars PROVE ResearchInv'
  OBVIOUS
<1> USE ResearchAssumption
<1>1. CASE Research \/ ResponseTrickles
  BY <1>1 DEF Research, ResponseTrickles, ResearchInv
<1>2. ASSUME NEW response \in Responses, Request(response) PROVE ResearchInv'
  BY <1>2 DEF Request, Outcome, ResearchInv
<1>3. ASSUME NEW s \in Settings, Again(s) PROVE ResearchInv'
  BY <1>3 DEF Again, ResearchInv
<1>4. CASE UNCHANGED researchVars
  BY <1>4 DEF researchVars, ResearchInv
<1> QED
  BY <1>1, <1>2, <1>3, <1>4 DEF ResearchNext

ServicesInv == IInv /\ ImportInv /\ ResearchInv

LEMMA EndedRewrite == RewriteEnded => IInv
<1> SUFFICES ASSUME RewriteEnded PROVE IInv
  OBVIOUS
<1>1. NoText \in Candidates /\ NoText \in Texts
  BY RewriteAssumption DEF NoText, Candidates, Texts
<1>2. TypeOK
  BY <1>1, RewriteAssumption DEF RewriteEnded, TypeOK, Outcomes
<1>3. Spent
  BY RewriteAssumption DEF RewriteEnded, Spent, Requested
<1>4. Output
  BY DEF RewriteEnded, Output
<1> QED
  BY <1>2, <1>3, <1>4 DEF IInv

LEMMA ServicesStart == ServicesInit => ServicesInv
BY InitIInv, EndedRewrite, ImportStarts, ResearchStarts
   DEF ServicesInit, ImportEnded, ServicesInv

LEMMA ServicesKeep == ServicesInv /\ [ServicesNext]_servicesVars => ServicesInv'
<1> SUFFICES ASSUME ServicesInv, [ServicesNext]_servicesVars PROVE ServicesInv'
  OBVIOUS
<1>1. [Next]_vars /\ [ImportNext]_importVars /\ [ResearchNext]_researchVars
  BY DEF ServicesNext, servicesVars, vars, importVars, researchVars
<1> QED
  BY <1>1, StepKeepsIInv, ImportKeeps, ResearchKeeps DEF ServicesInv

\* Type correctness of the three; a research call sends no more requests than it
\* may (XaiResearchClient._MAX_RETRIES).
THEOREM ServicesAreTyped == ServicesSpec => []ServicesTypeOK
<1>1. ServicesInv => ServicesTypeOK
  BY DEF ServicesInv, IInv, ImportInv, ResearchInv, ResearchTypeOK, ServicesTypeOK
<1> QED
  BY <1>1, ServicesStart, ServicesKeep, PTL DEF ServicesSpec

\* The three keep their promises in the instance they are checked in as well.
THEOREM ServicesKeepPromises == ServicesSpec =>
    /\ []CallsBounded /\ []OutputOnlyForFaithful /\ []OnlyCheckedKept
<1>1. ServicesInv => CallsBounded /\ OutputOnlyForFaithful /\ OnlyCheckedKept
  BY BoundedCalls, FaithfulOutput DEF ServicesInv, ImportInv
<1> QED
  BY <1>1, ServicesStart, ServicesKeep, PTL DEF ServicesSpec

=============================================================================
