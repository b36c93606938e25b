------------------------------- MODULE Beacon -------------------------------
(***************************************************************************)
(* The research beacon: investigations stored as snapshots in two steps,   *)
(* proposals stored once and for all, decisions about them appended to a   *)
(* log.  Commands of several processes interleave and may be killed; the   *)
(* bundled policy changes between or during commands when the program is   *)
(* upgraded.                                                               *)
(***************************************************************************)
EXTENDS Integers, FiniteSets, Sequences

CONSTANTS
    Clerks,         \* processes that run beacon commands
    Summaries,      \* what triggers and their snapshots say
    TriggerTypes,
    Drafts,         \* proposals: kind, impact and evidence
    Policies,       \* versions of the policy: allowed and blocked categories
    MaxDecisions    \* bound on the length of the decision log

\* The id of a trigger is the digest of its type and its summary.
Triggers == [type : TriggerTypes, summary : Summaries]

Tiers == 1 .. 5

MandatoryBlocked == {"auto_merge"}

ASSUME BeaconAssumption ==
    /\ \A d \in Drafts : /\ d.highImpact \in BOOLEAN
                         /\ \A item \in d.evidence : item.tier \in Tiers
    /\ \A p \in Policies : /\ p.allowed # {} /\ p.blocked # {}
                           /\ p.allowed \cap p.blocked = {}
    /\ MaxDecisions \in Nat

VARIABLES
    snapshots, records,   \* files: contents, and investigations that cite one
    proposals,            \* what proposals/<id>.json holds for each draft
    policy,
    decisions,            \* the lines of decisions.jsonl, each with the policies it
                          \* was taken under (ghost)
    clerk                 \* the command that each process runs

beaconVars == <<snapshots, records, proposals, policy, decisions, clerk>>

NotStored == [stored |-> FALSE, blocked |-> FALSE, allowed |-> FALSE]

IdleClerk == [pc |-> "idle"]

BeaconTypeOK ==
    /\ snapshots \subseteq Summaries /\ records \subseteq Triggers
    /\ proposals \in [Drafts -> [stored : BOOLEAN, blocked : BOOLEAN, allowed : BOOLEAN]]
    /\ policy \in Policies
    /\ Len(decisions) <= MaxDecisions
    /\ \A c \in Clerks : clerk[c].pc \in
           {"idle", "content", "record", "ran", "allowed", "blocked", "append"}

BeaconInit ==
    /\ snapshots = {} /\ records = {}
    /\ proposals = [d \in Drafts |-> NotStored]
    /\ policy \in Policies
    /\ decisions = <<>>
    /\ clerk = [c \in Clerks |-> IdleClerk]

-----------------------------------------------------------------------------
(* Investigations *)

Step(c, from, new) == clerk[c].pc = from /\ clerk' = [clerk EXCEPT ![c] = new]

StartRun(c, trigger) ==
    /\ Step(c, "idle", [pc |-> "content", trigger |-> trigger])
    /\ UNCHANGED <<snapshots, records, proposals, policy, decisions>>

\* Mutant: words that are stored already need no new record.
SnapshotIfNew(c) ==
    /\ Step(c, "content", [clerk[c] EXCEPT !.pc =
           IF clerk[c].trigger.summary \in snapshots THEN "ran" ELSE "record"])
    /\ snapshots' = snapshots \cup {clerk[c].trigger.summary}
    /\ UNCHANGED <<records, proposals, policy, decisions>>

\* Written once: a file that is there already has the same bytes.
WriteSnapshot(c) ==
    /\ Step(c, "content", [clerk[c] EXCEPT !.pc = "record"])
    /\ snapshots' = snapshots \cup {clerk[c].trigger.summary}
    /\ UNCHANGED <<records, proposals, policy, decisions>>

WriteRecord(c) ==
    /\ Step(c, "record", [clerk[c] EXCEPT !.pc = "ran"])
    /\ records' = records \cup {clerk[c].trigger}
    /\ UNCHANGED <<snapshots, proposals, policy, decisions>>

EndRun(c) ==
    /\ Step(c, "ran", IdleClerk)
    /\ UNCHANGED <<snapshots, records, proposals, policy, decisions>>

\* beacon report and beacon sources: the records, each with its content.
Reportable(trigger) ==
    trigger \in records /\ trigger.summary \in snapshots

-----------------------------------------------------------------------------
(* Proposals *)

\* high_impact_sufficient: independence is having distinct URLs.
SufficientEvidence(d) ==
    IF d.highImpact
    THEN \/ \E item \in d.evidence : item.tier = 1
         \/ Cardinality({item.url : item \in {i \in d.evidence : i.tier \in {2, 3}}}) >= 2
    ELSE \E item \in d.evidence : item.tier \in 1 .. 4

\* Mutant: a category that is not blocked is allowed.
AllowedByDefault(category, allowed, blocked) ==
    IF category \in blocked THEN "block" ELSE "allow"

\* Blocked wins, then allowed; a category in neither set is not allowed.
Decision(category, allowed, blocked) ==
    IF category \in blocked THEN "block"
    ELSE IF category \in allowed THEN "allow" ELSE "unknown"

LoadableBlocked(p) == MandatoryBlocked \subseteq p.blocked

\* A proposal is created with enough evidence and stored as it is, or reviewed
\* first.  Its id leaves the review out: the file that is there first stays, and
\* storing a different one under that id is an error.
StoreProposal(d, reviewed) ==
    /\ SufficientEvidence(d)
    /\ reviewed => LoadableBlocked(policy)
    /\ proposals' = [proposals EXCEPT ![d] =
           IF @.stored THEN @
           ELSE [stored |-> TRUE,
                 blocked |-> reviewed /\ d.category \in policy.blocked,
                 allowed |-> reviewed
                     /\ Decision(d.category, policy.allowed, policy.blocked) = "allow"]]
    /\ UNCHANGED <<snapshots, records, policy, decisions, clerk>>

UpgradePolicy ==
    /\ policy' \in Policies
    /\ UNCHANGED <<snapshots, records, proposals, decisions, clerk>>

StartRuling(c, d, decision) ==
    /\ proposals[d].stored
    /\ Step(c, "idle",
           [pc |-> IF decision = "approve" THEN "allowed" ELSE "append",
            draft |-> d, decision |-> decision, allowed |-> {}, under |-> {}])
    /\ UNCHANGED <<snapshots, records, proposals, policy, decisions>>

\* approve reads the two policy files one after the other.
ReadAllowed(c) ==
    /\ Step(c, "allowed", [clerk[c] EXCEPT !.pc = "blocked", !.allowed = policy.allowed,
                                           !.under = {policy}])
    /\ UNCHANGED <<snapshots, records, proposals, policy, decisions>>

\* A blocked list without the mandatory actions is a configuration error.  The
\* flag that the stored review left is looked at as well as the new review.
ReadBlocked(c) ==
    LET d == clerk[c].draft
        passes == /\ LoadableBlocked(policy)
                  /\ ~proposals[d].blocked
                  /\ Decision(d.category, clerk[c].allowed, policy.blocked) = "allow"
    IN /\ Step(c, "blocked",
               IF passes THEN [clerk[c] EXCEPT !.pc = "append", !.under = @ \cup {policy}]
               ELSE IdleClerk)
       /\ UNCHANGED <<snapshots, records, proposals, policy, decisions>>

AppendDecision(c) ==
    /\ Len(decisions) < MaxDecisions
    /\ Step(c, "append", IdleClerk)
    /\ decisions' = Append(decisions,
           [draft |-> clerk[c].draft, decision |-> clerk[c].decision,
            under |-> clerk[c].under])
    /\ UNCHANGED <<snapshots, records, proposals, policy>>

KillClerk(c) ==
    /\ clerk[c].pc # "idle" /\ clerk' = [clerk EXCEPT ![c] = IdleClerk]
    /\ UNCHANGED <<snapshots, records, proposals, policy, decisions>>

-----------------------------------------------------------------------------
(* Specification *)

BeaconNext ==
    \/ \E c \in Clerks :
           \/ \E t \in Triggers : StartRun(c, t)
           \/ WriteSnapshot(c)
           \/ WriteRecord(c)
           \/ EndRun(c)
           \/ \E d \in Drafts, decision \in {"approve", "deny"} :
                  StartRuling(c, d, decision)
           \/ ReadAllowed(c)
           \/ ReadBlocked(c)
           \/ AppendDecision(c)
           \/ KillClerk(c)
    \/ \E d \in Drafts, reviewed \in BOOLEAN : StoreProposal(d, reviewed)
    \/ UpgradePolicy

BeaconSpec == BeaconInit /\ [][BeaconNext]_beaconVars

-----------------------------------------------------------------------------
(* Properties *)

\* Reports are traceable: every investigation on record has its snapshot, and
\* one that beacon run has answered for is found by beacon report - whoever
\* else stores the same words, and wherever a command was killed.
RanIsReported ==
    /\ \A t \in records : Reportable(t)
    /\ \A c \in Clerks : clerk[c].pc = "ran" => Reportable(clerk[c].trigger)

\* An approval in the log stands on enough evidence, on a stored proposal that
\* carries no block - then or later - and on one policy that allows it, although
\* approve may read the two halves of its policy from different versions.
ApprovalsJustified == \A i \in DOMAIN decisions :
    decisions[i].decision = "approve" =>
        LET d == decisions[i].draft
        IN /\ SufficientEvidence(d)
           /\ proposals[d].stored /\ ~proposals[d].blocked
           /\ \E p \in decisions[i].under : d.category \in p.allowed \ p.blocked

=============================================================================
