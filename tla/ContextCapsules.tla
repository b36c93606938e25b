-------------------------- MODULE ContextCapsules --------------------------
(***************************************************************************)
(* context preview and context validate: a capsule is a projection of one  *)
(* block of a source package, of the revision its document has in the      *)
(* project at that time, and of what the package says is to be protected,  *)
(* each list cut to the limits of the policy.  Its id is the digest of all *)
(* the rest.  The capsule is printed; the file it is kept in is the user's *)
(* and may change before it is validated.                                  *)
(*                                                                         *)
(* A digest is the content it is taken of.                                 *)
(***************************************************************************)
EXTENDS Integers, Sequences, FiniteSets, SequencesExt

CONSTANTS
    Packages,       \* source packages: id, nodes, spans, authors
    BlockWindow,    \* block_window
    MaxListed       \* max_claims, max_protected_spans and max_entities

NodeTypes == {"paragraph", "heading", "table"}
SpanKinds == {"number", "unit", "entity", "quotation"}

ASSUME CapsuleAssumption ==
    /\ BlockWindow \in Nat \ {0} /\ MaxListed \in Nat \ {0}
    /\ \A package \in Packages :
           /\ package.nodes \in
                  Seq([type : NodeTypes, text : STRING, assisted : BOOLEAN])
           /\ package.spans \in
                  Seq([kind : SpanKinds, text : STRING, name : STRING,
                       excluded : BOOLEAN])
           /\ package.authors \in Seq(STRING)

VARIABLES
    ingested,       \* id of a package -> number of its document's revisions
    capsule,        \* the printed capsule as it is in the user's file
    printed,        \* the capsule as preview printed it last
    verdict         \* what the last command said of the file

capsuleVars == <<ingested, capsule, printed, verdict>>

Ids == {package.id : package \in Packages}

-----------------------------------------------------------------------------
(* Assembly *)

\* The elements of a list that are at one of these positions.
Keep(list, at) ==
    FoldLeftDomain(LAMBDA kept, n : IF n \in at THEN Append(kept, list[n]) ELSE kept,
                   <<>>, list)

Cut(list) == SubSeq(list, 1, IF Len(list) < MaxListed THEN Len(list) ELSE MaxListed)

\* A claim for each span but those of units and entities.
ClaimsOf(package) ==
    Keep(package.spans, {s \in DOMAIN package.spans :
                            package.spans[s].kind \notin {"unit", "entity"}})

\* The names of the claims, then those of the author-year citations, each once.
EntitiesOf(package) ==
    LET claims == ClaimsOf(package)
        Add(known, name) ==
            IF name = "" \/ Contains(known, name) THEN known ELSE Append(known, name)
    IN FoldLeft(Add, <<>>, [c \in DOMAIN claims |-> claims[c].name] \o package.authors)

TextBearing(node) == node.type \in {"paragraph", "heading"} /\ node.text # ""

\* Positions of the text-bearing blocks among those given, in document order.
Bearing(nodes, at) ==
    Keep([n \in DOMAIN nodes |-> n], {n \in at : TextBearing(nodes[n])})

\* Mutant: the window is cut before the block alone.
AdjacentCutOnce(nodes, block) ==
    LET before == Bearing(nodes, 1 .. block - 1)
        near == SubSeq(before, IF Len(before) > BlockWindow
                               THEN Len(before) - BlockWindow + 1 ELSE 1, Len(before))
    IN near \o Bearing(nodes, block + 1 .. Len(nodes))

\* The nearest blocks on either side.
Adjacent(nodes, block) ==
    LET before == Bearing(nodes, 1 .. block - 1)
        after == Bearing(nodes, block + 1 .. Len(nodes))
    IN SubSeq(before, IF Len(before) > BlockWindow
                      THEN Len(before) - BlockWindow + 1 ELSE 1, Len(before))
       \o SubSeq(after, 1, IF Len(after) < BlockWindow THEN Len(after) ELSE BlockWindow)

Headings(nodes, block) == {n \in 1 .. block - 1 : nodes[n].type = "heading"}

SectionGoal(nodes, block) ==
    IF Headings(nodes, block) = {} THEN ""
    ELSE nodes[CHOOSE n \in Headings(nodes, block) :
                   \A m \in Headings(nodes, block) : m <= n].text

DocumentPurpose(nodes) ==
    LET first == SelectInSeq(nodes, LAMBDA node : node.type = "paragraph")
    IN IF first = 0 THEN "" ELSE nodes[first].text

UntrustedLabels(package) ==
    LET nodes == package.nodes
        spans == package.spans
        Positions(list) == [n \in DOMAIN list |-> n]
    IN [assisted |-> Keep(Positions(nodes), {n \in DOMAIN nodes : nodes[n].assisted}),
        excluded |-> Keep(Positions(spans), {s \in DOMAIN spans : spans[s].excluded})]

\* All a capsule says but its id.  Every claim is proposed, so every one is an
\* open loop, also those cut from the claims.
Payload(package, block, revision) ==
    LET nodes == package.nodes
        claims == ClaimsOf(package)
        near == Adjacent(nodes, block)
    IN [document |-> package.id, revision |-> revision, block |-> block,
        text |-> nodes[block].text,
        adjacent |-> [k \in DOMAIN near |-> nodes[near[k]].text],
        goal |-> SectionGoal(nodes, block),
        purpose |-> DocumentPurpose(nodes),
        claims |-> Cut(claims), spans |-> Cut(package.spans),
        entities |-> Cut(EntitiesOf(package)),
        open |-> [c \in DOMAIN claims |-> claims[c].text],
        untrusted |-> UntrustedLabels(package)]

\* Mutant: the digest leaves the revision out.
DigestOfText(payload) == [payload EXCEPT !.revision = 0]

Digest(payload) == payload

\* capsule_from_json derives the id anew.
Intact(file) == file.id = Digest(file.payload)

\* validate_capsule
WithinPolicy(payload) ==
    /\ Len(payload.adjacent) <= 2 * BlockWindow
    /\ Len(payload.claims) <= MaxListed
    /\ Len(payload.spans) <= MaxListed
    /\ Len(payload.entities) <= MaxListed

-----------------------------------------------------------------------------
(* Commands *)

NoCapsule == [id |-> <<>>, payload |-> <<>>]

CapsuleInit ==
    /\ ingested = [id \in Ids |-> 0]
    /\ capsule = NoCapsule
    /\ printed = NoCapsule
    /\ verdict = "none"

\* project ingest stores the first revision, an accepted proposal the next;
\* the commands themselves are in ProjectWorkflow.
NewRevision(id) ==
    /\ ingested[id] < 2
    /\ ingested' = [ingested EXCEPT ![id] = @ + 1]
    /\ UNCHANGED <<capsule, printed, verdict>>

\* context preview: the block is looked for in the file before the project is
\* asked for the document.
Preview(package, block) ==
    LET payload == Payload(package, block, ingested[package.id])
        made == [id |-> Digest(payload), payload |-> payload]
    IN IF block \in DOMAIN package.nodes /\ ingested[package.id] > 0
       THEN /\ capsule' = made
            /\ printed' = made
            /\ verdict' = "printed"
            /\ UNCHANGED ingested
       ELSE /\ verdict' = "refused"
            /\ UNCHANGED <<ingested, capsule, printed>>

\* The user's file is edited between the commands: a text is reworded, a claim
\* is dropped, or the capsule is said to be of another revision.
EditFile ==
    /\ capsule # NoCapsule
    /\ \/ capsule' = [capsule EXCEPT !.payload.text = "edited"]
       \/ /\ capsule.payload.claims # <<>>
          /\ capsule' = [capsule EXCEPT !.payload.claims = Tail(@)]
       \/ \E revision \in 1 .. 2 \ {capsule.payload.revision} :
              capsule' = [capsule EXCEPT !.payload.revision = revision]
    /\ verdict' = "none"
    /\ UNCHANGED <<ingested, printed>>

\* context validate: the digest first, then the policy.
Validate ==
    /\ capsule # NoCapsule
    /\ verdict' = IF ~Intact(capsule) THEN "malformed"
                  ELSE IF WithinPolicy(capsule.payload) THEN "valid" ELSE "invalid"
    /\ UNCHANGED <<ingested, capsule, printed>>

CapsuleNext ==
    \/ \E id \in Ids : NewRevision(id)
    \/ \E package \in Packages : \E block \in 1 .. Len(package.nodes) + 1 :
           Preview(package, block)
    \/ EditFile
    \/ Validate

CapsuleSpec == CapsuleInit /\ [][CapsuleNext]_capsuleVars

-----------------------------------------------------------------------------
(* Properties *)

CapsuleTypeOK ==
    /\ ingested \in [Ids -> 0 .. 2]
    /\ capsule.id = printed.id
    /\ verdict \in {"none", "printed", "refused", "malformed", "invalid", "valid"}

\* A capsule file validates exactly when it still is the capsule that preview
\* printed: the lists that preview cuts stay within the limits that validate
\* sets, and any edit, the one of the revision too, is found
\* (build_context_capsule, capsule_from_json, validate_capsule).
PrintedValidates == verdict \in {"malformed", "invalid", "valid"} =>
    (verdict = "valid" <=> capsule = printed)

=============================================================================
