---------------------------- MODULE PrivacyModes ----------------------------
(***************************************************************************)
(* One project and one style vault over a sequence of commands, each run   *)
(* under the privacy mode of its own environment. The workflow commands    *)
(* resolve the mode into a key provider; the older commands (project,      *)
(* finalize, export, import style, style review) open the same files       *)
(* without one.                                                            *)
(***************************************************************************)
EXTENDS Integers, FiniteSets

CONSTANT MaxRevisions     \* bound on the accepted revisions of the document

ASSUME RevisionsAssumption == MaxRevisions \in Nat \ {0}

PolicyModes == {"strict_local", "private_audited", "regulated"}

Environments == [mode : PolicyModes, key : {"auto", "dpapi", "test"}, testAllowed : BOOLEAN]

\* privacy-modes.json, and _DEFAULT_MODES, which says the same.
Encrypts(mode) == mode \in {"strict_local", "regulated"}
DetectorCacheEnabled(mode) == mode = "private_audited"

VARIABLES
    windows,       \* DPAPI is there
    contents,      \* revision number to the form its content is kept in
    claims,        \* the form of the claims and entities
    spans,         \* the form of the protected spans
    artifact,      \* the form of the style evidence kept in the vault
    decided,       \* decisions.jsonl has review decisions
    bound,         \* the project has a style profile
    last           \* the last command, and what it took for text

privacyVars == <<windows, contents, claims, spans, artifact, decided, bound, last>>

None == "none"
Plain == "plain"
Sealed == {"dpapi", "test"}
Forms == {None, Plain} \cup Sealed

NoCommand == [command |-> "nothing", ok |-> TRUE, read |-> {}]

PrivacyTypeOK ==
    /\ windows \in BOOLEAN
    /\ DOMAIN contents \in {1 .. n : n \in 0 .. MaxRevisions}
    /\ \A r \in DOMAIN contents : contents[r] \in Forms \ {None}
    /\ claims \in Forms /\ spans \in Forms /\ artifact \in Forms
    /\ decided \in BOOLEAN /\ bound \in BOOLEAN
    /\ last.ok \in BOOLEAN
    /\ last.read \subseteq {"text", "cipher"}

PrivacyInit ==
    /\ windows \in BOOLEAN
    /\ contents = <<>>
    /\ claims = None /\ spans = None /\ artifact = None
    /\ decided = FALSE /\ bound = FALSE
    /\ last = NoCommand

-----------------------------------------------------------------------------
(* The runtime a workflow command resolves *)

\* resolve_key_provider
ResolveKeyProvider(key) ==
    CASE key = "test" -> "test"
      [] key = "dpapi" /\ ~ windows -> "unavailable"
      [] key = "auto" /\ ~ windows -> "test"
      [] OTHER -> "dpapi"

\* build_privacy_runtime: no key is needed, or one that may protect what is kept.
RuntimeResolves(env) ==
    Encrypts(env.mode) =>
        /\ ResolveKeyProvider(env.key) # "unavailable"
        /\ ResolveKeyProvider(env.key) = "test" => env.testAllowed

\* What the runtime's stores write.
FormOf(env) == IF Encrypts(env.mode) THEN ResolveKeyProvider(env.key) ELSE Plain

\* Mutant: what is no envelope is returned as it is.
DecodesPlain(env, form) == FormOf(env) = Plain \/ form \in {Plain, FormOf(env)}

\* EncryptedFieldCodec.decode, and the store's way around it when it has no codec:
\* whatever is there is taken for text.
Decodes(env, form) == FormOf(env) = Plain \/ form = FormOf(env)
Taken(form) == IF form = Plain THEN "text" ELSE "cipher"

\* StyleVault._decode: an envelope and a key, or neither.
VaultDecodes(env, form) == form = FormOf(env)

-----------------------------------------------------------------------------
Latest == Cardinality(DOMAIN contents)

Says(command, ok, read) ==
    last' = [command |-> command, ok |-> ok, read |-> read]

ProjectSame == UNCHANGED <<contents, claims, spans, bound>>
VaultSame == UNCHANGED <<artifact, decided>>

\* project ingest: the base store, whatever the mode, and no content.
ProjectIngest(env) ==
    /\ claims = None
    /\ claims' = Plain
    /\ spans' = Plain
    /\ Says("project ingest", TRUE, {})
    /\ UNCHANGED <<windows, contents, bound>> /\ VaultSame

\* workflow ingest: one transaction under the resolved runtime.
WorkflowIngest(env) ==
    /\ RuntimeResolves(env)
    /\ claims = None
    /\ contents' = [r \in {1} |-> FormOf(env)]
    /\ claims' = FormOf(env)
    /\ spans' = FormOf(env)
    /\ Says("workflow ingest", TRUE, {})
    /\ UNCHANGED <<windows, bound>> /\ VaultSame

\* Mutant: the digest is not compared.
Trusted(form) == TRUE

\* load_revision_content: the digest of what was taken for the accepted text.
IntegrityHolds(form) == Taken(form) = "text"

ContentLoads(env) ==
    /\ Latest > 0
    /\ Decodes(env, contents[Latest])
    /\ FormOf(env) = Plain => IntegrityHolds(contents[Latest])

\* load_document_state: the content, then claims, spans and entities.
StateLoads(env) ==
    /\ ContentLoads(env)
    /\ Decodes(env, claims)
    /\ Decodes(env, spans)

ReadUnder(env) ==
    IF FormOf(env) = Plain THEN {Taken(contents[Latest]), Taken(claims), Taken(spans)} ELSE {"text"}

\* _bound_profile: a bound project loads its profile from the vault too.
ProfileLoads(env) == artifact # None /\ VaultDecodes(env, artifact)

\* workflow context and propose: they write nothing that is protected.
WorkflowRead(env) ==
    /\ RuntimeResolves(env)
    /\ IF StateLoads(env) /\ (bound => ProfileLoads(env))
       THEN Says("workflow read", TRUE, ReadUnder(env))
       ELSE Says("workflow read", FALSE, {})
    /\ UNCHANGED windows /\ ProjectSame /\ VaultSame

\* workflow export: the accepted content alone.
WorkflowExport(env) ==
    /\ RuntimeResolves(env)
    /\ IF StateLoads(env)
       THEN Says("workflow read", TRUE, ReadUnder(env))
       ELSE Says("workflow read", FALSE, {})
    /\ UNCHANGED windows /\ ProjectSame /\ VaultSame

\* workflow apply: a new revision and rebased spans; the claims stay.
WorkflowApply(env) ==
    /\ RuntimeResolves(env)
    /\ StateLoads(env)
    /\ bound => ProfileLoads(env)
    /\ Latest < MaxRevisions
    /\ contents' = [r \in 1 .. Latest + 1 |-> IF r <= Latest THEN contents[r] ELSE FormOf(env)]
    /\ spans' = FormOf(env)
    /\ Says("workflow apply", TRUE, ReadUnder(env))
    /\ UNCHANGED <<windows, claims, bound>> /\ VaultSame

\* workflow bind-style: the reviewed packages, read under the runtime's key.
BindStyle(env) ==
    /\ RuntimeResolves(env)
    /\ claims # None
    /\ artifact # None /\ decided
    /\ bound' = (bound \/ ProfileLoads(env))
    /\ Says("bind-style", ProfileLoads(env), {})
    /\ UNCHANGED <<windows, contents, claims, spans>> /\ VaultSame

\* finalize propose: the spans of the first document as the base store returns
\* them. export document: the claims likewise.
LegacyRead(env, command, form) ==
    /\ form # None
    /\ Says(command, TRUE, {Taken(form)})
    /\ UNCHANGED windows /\ ProjectSame /\ VaultSame

\* import style: StyleVault without a key provider, whatever the mode.
ImportStyle(env) ==
    /\ artifact \in {None, Plain}
    /\ artifact' = Plain
    /\ Says("import style", TRUE, {})
    /\ UNCHANGED <<windows, decided>> /\ ProjectSame

\* style review: the same, one more line of decisions.jsonl.
ReviewStyle(env) ==
    /\ artifact = Plain
    /\ decided' = TRUE
    /\ Says("style review", TRUE, {})
    /\ UNCHANGED <<windows, artifact>> /\ ProjectSame

\* privacy doctor: advisory, and it changes nothing.
DoctorFindings(env, cacheEnabled) ==
    {code \in {"cache_policy_mismatch", "strict_local_style_vault"} :
        \/ code = "cache_policy_mismatch" /\ cacheEnabled # DetectorCacheEnabled(env.mode)
        \/ code = "strict_local_style_vault" /\ env.mode = "strict_local" /\ decided}

Doctor(env, cacheEnabled) ==
    /\ Says("doctor", DoctorFindings(env, cacheEnabled) = {}, {})
    /\ UNCHANGED windows /\ ProjectSame /\ VaultSame

PrivacyNext ==
    \E env \in Environments :
        \/ ProjectIngest(env)
        \/ WorkflowIngest(env)
        \/ WorkflowRead(env)
        \/ WorkflowExport(env)
        \/ WorkflowApply(env)
        \/ BindStyle(env)
        \/ LegacyRead(env, "finalize propose", spans)
        \/ LegacyRead(env, "export document", claims)
        \/ ImportStyle(env)
        \/ ReviewStyle(env)
        \/ \E cacheEnabled \in BOOLEAN : Doctor(env, cacheEnabled)

PrivacySpec == PrivacyInit /\ [][PrivacyNext]_privacyVars

-----------------------------------------------------------------------------
(* Properties *)

\* The integrated store: in whatever order the modes change, a workflow command
\* that succeeds never took ciphertext for text.
WorkflowReadsText ==
    last.command \in {"workflow read", "workflow apply"} => "cipher" \notin last.read

\* The integrated store: the rows of a document are all kept in the form of the
\* mode it was ingested under; no revision and no span is ever added in another.
OneForm ==
    /\ \A r \in DOMAIN contents : contents[r] = claims
    /\ spans = claims

=============================================================================
