SPECIFICATION CommandsSpec
CONSTANTS
    Openers = {p1, p2}
    Names = {"dir"}
    DirName = "dir"
    Deciders = {p1, p2}
    Offered = {"ch1", "ch2"}
    MaxEntries = 2
    Exporters = {p1, p2}
    Documents <- Exported
    Clerks = {p1, p2}
    Summaries = {"s"}
    TriggerTypes = {"x", "y"}
    MaxDecisions = 1
    Drafts <- Proposed
    Policies <- Versioned
    Verifiers = {p1, p2}
    DraftTexts <- Written
    MaxRevisions = 3
    Projectors = {p1, p2}
    ProjectSlug <- BookSlug
    NotePackages <- Vaulted
    Releases = {p1, p2}
    Checks = {p3}
    Checkouts <- History
    MinWords = 4
    Labels <- Labelled
    OtherTexts <- Compared
    BlockWindow = 1
    MaxListed = 1
    Packages <- Ingested
SYMMETRY Interchangeable
CHECK_DEADLOCK FALSE
INVARIANTS
    CommandsTypeOK
    SchemaMatchesVersion
    OpenedIsMigrated
    OnlyOverlapDrops
    OkHasContent
    FailsForCause
    RanIsReported
    ApprovalsJustified
    AnswersAreDetections
    WorkflowReadsText
    OneForm
    RefusedForCause
    OkIsComplete
    AcceptedIsReproduced
    AloneIsOfItsTree
    CompleteIsEarned
    SilenceMeansUsual
    PrintedValidates
