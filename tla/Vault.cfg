SPECIFICATION Spec
CONSTANTS
    Clients = {c1, c2}
    Packages = {k1, k2}
    Contents = {a, b}
    Artifacts = {a, b}
    ArtifactOf <- OwnArtifact
    Spans = {1, 2, 3}
    Quoted = {1}
    NoContent = NoContent
    Corrupt = Corrupt
    MaxLines = 2
SYMMETRY Symmetric
INVARIANTS
    TypeOK
    StoredOnce
    PackageHasOriginal
    LatestDecisionWins
    ViewExplained
PROPERTIES
    DecisionsOnlyGrow
