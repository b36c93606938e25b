SPECIFICATION Spec
CONSTANTS
    Clients = {c1}
    Packages = {k1}
    Contents = {a}
    Artifacts = {a}
    ArtifactOf <- OwnArtifact
    Spans = {1, 2}
    Quoted = {}
    NoContent = NoContent
    Corrupt = Corrupt
    MaxLines = 3
INVARIANTS
    RecordedDecisionReturns
