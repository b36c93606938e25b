SPECIFICATION Spec
CONSTANTS
    Docs = {d1, d2}
    ProjectIds = {p1}
    Canonical = p1
    Labels = {}
    Changes = {x, y}
    Shifting = {x}
    Guarded = {}
    Sources = {s1}
    SourceOf <- OneSource
    NoRow = NoRow
    NoLabel = NoLabel
    NoRun = NoRun
    Clients = {c1}
    Nobody = Nobody
    Invoked = {"ingest", "context", "propose", "decide", "apply"}
    MaxToken = 3
    MaxRuns = 3
INVARIANTS
    EditsReviewed
    RunAppliedOnce
