SPECIFICATION Spec
CONSTANTS
    Docs = {d1, d2}
    ProjectIds = {p1, p2}
    Canonical = p1
    Labels = {l1}
    Changes = {}
    Shifting = {}
    Guarded = {}
    Sources = {s1}
    SourceOf <- OneSource
    NoRow = NoRow
    NoLabel = NoLabel
    NoRun = NoRun
    Clients = {c1, c2}
    Nobody = Nobody
    Invoked = {"ingest", "project ingest", "bind-style", "context"}
    MaxToken = 1
    MaxRuns = 1
SYMMETRY Symmetric
INVARIANTS
    IngestAllOrNothing
