SPECIFICATION Spec
CONSTANTS
    Docs = {d1}
    ProjectIds = {p1, p2}
    Canonical = p1
    Labels = {}
    Changes = {x, g}
    Shifting = {x}
    Guarded = {g}
    Sources = {s1}
    SourceOf <- OneSource
    NoRow = NoRow
    NoLabel = NoLabel
    NoRun = NoRun
    Clients = {c1, c2}
    Nobody = Nobody
    Invoked = {"project ingest", "context"}
    MaxToken = 3
    MaxRuns = 2
SYMMETRY Symmetric
INVARIANTS
    OneProjectPerRoot
