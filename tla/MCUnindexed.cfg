SPECIFICATION Spec
CONSTANTS
    a = a
    b = b
    c = c
    d = d
    q1 = q1
    q2 = q2
    Replicas = {p1}
    Operators = {m1}
    Requests = {q1, q2}
    Legacy = {a, b, c, d}
    Words <- MCWords
    Punct <- MCPunct
    Lower <- MCLower
    LegacyName <- MCNames
    LegacySlug <- HasDune2
    Losses = {{d}}
    CreateSlugs <- Dune
    PatchNames <- Rename
    Ops <- Patching
    MaxInFlight = 2
    MaxFailures = 0
INVARIANTS
    NumbersDistinct
