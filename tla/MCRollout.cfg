SPECIFICATION FairSpec
CONSTANTS
    a = a
    b = b
    c = c
    d = d
    q1 = q1
    q2 = q2
    Replicas = {p1}
    Operators = {m1, m2}
    Requests = {q1}
    Legacy = {a, b, c, d}
    Words <- MCWords
    Punct <- MCPunct
    Lower <- MCLower
    LegacyName <- MCNames
    LegacySlug <- HasDune2
    Losses = {{d}, {b, d}}
    CreateSlugs <- Dune
    PatchNames <- Rename
    Ops <- Both
    MaxInFlight = 1
    MaxFailures = 1
INVARIANTS
    RolloutTypeOK
    SlugsDistinct
PROPERTIES
    SlugsKept
    RolloutCompletes
