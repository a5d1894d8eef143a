SPECIFICATION FairSpec
CONSTANTS
    r1 = r1
    r2 = r2
    v1 = v1
    v2 = v2
    v3 = v3
    ann = ann
    sAnn = sAnn
    sGone = sGone
    System = System
    Unset = Unset
    Records = {r1, r2}
    Seeds = {v1, v2, v3}
    Requests = {q1}
    Users = {ann}
    Subjects = {sAnn, sGone}
    CanonicalOf <- MCCanonicalOf
    SeedMeta <- MCSeedMeta
    SeedVersion <- MCSeedVersion
    MaxFailures = 1
    MaxDryRuns = 1
INVARIANTS
    BackfillTypeOK
PROPERTIES
    ProvenanceKept
    StampedInTheEnd
    CanonicalInTheEnd
