SPECIFICATION HandlersFair
CONSTANTS
    ed = ed
    sub = sub
    rev = rev
    name = name
    notes = notes
    x = x
    y = y
    z = z
    dune = dune
    mork = mork
    None = None
    Seed = Seed
    SeedSlug = dune
    SpelledAs <- MorkAsSeed
    SeedUser = ed
    Users <- MCUsers
    Editors <- MCEditors
    Submitters <- MCSubmitters
    Reviewers <- MCReviewers
    Fields <- MCFields
    Values <- MCValues
    Slugs <- MCSlugs
    Blank <- MCBlank
    Bodies <- PlainBodies
    Requests = {q1, q2}
    Ops <- EveryOp
    Ids <- OwnIds
    VersionNumbers = {1, 2}
    Patches <- ClashingPatches
    Selections <- AllSelected
    MaxInFlight = 2
    MaxAborts = 1
    Title = name
    MaxUnconfirmed = 1
    MaxDrops = 1
    MaxLate = 1
INVARIANTS
    IdsNameOneOrTwo
    OneEventPerMutation
PROPERTIES
    EveryRequestAnswered
    PublishedBecomesCurrent
    BrokerNeverBlocks
