SPECIFICATION EventSpec
CONSTANTS
    ed = ed
    sub = sub
    rev = rev
    name = name
    notes = notes
    x = x
    y = y
    z = z
    dune = dune
    mork = mork
    None = None
    Seed = Seed
    SeedSlug = dune
    SpelledAs <- NoSpelling
    SeedUser = ed
    Users <- MCUsers
    Editors <- MCEditors
    Submitters <- MCSubmitters
    Reviewers <- MCReviewers
    Fields <- MCFields
    Values <- MCValues
    Slugs <- MCSlugs
    Blank <- MCBlank
    Bodies <- PlainBodies
    Requests = {q1, q2, q3}
    Ops <- Announced
    Ids <- SeedId
    VersionNumbers = {1, 2}
    Patches <- OneRename
    Selections <- AllSelected
    MaxInFlight = 2
    MaxAborts = 0
    Title = name
    MaxUnconfirmed = 0
    MaxDrops = 1
    MaxLate = 0
SYMMETRY Symmetry
INVARIANTS
    EventTypeOK
    EventsFaithful
    CurrentAnnounced
