SPECIFICATION Spec
CONSTANTS
    ed = ed
    sub = sub
    rev = rev
    name = name
    notes = notes
    x = x
    y = y
    z = z
    dune = dune
    mork = mork
    None = None
    Seed = Seed
    SeedSlug = dune
    SpelledAs <- NoSpelling
    SeedUser = ed
    Users <- MCUsers
    Editors <- MCEditors
    Submitters <- MCSubmitters
    Reviewers <- MCReviewers
    Fields <- MCFields
    Values <- MCValues
    Slugs <- MCSlugs
    Blank <- MCBlank
    Bodies <- MCBodies
    Requests = {q1, q2, q3, q4}
    Ops <- Editorial
    Ids <- SeedId
    VersionNumbers = {1, 2}
    Patches <- ClashingPatches
    Selections <- MCSelections
    MaxInFlight = 2
    MaxAborts = 1
SYMMETRY Symmetry
INVARIANTS
    TypeOK
    CurrentPublished
    HistoryInv
    PartialFaithful
PROPERTIES
    DecidedByName
    PatchCopiesPublished
    ImplementsHistory
