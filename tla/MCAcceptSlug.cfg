SPECIFICATION Spec
CONSTANTS
    ed = ed
    sub = sub
    rev = rev
    name = name
    notes = notes
    x = x
    y = y
    z = z
    dune = dune
    mork = mork
    None = None
    Seed = Seed
    SeedSlug = dune
    SpelledAs <- NoSpelling
    SeedUser = ed
    Users <- MCUsers
    Editors <- MCEditors
    Submitters <- MCSubmitters
    Reviewers <- MCReviewers
    Fields <- MCFields
    Values <- MCValues
    Slugs <- MCSlugs
    Blank <- MCBlank
    Bodies <- MCBodies
    Requests = {q1, q2, q3}
    Ops <- Editorial
    Ids <- SeedForms
    VersionNumbers = {1, 2}
    Patches <- ClashingPatches
    Selections <- AllSelected
    MaxInFlight = 1
    MaxAborts = 0
SYMMETRY Symmetry
PROPERTIES
    AcceptResolvesSlug
