SPECIFICATION FairSpec
CONSTANTS
    Files <- MCFiles
    Sums <- MCSums
    Starts <- MCStarts
    AutoIgnore = TRUE
    WireLen = 2
    MaxEdits <- MCMaxEdits
    MaxMishaps = 2
INVARIANTS
    DatabaseInv
PROPERTIES
    SilentOnlyIfCut
    DatabaseSettles
