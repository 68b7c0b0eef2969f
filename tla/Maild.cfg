SPECIFICATION FairSpec
CONSTANTS
    Kinds <- MCKinds
    Formats <- MCFormats
    Scripts <- MCScripts
    MaxAlerts = 3
    MaxDay = 3
    MAILLIST = 1
    MAXCHILD = 1
    MAXPERHOUR = 3
    ERRS = 1
INVARIANTS
    MailInv
    MatchedAreServed
PROPERTIES
    AloneUnlessFirstOrLast
    NoMailWaitsForEver
CHECK_DEADLOCK FALSE
