SPECIFICATION FairSpec
CONSTANTS
    NumFamilies = 2  MaxMtp = 2  NumCcus = 2
    Contexts = {1, 2}
    Arguments <- PlainMtpAgain
    MaxSessions = 2
INVARIANTS TypeOK ResumeEquivalent NothingMissing
PROPERTIES ImplementsPolicy SessionEnds
CHECK_DEADLOCK FALSE
