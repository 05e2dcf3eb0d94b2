CONSTANTS
    Relock <- OnlyMSVC
    Events = {}
    MaxStarts = 1
    MaxEdits = 0
    MaxRequests = 0
    NoFile = NoFile
SPECIFICATION FairSpec
PROPERTY
    ExitObeyed
CHECK_DEADLOCK FALSE
