CONSTANTS
    SignedOut = SignedOut
    NoAnswerYet = NoAnswerYet
    MaxLogins = 1
    MaxThreatChanges = 1
    MaxToggles = 2
    MaxUpsets = 1
SPECIFICATION FairConsoleSpec
PROPERTIES AlertsReconnect
CHECK_DEADLOCK FALSE
