SPECIFICATION FairSpec
CONSTANTS
    a = a
    Tags = {a}
    MaxQueue = 2
PROPERTIES InvitesTimeOut
CHECK_DEADLOCK FALSE
