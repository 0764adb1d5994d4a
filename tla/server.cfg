SPECIFICATION MCSpec
CONSTANTS
    i1 = i1
    i2 = i2
    n1 = n1
    Invites = {i1, i2}
    NonInvites = {n1}
    Replies = {"Trying", "Ringing", "OK", "BusyHere"}
    MaxQueue = 2
INVARIANTS  AckHandedOnce AckReachesItsInvite
PROPERTIES CancelStopsAtFinal OneTransactionPerAnsweredRequest AnsweredTransactionsEnd
CHECK_DEADLOCK FALSE
