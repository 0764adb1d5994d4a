SPECIFICATION FairSpec
CONSTANTS
    a = a
    b = b
    Tags = {a, b}
    MaxQueue = 2
INVARIANTS OneVerdict HandedSuccessIsAcked
PROPERTIES TransactionsEnd
CHECK_DEADLOCK FALSE
