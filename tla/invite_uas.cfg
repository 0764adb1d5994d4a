SPECIFICATION FairSpec
CONSTANTS
    c1 = c1
    c2 = c2
    c3 = c3
    r1 = r1
    r2 = r2
    Calls = {c1, c2, c3}
    Requests = {r1, r2}
    Executors = {TRUE, FALSE}
    MaxQueue = 2
INVARIANTS CooperativeOneTeardown  CooperativeConfirmedIsAcked
PROPERTIES CooperativeAnswerIsSettled
CHECK_DEADLOCK FALSE
