SPECIFICATION MCSpec
CONSTANTS
    Senders = {"s", "t"}
    Asked = {1, 2, 3}
    Forks = {"f", "g"}
    MaxRseq = 2
    Parallel = FALSE
    Requests = {"i", "b"}
    Invites = {"i"}
    Byes = {"b"}
    Tasks = {"t", "u", "v", "w"}
    Ids = {"a", "b"}
    MaxDialogs = 3
    Threads = FALSE
    Addresses = {"p", "q"}
    Lifetimes = {50, 30}
    MaxRegisters = 3
    Publishes = {"p", "q", "r"}
    Closes = {"c"}
    Asks = {"a"}
    Unsent = {"c"}
    Midcalls <- MCMidcalls
INVARIANTS
    CooperativeNumbers CooperativeOrder SingleForkIsPracked NoneIsReplaced NoOrphanedPublication
PROPERTIES
    AckCarriesItsBody  ByeEndsDialog ReportedIsBound HandedIsAnswered HangupEndsBoth
CHECK_DEADLOCK FALSE
