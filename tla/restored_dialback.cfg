INIT RequestsInit
NEXT RequestsNext
CONSTANTS
    Requests = {"i", "b"}
    Invites = {"i"}
    Byes = {"b"}
INVARIANTS RestoredDialsBack
CHECK_DEADLOCK FALSE
