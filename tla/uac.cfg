SPECIFICATION FairSpec
CONSTANTS
    Forks = {"f", "g", "h"}
    NoFork = "none"
    Apps = {"x", "y"}
INVARIANTS  OneByePerSession AbandonedIsCancelled
PROPERTIES AbandonedSettles
CHECK_DEADLOCK FALSE
