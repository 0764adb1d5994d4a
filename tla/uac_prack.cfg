SPECIFICATION Spec
CONSTANTS
    Forks = {"f"}
    NoFork = "none"
    Apps = {}
INVARIANTS CallingIsCancelled
CHECK_DEADLOCK FALSE
