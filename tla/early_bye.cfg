SPECIFICATION CallSpec
CONSTANT Midcalls = {}
PROPERTY ByeTerminates
CHECK_DEADLOCK FALSE
