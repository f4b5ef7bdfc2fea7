SPECIFICATION RequestSpec
CONSTANTS
    Requesters = {p, q}
    Engines <- AllEngines
    MaxContent = 1
CHECK_DEADLOCK FALSE
INVARIANT ReusedIsDocumented
