CONSTANTS
    r1 = r1
    r2 = r2
    Requests = {r1, r2}
    MaxTables = 2
    MaxConns = 3
SPECIFICATION ChannelSpec
CHECK_DEADLOCK FALSE

INVARIANTS DecisionCovered NewestOnItsWay 
PROPERTY GuestCurrent
