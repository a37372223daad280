CONSTANTS
    r1 = r1
    r2 = r2
    h1 = h1
    h2 = h2
    Requests = {r1, r2}
    Hosts = {h1, h2}
    HostOf <- OneHost
    Calls <- Ports
    Reach <- PortsOf
    Shipped <- DenyFirst
    Opens <- AllowFirst
    UserRules <- TypedDeny
    Tasks = {"reader", "cards", "tick", "watcher", "end", "row"}
    Rows = {"row"}
    Serial = TRUE
    SaveFails = FALSE
    MaxAnswers = 2
    MaxEdits = 2
SPECIFICATION Spec
CHECK_DEADLOCK FALSE
INVARIANTS Folded EntryHolds
PROPERTY  EditTakesEffect
