CONSTANTS
    r1 = r1
    r2 = r2
    c1 = c1
    c2 = c2
    Nobody = Nobody
    Connectors = {c1}
    Serves <- OneServesBoth
    MaxQueue = 1
    Requests = {r1, r2}
    Tasks = {"reader", "cards"}
    Presses = {"allow", "grant", "decline", "begin", "answer", "dismiss"}
    MaxTurns = 2
SPECIFICATION Spec
CHECK_DEADLOCK FALSE
INVARIANTS RoundsReachable LoneCardIsTrue
PROPERTY LatchedCardMoves
