CONSTANTS
    r1 = r1
    r2 = r2
    c1 = c1
    c2 = c2
    Nobody = Nobody
    Connectors = {c1}
    Serves <- OneServesBoth
    MaxQueue = 1
    Requests = {r1, r2}
    Tasks = {"reader", "cards", "tick"}
    Presses = {"allow", "grant", "begin", "answer", "dismiss"}
    MaxTurns = 1
SPECIFICATION Safety
INVARIANTS AnswerRight 
