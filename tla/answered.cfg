CONSTANTS
    r1 = r1
    r2 = r2
    c1 = c1
    c2 = c2
    Nobody = Nobody
    Connectors = {c1}
    Serves <- OneServesBoth
    MaxQueue = 1
    Requests = {r1}
    Tasks = {"reader", "cards", "tick", "rows", "end", "refresh", "cli"}
    Presses = {"allow", "dismiss"}
    MaxTurns = 0
SPECIFICATION Spec
PROPERTIES  EveryRequestAnswered
