CONSTANTS
    Writers <- OneBoot
    Kind <- OneBootKind
    Follows <- OneBootAfter
    Todo <- OneBootTodo
    HasEnv = TRUE
    EventBudget = 2
    MaxEvents = 4
    MaxFaults = 0
    MaxDamage = 0
    MaxReads = 0
SPECIFICATION Spec
CHECK_DEADLOCK FALSE
INVARIANTS EveryLineChained
