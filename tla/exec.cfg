CONSTANTS
    Keys = {"a", "b", "p", "q"}
    Chord <- DetachChord
    Scripts <- Typed
    MaxChunk = 3
    MaxOut = 1
    Cap = 1
SPECIFICATION ExecSpec
CHECK_DEADLOCK FALSE
INVARIANTS StdinFaithful OutputBeforeExit
PROPERTIES  ExitReachesClient
