CONSTANTS
    Writers <- Runs
    Kind <- RunsKind
    Follows <- RunsAfter
    Todo <- RunsTodo
    HasEnv = TRUE
    EventBudget = 2
    MaxEvents = 4
    MaxFaults = 0
    MaxDamage = 1
    MaxReads = 1
    BLOCKS_PER_GROUP = 16
    DESCS_PER_BLOCK = 2
    ADDRS_PER_BLOCK = 4
    INODES_PER_BLOCK = 4
    BLOCKS_PER_INODE = 4
    GROWTH_FACTOR = 4
    LOST_FOUND_BLOCKS = 1
    JBD2_MIN_JOURNAL_BLOCKS = 1
    JOURNAL_TARGET_BLOCKS = 2
    FreshSizes = {16, 28}
    AskedSizes = {20, 30, 40, 52, 60, 100}
    DiskBlocks = 64
    MaxAsks = 3
    MaxCuts = 1
    MaxWrites = 1
  c1 = c1
  c2 = c2
SPECIFICATION DiskSpec
SYMMETRY Symmetry
CHECK_DEADLOCK FALSE
INVARIANTS
    LedgerVerifies OkMeansComplete NoFalseAlarm 
    CleanIsSound OneUser  BlobsAreWhole 
PROPERTIES ImplementsResize HeldIsKept
