\* Three joined futures, a submission queue of two, a child of at most two rounds.
SPECIFICATION MCSpec
CONSTANTS
    s1 = s1
    s2 = s2
    v1 = v1
    v2 = v2
    Senders = {s1, s2}
    Values = {v1, v2}
    MaxSends = 3
    Consumer = "local"
    SqEntries = 2
    MaxToken = 4
    MaxTimers = 2
    Kinds <- JoinedKinds
    Owner <- JoinedOwner
    Drivers = {"block_on_local", "block_on", "Runtime"}
    SqRoom = 2
    MaxRegs = 2
    MaxTimeouts = 2
    Tools = {"Read", "Bash", "Agent", "Nothing"}
    NoTool = NoTool
    ChunkKinds = {"line"}
    EventCap = 1
    MaxInputs = 1
    MaxChunks = 2
    Registered = {"Read", "Bash"}
    ReadOnly = {"Read"}
    AgentTool = "Agent"
    LspTools = {}
    Mode = "Auto"
    MaxIterations = 2
    KeepRecent = 0
    Replies <- ChildReplies
    IoPends = TRUE
INVARIANTS
    RefsCountHandles
    NoLostValue
    WakersFitPolls
    LeavesAreServed
    MonitorKeepsItsWord
PROPERTIES
    KeepsPromise
    PollWakesAndReturns
    ReadyLeafEnds
    CallReturnsOrSpins
