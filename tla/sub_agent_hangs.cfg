\* Documented: the monitor lets the child make progress.
SPECIFICATION JoinFairSpec
CONSTANTS
    Tools = {"Read", "Bash", "Agent", "Nothing"}
    NoTool = NoTool
    ChunkKinds = {"line"}
    EventCap = 1
    MaxInputs = 1
    MaxChunks = 2
    Registered = {"Read", "Bash"}
    ReadOnly = {"Read"}
    AgentTool = "Agent"
    LspTools = {}
    Mode = "Auto"
    MaxIterations = 2
    KeepRecent = 0
    Replies <- ChildReplies
    IoPends = TRUE
PROPERTIES
    SubAgentReturns
