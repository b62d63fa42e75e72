\* Documented: ToolEnd marks the corresponding ToolCall.
SPECIFICATION Spec
CONSTANTS
    Tools = {"LspHover", "Bash", "Write", "Agent"}
    NoTool = NoTool
    ChunkKinds = {}
    EventCap = 2
    MaxInputs = 1
    MaxChunks = 0
    MaxInterrupts = 0
    Registered = {"LspHover", "Bash", "Write", "Agent"}
    ReadOnly = {"LspHover", "Agent"}
    AgentTool = "Agent"
    LspTools = {"LspHover"}
    Mode = "Default"
    MaxIterations = 1
    KeepRecent = 1
    Replies <- TwoAgentReplies
INVARIANTS
    ResultOnItsOwnCall
