\* Text streamed in every shape; what the two threads owe each other.
SPECIFICATION FairSpec
CONSTANTS
    Tools = {"LspHover", "Bash", "Write", "Agent"}
    NoTool = NoTool
    ChunkKinds = {"text", "line", "blank", "ticks", "fenceline", "newline"}
    EventCap = 2
    MaxInputs = 1
    MaxChunks = 2
    MaxInterrupts = 1
    Registered = {"LspHover", "Bash", "Write", "Agent"}
    ReadOnly = {"LspHover", "Agent"}
    AgentTool = "Agent"
    LspTools = {"LspHover"}
    Mode = "Default"
    MaxIterations = 1
    KeepRecent = 1
    Replies <- SingleReplies
PROPERTIES
    HeldTextIsKept
    TurnEndsOrAsks
    ExitsAreNoticed
    QuitEndsAgent
