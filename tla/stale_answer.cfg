\* Documented: a response answers the request it was given for.
SPECIFICATION Spec
CONSTANTS
    Tools = {"LspHover", "Bash", "Write", "Agent"}
    NoTool = NoTool
    ChunkKinds = {}
    EventCap = 2
    MaxInputs = 2
    MaxChunks = 0
    MaxInterrupts = 1
    Registered = {"LspHover", "Bash", "Write", "Agent"}
    ReadOnly = {"LspHover", "Agent"}
    AgentTool = "Agent"
    LspTools = {"LspHover"}
    Mode = "Default"
    MaxIterations = 1
    KeepRecent = 1
    Replies <- MixedReplies
INVARIANTS
    GrantsMatchAnswers
