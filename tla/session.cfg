\* Both threads and a user who may do anything at any time.
SPECIFICATION Spec
CONSTANTS
    Tools = {"LspHover", "Bash", "Write", "Agent"}
    NoTool = NoTool
    ChunkKinds = {}
    EventCap = 2
    MaxInputs = 2
    MaxChunks = 0
    MaxInterrupts = 1
    Registered = {"LspHover", "Bash", "Write", "Agent"}
    ReadOnly = {"LspHover", "Agent"}
    AgentTool = "Agent"
    LspTools = {"LspHover"}
    Mode = "Default"
    MaxIterations = 1
    KeepRecent = 1
    Replies <- MixedReplies
INVARIANTS
    ResultsAnswerUses
    EveryUseIsAnswered
    CalmGrantsMatchAnswers
    ScreenMatchesAgent
PROPERTIES
    IsAgentLoop
