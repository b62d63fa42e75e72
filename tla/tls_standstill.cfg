\* Documented: the connection falls back to TLS 1.2 by itself.
SPECIFICATION MCSpec
CONSTANTS
    Servers = {"mcp", "lsp"}
    ContentLength = {"lsp"}
    McpServers <- OneMcp
    LspOf <- OneFile
    MaxTroubles = 1
    MaxEdits = 2
    MaxUses = 2
    MaxPages = 1
    Messages <- FourAnswers
    MaxCuts = 1
    Coalescing = {"1.2", "1.3"}
    Notifying = {"1.3"}
    DataSizes = {1, 3}
    MaxReply = 4
    BufSize = 2
    Timeout = 3
    PipeSize = 1
    MaxOutput = 3
INVARIANTS
    NoStandstill
CHECK_DEADLOCK FALSE
