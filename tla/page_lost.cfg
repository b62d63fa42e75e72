\* Documented: a link's text is kept and only its tags are skipped.
SPECIFICATION MCSpec
CONSTANTS
    Width = 3
    Height = 8
    Marks <- FourRows
    BlockRows = {1, 2}
    LineCounts = {1, 2}
    Bytes = {"ESC", "[", "]", "7", "8", "1", "2", ";", "!", "m", "H", "J", "K", "A", "C", "S", "T", "lead", "tail", "BEL", "CR"}
    Plain = {"ESC", "lead", "tail", "CR"}
    MaxParams = 1
    Keys = {"a", "Up", "wide", "Delete", "CtrlC", "Press", "Wheel1000", "CtrlRight", "Press1015"}
    MaxKeys = 3
    MaxResizes = 2
    Chars <- TwoChars
    MaxBytes = 3
    MaxHistory = 2
    Alphabets <- JsonAlphabets
    MaxText = 6
    Agents = {"a1", "a2"}
    Learnings <- TwoLearnings
    Summaries <- OneSummary
    TopK = 1
    MaxCandidates = 2
    MaxSessions = 3
    MaxClock = 1
    Contents <- ShortTexts
    Patterns <- FewPatterns
    MaxEdits = 2
    MaxOthers = 1
    Trees <- FourTrees
    Segments <- SevenSegments
    IgnoredDirs <- OneIgnored
    MaxSegments = 3
    Words = {"x", "y", "wide"}
    WideBytes = 3
    MaxPieces = 5
    QrTexts <- AsciiTexts
    MaxVersion = 10
    Slacks <- ThreeSlacks
INVARIANTS
    PageIsConverted
CHECK_DEADLOCK FALSE
