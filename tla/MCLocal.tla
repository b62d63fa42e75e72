------------------------------ MODULE MCLocal ------------------------------
(***************************************************************************)
(* What viv does by itself, for TLC: its screen, the simulator that tests  *)
(* it, the keyboard and the window, the line editor, JSON texts, the       *)
(* memory of past sessions, the file tools' edits, glob patterns, pages of *)
(* the web and QR codes; a behaviour runs one.  The simulator's screen is  *)
(* smaller than the one the live region needs.                             *)
(***************************************************************************)
EXTENDS TermInput, Editor, Qr

CONSTANTS
  Width, Height, Marks, BlockRows, LineCounts,
  Bytes, Plain, MaxParams,
  Alphabets, MaxText,
  Agents, Learnings, Summaries, TopK, MaxCandidates, MaxSessions, MaxClock,
  Contents, Patterns, MaxEdits, MaxOthers,
  Trees, Segments, IgnoredDirs, MaxSegments,
  Words, WideBytes, MaxPieces

VARIABLES
  machine,
  term, blocks, inputLines, lastLive, fate, used, committed, drawn, tall,
  vt, parser,
  alphabet, text,
  files, disk, clock, agent, recalled, sessions, version, learned, ought, damaged,
  file, call, opened, alone, base, edits, written, answer, others,
  tree, pattern,
  page

L == INSTANCE Screen
S == INSTANCE VtParser WITH Width <- 2, Height <- 2
J == INSTANCE JsonText
M == INSTANCE Memory
F == INSTANCE Files
G == INSTANCE Glob
H == INSTANCE Html

simulatorVars == <<vt, parser>>
screenVars == <<term, blocks, inputLines, lastLive, fate, used, committed, drawn, tall>>
jsonVars == <<alphabet, text>>
memoryVars == <<files, disk, clock, agent, recalled, sessions, version, learned, ought, damaged>>
filesVars == <<file, call, opened, alone, base, edits, written, answer, others>>
globVars == <<tree, pattern>>
terminalVars == <<screenVars, simulatorVars, inputVars, editorVars>>
dataVars == <<jsonVars, memoryVars, filesVars, globVars, page, qr>>
mcVars == <<machine, terminalVars, dataVars>>

MCInit ==
  /\ machine \in {"screen", "simulator", "keyboard", "window", "editor",
                 "json", "memory", "files", "glob", "html", "qr"}
  /\ L!ScreenInit /\ S!VtInit /\ InputInit /\ EditorInit
  /\ J!TextInit /\ M!MemoryInit /\ F!FilesInit /\ G!GlobInit /\ H!HtmlInit /\ QrInit
  /\ machine # "json" => alphabet = CHOOSE a \in Alphabets : TRUE
  /\ machine # "files" => file = CHOOSE f \in Contents : TRUE
  /\ machine # "glob" => tree = {}

Terminal ==
  \/ machine = "screen" /\ L!ScreenNext /\ UNCHANGED <<simulatorVars, inputVars, editorVars>>
  \/ machine = "simulator" /\ S!VtNext /\ UNCHANGED <<screenVars, inputVars, editorVars>>
  \/ /\ \/ machine = "keyboard" /\ UNCHANGED size
        \/ machine = "window" /\ UNCHANGED pressed
     /\ InputNext /\ UNCHANGED <<screenVars, simulatorVars, editorVars>>
  \/ machine = "editor" /\ EditorNext /\ UNCHANGED <<screenVars, simulatorVars, inputVars>>

Data ==
  \/ machine = "json" /\ J!TextNext /\ UNCHANGED <<memoryVars, filesVars, globVars, page, qr>>
  \/ machine = "memory" /\ M!MemoryNext /\ UNCHANGED <<jsonVars, filesVars, globVars, page, qr>>
  \/ machine = "files" /\ F!FilesNext /\ UNCHANGED <<jsonVars, memoryVars, globVars, page, qr>>
  \/ machine = "glob" /\ G!GlobNext /\ UNCHANGED <<jsonVars, memoryVars, filesVars, page, qr>>
  \/ machine = "html" /\ H!HtmlNext /\ UNCHANGED <<jsonVars, memoryVars, filesVars, globVars, qr>>
  \/ machine = "qr" /\ QrNext /\ UNCHANGED <<jsonVars, memoryVars, filesVars, globVars, page>>

MCNext ==
  /\ UNCHANGED machine
  /\ \/ Terminal /\ UNCHANGED dataVars
     \/ Data /\ UNCHANGED terminalVars

MCSpec == MCInit /\ [][MCNext]_mcVars

FrameIsOnScreen == L!FrameIsOnScreen
CommittedStays == L!CommittedStays
TextStaysInPlace == S!TextStaysInPlace
JsonIsRead == machine = "json" => J!JsonIsRead
MemoryIsKept == M!NothingIsForgotten /\ M!RecalledWasLearned
EditsAreMade == F!EditsAreMade
GlobFindsWhatFits == machine = "glob" => G!GlobFindsWhatFits
WordsAreKept == machine = "html" => H!WordsAreKept
PageIsConverted == machine = "html" => H!PageIsConverted

FourRows == <<"a", "b", "c", "d">>
TwoChars == {<<"lead", "tail">>, <<"/">>}
JsonAlphabets ==
  {{"quote", "bslash", "n", "u", "4hex", "4sur"},
   {"quote", "bslash", "LF", "FF", "f", "0"},
   {"[", "]", "{", "}", "quote", ":", ",", "0"},
   {"-", "0", "1", ".", "e", "+", " "}}
TwoLearnings ==
  {[id |-> "k", text |-> <<"w", "quote">>], [id |-> "k", text |-> <<"bslash", "n">>]}
OneSummary == {<<"w">>}
ShortTexts == UNION {[1..n -> {"a", "b"}] : n \in 0..3}
FewPatterns == {<<>>, <<"a">>, <<"a", "a">>}

A == <<"a">>
AB == <<"a", "b">>
T == <<"t">>
FourTrees ==
  {{<<A>>, <<AB>>, <<AB, A>>, <<AB, A, AB>>, <<T>>, <<T, A>>},
   {<<A>>, <<A, A>>, <<A, A, A>>, <<A, T>>, <<A, T, A>>, <<A, AB>>},
   {<<A>>, <<A, T>>, <<A, AB>>, <<A, AB, A>>, <<T>>},
   {}}
SevenSegments == {A, <<"*", "*">>, <<"*">>, <<"*", "a">>, <<"a", "*">>, <<"?", "b">>, <<"?">>}
OneIgnored == {T}

(* None, the first text of a version and the last of others. *)
QrLengths == {0, 14, 15, 106, 122, 152, 180, 213}
AsciiTexts == {[i \in 1..n |-> (37 * i) % 128] : n \in QrLengths}
ThreeSlacks == {-1, 0, 3}
=============================================================================
