---------------------------- MODULE TuiSession ----------------------------
(***************************************************************************)
(* The UI thread: TerminalUI::run (src/tui/terminal.rs), TuiSession        *)
(* (src/tui/session.rs), LiveRegion (src/tui/live_region.rs) and the       *)
(* permission menu (src/tui/permission.rs).                                *)
(*                                                                         *)
(* One pass of run() drains the messages of the agent one by one until it  *)
(* finds none, paints a frame, then handles the keys of one poll.  uiPc    *)
(* separates the two halves: a key is handled only after a drain came up   *)
(* empty, though messages may have arrived since.  The editor's text is    *)
(* not kept: at any time the user may submit or hold any text, so every    *)
(* outcome of LineEditor::handle_key that reaches the agent is offered.    *)
(***************************************************************************)
EXTENDS Protocol, Subsequences

CONSTANT MaxInterrupts  \* bound: times the user presses Ctrl+C during a turn

ASSUME InterruptsAssumption == MaxInterrupts \in Nat

VARIABLES
    uiPc,       \* "drain", "keys", or "done" when run() has returned
    busy,       \* TuiSession::busy
    quitting,   \* TuiSession::quitting
    pending,    \* the tool of pending_permission, or NoTool
    blocks,     \* LiveRegion::blocks
    parser,     \* state of the MarkdownParseBuffer
    answers,    \* history: <<tool, answer>> pairs the user confirmed
    interrupts  \* history: times Ctrl+C was pressed during a turn

history == <<answers, interrupts>>
uiVars == <<uiPc, busy, quitting, pending, blocks, parser, history>>

-----------------------------------------------------------------------------
(* LiveBlock.  A tool block keeps the use its ToolStart was about (name    *)
(* and input) and the use its ToolEnd was about (output): 0 while Running. *)
Markdown(state) ==
    [kind |-> "markdown", state |-> state, tool |-> NoTool, use |-> 0, result |-> 0, selected |-> 0]
ToolCall(use) ==
    [kind |-> "tool", state |-> "Live", tool |-> NoTool, use |-> use, result |-> 0, selected |-> 0]
Prompt(tool) ==
    [kind |-> "prompt", state |-> "Live", tool |-> tool, use |-> 0, result |-> 0, selected |-> 1]

Blocks ==
    [kind : {"markdown", "tool", "prompt"}, state : {"Live", "Committing"},
     tool : Tools \cup {NoTool}, use : Nat, result : Nat, selected : 0..2]

(* PermissionState: the menu order, with Allow preselected.                *)
Options == <<"Deny", "Allow", "AlwaysAllow">>
MoveUp(selected) == IF selected = 0 THEN Len(Options) - 1 ELSE selected - 1
MoveDown(selected) == (selected + 1) % Len(Options)

Prompts == {i \in DOMAIN blocks : blocks[i].kind = "prompt"}
RunningTools == {i \in DOMAIN blocks : blocks[i].kind = "tool" /\ blocks[i].result = 0}
LiveMarkdown == {i \in DOMAIN blocks : blocks[i].kind = "markdown" /\ blocks[i].state = "Live"}

(* permission_menu: the first prompt's menu is the one that is operated.   *)
FirstPrompt == CHOOSE i \in Prompts : \A j \in Prompts : i <= j

(* finish_last_running_tool: the most recent running block takes the       *)
(* result, whichever use it is about.                                      *)
LastRunning == CHOOSE i \in RunningTools : \A j \in RunningTools : j <= i
(* Mutant: the block is committed but still says Running.                  *)
CommitLastRunning(use) ==
    IF RunningTools = {} THEN blocks
    ELSE [blocks EXCEPT ![LastRunning].state = "Committing"]

FinishLastRunning(use) ==
    IF RunningTools = {} THEN blocks
    ELSE [blocks EXCEPT ![LastRunning].result = use, ![LastRunning].state = "Committing"]

(* drop_trailing_live_markdown.                                            *)
DropTrailingLive(bs) ==
    IF bs # <<>> /\ bs[Len(bs)].kind = "markdown" /\ bs[Len(bs)].state = "Live"
    THEN SubSeq(bs, 1, Len(bs) - 1)
    ELSE bs

-----------------------------------------------------------------------------
(***************************************************************************)
(* MarkdownParseBuffer (src/tui/content.rs), by what a chunk does to it.   *)
(* buffer: the line held so far, by what tells lines apart: nothing,       *)
(* blanks, two backticks, text that starts with three of them, any other   *)
(* text; fence: a code fence is open; code: the lines of the open fence -  *)
(* none, one empty line, anything else.  A chunk is a piece of a line,     *)
(* which "line", "fenceline" and "newline" also end; "text" starts with    *)
(* neither a blank nor a backtick.  A chunk of several lines does what its *)
(* lines do one by one.                                                    *)
(***************************************************************************)
Lines == {"none", "blank", "ticks", "fence", "text"}
ParserStates == [buffer : Lines, fence : BOOLEAN, code : {"none", "blank", "some"}]
EmptyParser == [buffer |-> "none", fence |-> FALSE, code |-> "none"]

EndsLine(kind) == kind \in {"line", "fenceline", "newline"}

Piece(kind) ==
    CASE kind \in {"text", "line"}       -> "text"
      [] kind \in {"fence", "fenceline"} -> "fence"
      [] kind \in {"blank", "ticks"}     -> kind
      [] OTHER                           -> "none"

(* The line held once the chunk's piece is there.  A fence is looked for   *)
(* at the start of the whole line; inside a fence, behind blanks too.      *)
Line(p, kind) ==
    LET piece == Piece(kind)
        joined == CASE p.buffer = "none"  -> piece
                    [] p.buffer = "blank" -> IF piece = "blank" \/ p.fence THEN piece ELSE "text"
                    [] p.buffer = "ticks" -> IF piece \in {"ticks", "fence"} THEN "fence" ELSE "text"
                    [] OTHER              -> p.buffer
    IN  IF piece = "none" THEN p.buffer ELSE joined

(* A line of code is kept until the fence is closed.                       *)
CodeWith(p, line) ==
    IF ~p.fence THEN "none"
    ELSE IF p.code = "none" /\ line = "none" THEN "blank" ELSE "some"

Push(p, kind) ==
    IF ~EndsLine(kind)
    THEN [p EXCEPT !.buffer = Line(p, kind)]
    ELSE IF Line(p, kind) = "fence"
         THEN [buffer |-> "none", fence |-> ~p.fence, code |-> "none"]
         ELSE [buffer |-> "none", fence |-> p.fence, code |-> CodeWith(p, Line(p, kind))]

(* Mutant: only the piece that ends the line is looked at.                 *)
CompletedByPiece(p, kind) ==
    IF EndsLine(kind) /\ ~p.fence /\ Piece(kind) = "text" THEN "markdown" ELSE "none"

(* The block a chunk completes, if any.  A completed line outside a fence  *)
(* is a Markdown block, unless it is blank or opens a fence; a closed      *)
(* fence is a CodeBlock.                                                   *)
Completed(p, kind) ==
    CASE EndsLine(kind) /\ p.fence /\ Line(p, kind) = "fence"             -> "code"
      [] EndsLine(kind) /\ ~p.fence /\ Line(p, kind) \in {"ticks", "text"} -> "markdown"
      [] OTHER                                                            -> "none"

(* Mutant: flush closes an open fence but lets a held line fall.           *)
FlushedFenceOnly(p) == IF p.fence THEN "code" ELSE "none"

(* flush: the held line is completed, an open fence - and one that the     *)
(* held line opens - is closed.                                            *)
Flushed(p) ==
    IF p.fence \/ p.buffer = "fence" THEN "code" ELSE Completed(p, "newline")

(* What flush leaves.  Mutant: the open fence and its lines stay.          *)
FlushedLineOnly(p) == [p EXCEPT !.buffer = "none"]
AfterFlush(p) == EmptyParser

PeekPending(p) == p.buffer # "none" \/ (p.fence /\ p.code = "some")

(* The session pushes Markdown blocks and lets CodeBlocks fall.            *)
CommitBlocks(kind) ==
    IF kind = "markdown" THEN <<Markdown("Committing")>> ELSE <<>>

-----------------------------------------------------------------------------
UiInit ==
    /\ uiPc = "drain"
    /\ busy = FALSE
    /\ quitting = FALSE
    /\ pending = NoTool
    /\ blocks = <<>>
    /\ parser = EmptyParser
    /\ answers = {}
    /\ interrupts = 0

(* Mutant: the receiver is drained, but neither end is dropped.            *)
LeaveOpen ==
    /\ uiPc' = "done"
    /\ msgQ' = <<>>
    /\ UNCHANGED uiOpen

(* run() returns: both of the UI's channel ends are dropped.               *)
Leave ==
    /\ uiPc' = "done"
    /\ uiOpen' = FALSE
    /\ msgQ' = <<>>

(* One message of the drain loop.                                          *)
Receive(type) ==
    /\ uiPc = "drain"
    /\ msgQ # <<>>
    /\ Head(msgQ).type = type
    /\ UNCHANGED <<eventQ, agentOpen, quitting, history, bounds>>

Took == msgQ' = Tail(msgQ) /\ UNCHANGED <<uiOpen, uiPc>>

OnThinking ==
    /\ Receive("Thinking") /\ Took
    /\ busy' = TRUE
    /\ UNCHANGED <<pending, blocks, parser>>

(* Completed blocks are committed, the rest is shown as the Live block.    *)
OnTextChunk ==
    /\ Receive("TextChunk") /\ Took
    /\ LET kind == Head(msgQ).chunk
           kept == DropTrailingLive(blocks \o CommitBlocks(Completed(parser, kind)))
       IN  /\ parser' = Push(parser, kind)
           /\ blocks' = IF PeekPending(parser') THEN Append(kept, Markdown("Live")) ELSE kept
    /\ UNCHANGED <<busy, pending>>

OnToolStart ==
    /\ Receive("ToolStart") /\ Took
    /\ blocks' = Append(blocks, ToolCall(Head(msgQ).use))
    /\ UNCHANGED <<busy, pending, parser>>

OnToolResult ==
    /\ \E type \in {"ToolEnd", "ToolError"} : Receive(type)
    /\ Took
    /\ blocks' = FinishLastRunning(Head(msgQ).use)
    /\ UNCHANGED <<busy, pending, parser>>

OnPermissionRequest ==
    /\ Receive("PermissionRequest") /\ Took
    /\ pending' = Head(msgQ).tool
    /\ blocks' = Append(blocks, Prompt(Head(msgQ).tool))
    /\ UNCHANGED <<busy, parser>>

(* Status text and token counts go to the scrollback and the status bar.   *)
OnStatus ==
    /\ \E type \in {"Status", "Tokens"} : Receive(type)
    /\ Took
    /\ UNCHANGED <<busy, pending, blocks, parser>>

OnDone ==
    /\ Receive("Done") /\ Took
    /\ blocks' = DropTrailingLive(blocks \o CommitBlocks(Flushed(parser)))
    /\ parser' = AfterFlush(parser)
    /\ busy' = FALSE
    /\ UNCHANGED pending

OnError ==
    /\ Receive("Error") /\ Took
    /\ busy' = FALSE
    /\ UNCHANGED <<pending, blocks, parser>>

OnEvolved ==
    /\ Receive("Evolved")
    /\ Leave
    /\ UNCHANGED <<busy, pending, blocks, parser>>

(* The drain comes up empty: the frame commits and removes the Committing  *)
(* blocks, and the keys of the next poll are handled.                      *)
RenderFrame ==
    /\ uiPc = "drain"
    /\ msgQ = <<>> /\ ~MessagesClosed
    /\ uiPc' = "keys"
    /\ blocks' = Keep(blocks, {i \in DOMAIN blocks : blocks[i].state = "Live"})
    /\ UNCHANGED <<channelVars, busy, quitting, pending, parser, history, bounds>>

(* ... or finds the channel disconnected.                                  *)
Disconnected ==
    /\ uiPc = "drain"
    /\ MessagesClosed
    /\ Leave
    /\ UNCHANGED <<eventQ, agentOpen, busy, quitting, pending, blocks, parser, history, bounds>>

(* poll(16) has no more keys.                                              *)
PollEnds ==
    /\ uiPc = "keys"
    /\ uiPc' = "drain"
    /\ UNCHANGED <<channelVars, busy, quitting, pending, blocks, parser, history, bounds>>

-----------------------------------------------------------------------------
(* While quitting every key but Ctrl+C is swallowed.                       *)
ForceExit ==
    /\ uiPc = "keys" /\ quitting
    /\ Leave
    /\ UNCHANGED <<eventQ, agentOpen, busy, quitting, pending, blocks, parser, history, bounds>>

(* While a permission is pending only Up, Down and Enter do anything.      *)
MenuMoves ==
    /\ uiPc = "keys" /\ ~quitting
    /\ pending # NoTool /\ Prompts # {}
    /\ \E move \in {MoveUp(blocks[FirstPrompt].selected), MoveDown(blocks[FirstPrompt].selected)} :
         blocks' = [blocks EXCEPT ![FirstPrompt].selected = move]
    /\ UNCHANGED <<channelVars, uiPc, busy, quitting, pending, parser, history, bounds>>

(* drop_permission_prompt.                                                 *)
WithoutPrompts == Keep(blocks, DOMAIN blocks \ Prompts)

MenuEnter ==
    /\ uiPc = "keys" /\ ~quitting
    /\ pending # NoTool
    /\ Len(eventQ) < EventCap
    /\ pending' = NoTool
    /\ IF Prompts = {}
       THEN UNCHANGED <<eventQ, blocks, answers>>
       ELSE \E answer \in Answers :
              /\ answer = Options[blocks[FirstPrompt].selected + 1]
              /\ SendEvent(Response(answer))
              /\ answers' = answers \cup {<<pending, answer>>}
              /\ blocks' = WithoutPrompts
    /\ UNCHANGED <<msgQ, uiOpen, agentOpen, uiPc, busy, quitting, parser, interrupts, bounds>>

(* Keys that reach the editor or the interrupt of a running turn.          *)
Typing(e) ==
    /\ uiPc = "keys" /\ ~quitting
    /\ pending = NoTool
    /\ Len(eventQ) < EventCap
    /\ SendEvent(Event(e))
    /\ UNCHANGED <<msgQ, uiOpen, agentOpen, uiPc, busy, pending, blocks, parser, answers,
                   streamed>>

CtrlC ==
    /\ busy
    /\ interrupts < MaxInterrupts
    /\ interrupts' = interrupts + 1
    /\ Typing("Interrupt")
    /\ UNCHANGED <<quitting, inputs>>

Submit ==
    /\ inputs < MaxInputs
    /\ inputs' = inputs + 1
    /\ \E e \in {"Input", "Command"} : Typing(e)
    /\ UNCHANGED <<quitting, interrupts>>

(* Ctrl+D on an empty editor.                                              *)
CtrlD ==
    /\ Typing("Quit")
    /\ quitting' = TRUE
    /\ UNCHANGED <<inputs, interrupts>>

(* " /exit" submitted in Chat mode.                                        *)
SubmitExit ==
    /\ Typing("Exit")
    /\ UNCHANGED <<quitting, inputs, interrupts>>

UiReceives ==
    \/ OnThinking \/ OnTextChunk \/ OnToolStart \/ OnToolResult \/ OnPermissionRequest
    \/ OnStatus \/ OnDone \/ OnError \/ OnEvolved

UiLoop == UiReceives \/ RenderFrame \/ Disconnected \/ PollEnds

UiKey == ForceExit \/ MenuMoves \/ MenuEnter \/ CtrlC \/ Submit \/ CtrlD \/ SubmitExit

UiNext == UiLoop \/ UiKey

UiTypeOK ==
    /\ uiPc \in {"drain", "keys", "done"}
    /\ busy \in BOOLEAN
    /\ quitting \in BOOLEAN
    /\ pending \in Tools \cup {NoTool}
    /\ blocks \in Seq(Blocks)
    /\ parser \in ParserStates
    /\ answers \subseteq Tools \X Answers
    /\ interrupts \in 0..MaxInterrupts

=============================================================================
