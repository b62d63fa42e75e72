---------------------------- MODULE VivSession ----------------------------
(***************************************************************************)
(* The program of src/main.rs: the UI thread (TuiSession) and the agent    *)
(* thread (AgentLoop) running concurrently over the two channels of        *)
(* Protocol.                                                               *)
(***************************************************************************)
EXTENDS AgentLoop, TuiSession

vars == <<channelVars, bounds, agentVars, uiVars>>

Init == ChannelsInit /\ AgentInit /\ UiInit

Next ==
    \/ AgentNext /\ UNCHANGED uiVars
    \/ UiNext /\ UNCHANGED agentVars
    \/ BothReturned /\ UNCHANGED vars

(***************************************************************************)
(* Fairness.  Both threads keep running: an enabled step of the agent      *)
(* other than one more text chunk is eventually taken (the LLM ends its    *)
(* stream or fails, a tool ends, recv() is polled again at the latest 10ms *)
(* after an event arrived), and so is an enabled step of the UI loop (it   *)
(* polls with a timeout).  Nothing is assumed of the user: no key is ever  *)
(* promised.                                                               *)
(***************************************************************************)
AgentProgress == AgentReceives \/ RoundEnds \/ AskEnds \/ ToolStep \/ Shutdown

Fairness ==
    /\ WF_vars(AgentProgress /\ UNCHANGED uiVars)
    /\ WF_vars(UiLoop /\ UNCHANGED agentVars)

Spec == Init /\ [][Next]_vars
FairSpec == Spec /\ Fairness

(* The UI is one of the peers AgentLoop allows.                            *)
IsAgentLoop == LoopSpec

-----------------------------------------------------------------------------
TypeOK == ChannelsTypeOK /\ AgentTypeOK /\ UiTypeOK

Consented(tool) == \E answer \in {"Allow", "AlwaysAllow"} : <<tool, answer>> \in answers

(***************************************************************************)
(* A tool is granted only if the user confirmed a prompt about that very   *)
(* tool: "How the user responded to a permission request" (protocol.rs).   *)
(* check_permission takes whatever PermissionResponse comes next.          *)
(***************************************************************************)
GrantsMatchAnswers == Mode = "Default" => \A tool \in granted : Consented(tool)

(***************************************************************************)
(* What is left of it: until the user first presses Ctrl+C during a turn,  *)
(* no response is ever taken for another tool's request.                   *)
(***************************************************************************)
CalmGrantsMatchAnswers == interrupts = 0 => GrantsMatchAnswers

RequestsQueued == {i \in DOMAIN msgQ : msgQ[i].type = "PermissionRequest"}
ResponsesQueued == {i \in DOMAIN eventQ : eventQ[i].type = "PermissionResponse"}

(***************************************************************************)
(* While both threads run, an agent that waits for an answer has exactly   *)
(* one question out - on its way to the UI, on the screen, or answered and *)
(* on its way back - and one that does not wait has none; the menu on the  *)
(* screen is about the pending tool.  An interrupt ends a wait without an  *)
(* answer and leaves its question behind.                                  *)
(***************************************************************************)
OneQuestionOut ==
    /\ uiOpen /\ agentOpen /\ interrupts = 0 =>
        Cardinality(RequestsQueued) + Cardinality(ResponsesQueued)
          + (IF pending # NoTool THEN 1 ELSE 0)
        = (IF pc = "asking" THEN 1 ELSE 0)
    /\ pending # NoTool <=> Prompts # {}
    /\ pending # NoTool /\ interrupts = 0 => blocks[FirstPrompt].tool = pending

(***************************************************************************)
(* Until the user quits, an agent that waits for an answer can still get   *)
(* one: the request, the prompt on the screen, or an event that ends the   *)
(* wait is there, whatever older questions and interrupts are on their     *)
(* way.  Once the user is quitting this is not so: handle_key swallows     *)
(* every key but Ctrl+C (terminal.rs), and a wait that begins behind the   *)
(* Quit swallows the Quit; the forced exit is then the only way out.       *)
(***************************************************************************)
EndsTheWait(e) == e.type \in {"PermissionResponse", "Interrupt"}
QuestionIsAnswerable ==
    uiOpen /\ ~quitting /\ pc = "asking" =>
        RequestsQueued # {} \/ pending # NoTool \/ \E i \in DOMAIN eventQ : EndsTheWait(eventQ[i])

(***************************************************************************)
(* When the UI has taken every message, its spinner tells the truth: busy  *)
(* exactly while the agent is in a turn.                                   *)
(***************************************************************************)
BusyMatchesTurn == uiOpen /\ agentOpen /\ msgQ = <<>> => (busy <=> InTurn)

(***************************************************************************)
(* When the UI has taken every message, the tools shown as running are the *)
(* uses the agent has started and not yet reported, as long as no two run  *)
(* side by side (finish_last_running_tool does not look at the name).      *)
(***************************************************************************)
RunningBlocksMatchAgent ==
    uiOpen /\ msgQ = <<>> /\ Cardinality(With("running") \cup With("finished")) < 2 =>
        {blocks[i].use : i \in RunningTools} = With("running") \cup With("finished")

(***************************************************************************)
(* A tool's result is shown on the block of that tool's own call: ToolEnd  *)
(* marks "the corresponding ToolCall" (inline-rendering design).           *)
(***************************************************************************)
ResultOnItsOwnCall ==
    \A i \in DOMAIN blocks :
        blocks[i].kind = "tool" /\ blocks[i].result # 0 => blocks[i].result = blocks[i].use

(***************************************************************************)
(* Text the parser holds back is on the screen as a Live block.            *)
(***************************************************************************)
HeldTextIsShown == uiPc # "done" /\ PeekPending(parser) => LiveMarkdown # {}

(***************************************************************************)
(* Text outside a code fence that is held back is let go of only with a    *)
(* new block that commits it to the scrollback - unless the line turned    *)
(* out to open a fence.  (A line of blanks shows nothing, and is dropped;  *)
(* so is a code block: the session lets the CodeBlock node fall.)          *)
(***************************************************************************)
CommittingMarkdown ==
    {i \in DOMAIN blocks : blocks[i].kind = "markdown" /\ blocks[i].state = "Committing"}
HoldsText == ~parser.fence /\ parser.buffer \in {"ticks", "text"}
LetsGo == ~parser'.fence /\ parser'.buffer = "none"
HeldTextIsCommitted ==
    [][uiPc = "drain" /\ HoldsText /\ LetsGo => CommittingMarkdown' \ DOMAIN blocks # {}]_vars

(***************************************************************************)
(* What the screen shows of the agent is so: at most one question is out,  *)
(* until the user quits it can be answered, the spinner turns during       *)
(* turns, and the tools shown as running are the ones that run.            *)
(***************************************************************************)
ScreenMatchesAgent ==
    OneQuestionOut /\ QuestionIsAnswerable /\ BusyMatchesTurn /\ RunningBlocksMatchAgent

(***************************************************************************)
(* Streamed text that the parser holds back is never out of sight: it is   *)
(* shown as a Live block until it is committed.                            *)
(***************************************************************************)
HeldTextIsKept == []HeldTextIsShown /\ HeldTextIsCommitted

-----------------------------------------------------------------------------
(***************************************************************************)
(* A turn ends by itself, unless it has put a question to the user.        *)
(***************************************************************************)
TurnEndsOrAsks == InTurn ~> (~InTurn \/ pending # NoTool)

(***************************************************************************)
(* When the agent has returned, so does the UI; and when the UI has        *)
(* returned, so does the agent, so main()'s join() comes back.             *)
(***************************************************************************)
ExitsAreNoticed ==
    /\ ~agentOpen ~> uiPc = "done"
    /\ uiPc = "done" ~> ~agentOpen

(***************************************************************************)
(* Agent::run reads events until Quit: a Quit on its way to the agent      *)
(* makes it return, unless a question comes first, whose waiting loop may  *)
(* swallow the Quit.                                                       *)
(***************************************************************************)
QuitWaiting == \E i \in DOMAIN eventQ : eventQ[i].type = "Quit"
QuitEndsAgent == QuitWaiting ~> (~agentOpen \/ pc = "asking")

=============================================================================
