----------------------------- MODULE AgentLoop -----------------------------
(***************************************************************************)
(* The agent thread (src/agent/agent.rs): Agent::run, handle_input,        *)
(* agentic_loop, check_permission and shutdown, as one sequential process  *)
(* whose steps are the segments of code between two awaits or two sends.   *)
(*                                                                         *)
(* The outside of the thread - the LLM, the tools, the MCP and LSP servers *)
(* - appears as the outcomes the code tells apart: a stream ends with one  *)
(* of Replies or fails, a tool ends with Ok or Err, the evolve step        *)
(* succeeds or fails.  The peer that owns the other ends of the channels   *)
(* is the UI of TuiSession; here it is an open environment that sends any  *)
(* event at any time, so what is proved of this module holds of every UI.  *)
(***************************************************************************)
EXTENDS Protocol

CONSTANTS
    Registered,     \* names present in the agent's ToolRegistry
    ReadOnly,       \* registered tools whose permission_level is ReadOnly
    AgentTool,      \* the name "Agent": its uses run concurrently
    LspTools,       \* tools that start a language server when they run
    Mode,           \* AgentConfig::permission_mode
    MaxIterations,  \* AgentConfig::max_iterations
    KeepRecent,     \* keep_recent of compact_if_needed: 2*KeepRecent messages stay
    Replies         \* replies of the model: [uses |-> Seq(Tools), endTurn |-> BOOLEAN]

ASSUME AgentAssumption ==
    /\ Registered \subseteq Tools
    /\ ReadOnly \subseteq Registered
    /\ LspTools \subseteq Tools
    /\ Mode \in {"Default", "Auto", "Bypass"}
    /\ MaxIterations \in Nat
    /\ KeepRecent \in Nat
    /\ Replies \subseteq [uses : Seq(Tools), endTurn : BOOLEAN]

VARIABLES
    pc,        \* where the agent thread stands
    messages,  \* Agent::messages, the conversation sent to the model
    granted,   \* PermissionManager::session_allowed
    iter,      \* rounds of agentic_loop started in this turn
    uses,      \* tool names of the reply being executed
    status,    \* what has become of each of those uses
    current,   \* the use that is being asked about or executed, 0 for none
    servers    \* kinds of server processes that are running

agentVars == <<pc, messages, granted, iter, uses, status, current, servers>>
loopVars == <<channelVars, agentVars, bounds>>

-----------------------------------------------------------------------------
(* Messages of the conversation.  Text and summaries are user messages;    *)
(* a results message is a user message of ToolResult blocks.               *)
UserText == [kind |-> "text", uses |-> <<>>, ids |-> {}]
Summary == [kind |-> "summary", uses |-> <<>>, ids |-> {}]
Assistant(names) == [kind |-> "assistant", uses |-> names, ids |-> {}]
Results(ids) == [kind |-> "results", uses |-> <<>>, ids |-> ids]

Conversation ==
    [kind : {"text", "summary", "assistant", "results"},
     uses : Seq(Tools), ids : SUBSET Nat]

Statuses == {"todo", "approved", "refused", "running", "finished", "answered"}
With(s) == {i \in DOMAIN status : status[i] = s}

(* i is the use of index set S that the code reaches first.                *)
First(i, S) == i \in S /\ \A j \in S : i <= j

(* Ordinary tools are asked about and run in order, before any Agent use.  *)
Ordinary == {i \in With("todo") : uses[i] # AgentTool}
NextUse(i) ==
    IF Ordinary # {} THEN First(i, Ordinary) ELSE First(i, With("todo"))

(* A turn is being worked on, from the event that starts it to its Done.   *)
TurnStates == {"retrieving", "compacting", "streaming", "tools", "asking", "executing"}
ExitStates == {"evolving", "closingMcp", "closingLsp", "exited"}
InTurn == pc \in TurnStates

(* Mutant: the turn's end is not announced.                                *)
TurnEndWithoutDone == <<Plain("Tokens")>>

TurnEnd == <<Plain("Tokens"), Plain("Done")>>
TurnFailed == <<Plain("Error"), Plain("Done")>>

-----------------------------------------------------------------------------
AgentInit ==
    /\ pc = "idle"
    /\ messages = <<>>
    /\ granted = {}
    /\ iter = 0
    /\ uses = <<>>
    /\ status = <<>>
    /\ current = 0
    /\ servers \in {{}, {"mcp"}}

(* Agent::run at recv().await: an Input, SlashCommand or ColonCommand      *)
(* starts a turn.                                                          *)
RecvInput ==
    /\ pc = "idle"
    /\ eventQ # <<>>
    /\ Head(eventQ).type \in {"Input", "Command"}
    /\ eventQ' = Tail(eventQ)
    /\ Send(<<Plain("Thinking")>>)
    /\ pc' = "retrieving"
    /\ UNCHANGED <<uiOpen, agentOpen, messages, granted, iter, uses, status, current,
                   servers, bounds>>

(* Mutant: Quit is taken like an event that means nothing between turns.   *)
RecvQuitIgnored ==
    /\ pc = "idle"
    /\ eventQ # <<>>
    /\ Head(eventQ).type \in {"Quit", "Exit"}
    /\ eventQ' = Tail(eventQ)
    /\ UNCHANGED <<msgQ, uiOpen, agentOpen, agentVars, bounds>>

(* Quit, or the input "/exit": shutdown() starts with evolve().            *)
RecvQuit ==
    /\ pc = "idle"
    /\ eventQ # <<>>
    /\ Head(eventQ).type \in {"Quit", "Exit"}
    /\ eventQ' = Tail(eventQ)
    /\ pc' = "evolving"
    /\ UNCHANGED <<msgQ, uiOpen, agentOpen, messages, granted, iter, uses, status,
                   current, servers, bounds>>

(* Between turns an Interrupt or a PermissionResponse is ignored.          *)
RecvIgnored ==
    /\ pc = "idle"
    /\ eventQ # <<>>
    /\ Head(eventQ).type \in {"Interrupt", "PermissionResponse"}
    /\ eventQ' = Tail(eventQ)
    /\ UNCHANGED <<msgQ, uiOpen, agentOpen, agentVars, bounds>>

(* run() returns: both of the agent's channel ends are dropped.            *)
Return ==
    /\ pc' = "exited"
    /\ agentOpen' = FALSE
    /\ eventQ' = <<>>
    /\ UNCHANGED <<uiOpen, messages, granted, iter, uses, status, current, bounds>>

(* The event channel is closed: run() breaks out without shutdown().       *)
RecvClosed ==
    /\ pc = "idle"
    /\ EventsClosed
    /\ Return
    /\ UNCHANGED <<msgQ, servers>>

-----------------------------------------------------------------------------
(* The head of agentic_loop: another round of at most MaxIterations, or    *)
(* the end of the turn.  `sent` is sent first in the same segment.         *)
NextRound(sent) ==
    IF iter' <= MaxIterations
    THEN pc' = "streaming" /\ Send(sent)
    ELSE pc' = "idle" /\ Send(sent \o TurnEnd)

(* handle_input: after retrieve_relevant the text joins the conversation;  *)
(* an estimate over the threshold, with more than 2*KeepRecent messages,   *)
(* leads to compaction first.                                              *)
Retrieve ==
    /\ pc = "retrieving"
    /\ messages' = Append(messages, UserText)
    /\ iter' = 1
    /\ \E found \in BOOLEAN, overLimit \in BOOLEAN :
         LET sent == IF found THEN <<Plain("Status")>> ELSE <<>> IN
           IF overLimit /\ Len(messages') > 2 * KeepRecent
           THEN pc' = "compacting" /\ Send(sent)
           ELSE NextRound(sent)
    /\ UNCHANGED <<eventQ, uiOpen, agentOpen, granted, uses, status, current, servers, bounds>>

(* compact_if_needed: the oldest messages are replaced by one summary.     *)
Compacted == <<Summary>> \o SubSeq(messages, Len(messages) - 2 * KeepRecent + 1, Len(messages))

Compact ==
    /\ pc = "compacting"
    /\ messages' = Compacted
    /\ iter' = iter
    /\ NextRound(<<>>)
    /\ UNCHANGED <<eventQ, uiOpen, agentOpen, granted, uses, status, current, servers, bounds>>

(* The summary call or the round's stream failed: handle_input returns Err *)
(* and run() reports it; the conversation keeps what it had.               *)
TurnFails ==
    /\ pc \in {"compacting", "streaming"}
    /\ pc' = "idle"
    /\ Send(TurnFailed)
    /\ UNCHANGED <<eventQ, uiOpen, agentOpen, messages, granted, iter, uses, status,
                   current, servers, bounds>>

(* stream_agent_async calls on_text for each text delta.                   *)
StreamText ==
    /\ pc = "streaming"
    /\ streamed < MaxChunks
    /\ streamed' = streamed + 1
    /\ \E kind \in ChunkKinds : Send(<<Chunk(kind)>>)
    /\ UNCHANGED <<eventQ, uiOpen, agentOpen, agentVars, inputs>>

(* Mutant: the last round does not execute what its reply calls.           *)
EndsTurnAtLimit(reply) == reply.uses = <<>> \/ reply.endTurn \/ iter = MaxIterations

EndsTurn(reply) == reply.uses = <<>> \/ reply.endTurn

(* The stream ends: the reply joins the conversation, and either the turn  *)
(* is over or its tool uses are to be executed.                            *)
StreamEnds(reply) ==
    /\ pc = "streaming"
    /\ messages' = Append(messages, Assistant(reply.uses))
    /\ IF EndsTurn(reply)
       THEN /\ pc' = "idle"
            /\ Send(TurnEnd)
            /\ UNCHANGED <<uses, status>>
       ELSE /\ pc' = "tools"
            /\ uses' = reply.uses
            /\ status' = [i \in DOMAIN reply.uses |-> "todo"]
            /\ UNCHANGED msgQ
    /\ UNCHANGED <<eventQ, uiOpen, agentOpen, granted, iter, current, servers, bounds>>

-----------------------------------------------------------------------------
(* check_permission, its short cuts.                                       *)
AllowedWithoutAsking(tool) ==
    Mode = "Bypass" \/ tool \in ReadOnly \/ tool \in granted

(* A permitted use: an Agent use waits for its batch, a registered tool    *)
(* starts, an unknown name is answered with an error.                      *)
Approve(i) ==
    IF uses[i] = AgentTool
    THEN /\ status' = [status EXCEPT ![i] = "approved"]
         /\ pc' = "tools" /\ current' = 0
         /\ UNCHANGED msgQ
    ELSE IF uses[i] \in Registered
    THEN /\ status' = [status EXCEPT ![i] = "running"]
         /\ pc' = "executing" /\ current' = i
         /\ Send(<<ToolMsg("ToolStart", i)>>)
    ELSE /\ status' = [status EXCEPT ![i] = "answered"]
         /\ pc' = "tools" /\ current' = 0
         /\ Send(<<ToolMsg("ToolError", i)>>)

(* A denied use is answered "permission denied", an Agent use with its     *)
(* batch.                                                                  *)
Refuse(i) ==
    /\ pc' = "tools" /\ current' = 0
    /\ IF uses[i] = AgentTool
       THEN /\ status' = [status EXCEPT ![i] = "refused"]
            /\ UNCHANGED msgQ
       ELSE /\ status' = [status EXCEPT ![i] = "answered"]
            /\ Send(<<ToolMsg("ToolError", i)>>)

CheckAllowed(i) ==
    /\ pc = "tools" /\ NextUse(i)
    /\ AllowedWithoutAsking(uses[i])
    /\ Approve(i)
    /\ UNCHANGED <<eventQ, uiOpen, agentOpen, messages, granted, iter, uses, servers, bounds>>

CheckAuto(i) ==
    /\ pc = "tools" /\ NextUse(i)
    /\ ~AllowedWithoutAsking(uses[i]) /\ Mode = "Auto"
    /\ granted' = granted \cup {uses[i]}
    /\ Approve(i)
    /\ UNCHANGED <<eventQ, uiOpen, agentOpen, messages, iter, uses, servers, bounds>>

Ask(i) ==
    /\ pc = "tools" /\ NextUse(i)
    /\ ~AllowedWithoutAsking(uses[i]) /\ Mode = "Default"
    /\ pc' = "asking" /\ current' = i
    /\ Send(<<Request(uses[i])>>)
    /\ UNCHANGED <<eventQ, uiOpen, agentOpen, messages, granted, iter, uses, status,
                   servers, bounds>>

(* The events that end the waiting loop of check_permission: Allow and     *)
(* AlwaysAllow both grant, Deny and an Interrupt refuse.  Mutant: any      *)
(* response is taken for consent.                                          *)
PermitsWhateverAnswer(e) == e.type = "PermissionResponse"
Permits(e) == e.type = "PermissionResponse" /\ e.answer \in {"Allow", "AlwaysAllow"}
Denies(e) == e.type = "Interrupt" \/ (e.type = "PermissionResponse" /\ e.answer = "Deny")

AnswerAllows ==
    /\ pc = "asking" /\ eventQ # <<>>
    /\ Permits(Head(eventQ))
    /\ eventQ' = Tail(eventQ)
    /\ granted' = granted \cup {uses[current]}
    /\ Approve(current)
    /\ UNCHANGED <<uiOpen, agentOpen, messages, iter, uses, servers, bounds>>

AnswerDenies ==
    /\ pc = "asking" /\ eventQ # <<>>
    /\ Denies(Head(eventQ))
    /\ eventQ' = Tail(eventQ)
    /\ Refuse(current)
    /\ UNCHANGED <<uiOpen, agentOpen, messages, granted, iter, uses, servers, bounds>>

(* `Ok(_) => continue`: any other event is taken and forgotten.            *)
AskSwallows ==
    /\ pc = "asking" /\ eventQ # <<>>
    /\ Head(eventQ).type \in {"Input", "Exit", "Command", "Quit"}
    /\ eventQ' = Tail(eventQ)
    /\ UNCHANGED <<msgQ, uiOpen, agentOpen, agentVars, bounds>>

(* Mutant: a closed channel is waited for again.                           *)
AskClosedWaits == pc = "asking" /\ EventsClosed /\ UNCHANGED loopVars

AskClosed ==
    /\ pc = "asking" /\ EventsClosed
    /\ Refuse(current)
    /\ UNCHANGED <<eventQ, uiOpen, agentOpen, messages, granted, iter, uses, servers, bounds>>

-----------------------------------------------------------------------------
(* tool.execute() of an ordinary tool ends with Ok or Err.                 *)
ToolEnds ==
    /\ pc = "executing"
    /\ status' = [status EXCEPT ![current] = "answered"]
    /\ pc' = "tools" /\ current' = 0
    /\ \E type \in {"ToolEnd", "ToolError"} : Send(<<ToolMsg(type, current)>>)
    /\ \/ UNCHANGED servers
       \/ uses[current] \in LspTools /\ servers' = servers \cup {"lsp"}
    /\ UNCHANGED <<eventQ, uiOpen, agentOpen, messages, granted, iter, uses, bounds>>

(* Every use is decided: the permitted Agent uses are started in order ... *)
LaunchAgent(i) ==
    /\ pc = "tools" /\ With("todo") = {}
    /\ First(i, With("approved"))
    /\ IF AgentTool \in Registered
       THEN /\ status' = [status EXCEPT ![i] = "running"]
            /\ Send(<<ToolMsg("ToolStart", i)>>)
       ELSE /\ status' = [status EXCEPT ![i] = "refused"]
            /\ UNCHANGED msgQ
    /\ UNCHANGED <<eventQ, uiOpen, agentOpen, pc, messages, granted, iter, uses, current,
                   servers, bounds>>

(* ... the refused ones are answered ...                                   *)
AnswerRefused(i) ==
    /\ pc = "tools" /\ With("todo") \cup With("approved") = {}
    /\ First(i, With("refused"))
    /\ status' = [status EXCEPT ![i] = "answered"]
    /\ Send(<<ToolMsg("ToolError", i)>>)
    /\ UNCHANGED <<eventQ, uiOpen, agentOpen, pc, messages, granted, iter, uses, current,
                   servers, bounds>>

(* ... join_all: the started ones end in any order ...                     *)
AgentEnds(i) ==
    /\ pc = "tools" /\ With("todo") \cup With("approved") \cup With("refused") = {}
    /\ i \in With("running")
    /\ status' = [status EXCEPT ![i] = "finished"]
    /\ UNCHANGED <<channelVars, pc, messages, granted, iter, uses, current, servers, bounds>>

(* ... and when all have ended they are reported in order.                 *)
ReportAgent(i) ==
    /\ pc = "tools" /\ With("running") = {}
    /\ With("todo") \cup With("approved") \cup With("refused") = {}
    /\ First(i, With("finished"))
    /\ status' = [status EXCEPT ![i] = "answered"]
    /\ \E type \in {"ToolEnd", "ToolError"} : Send(<<ToolMsg(type, i)>>)
    /\ UNCHANGED <<eventQ, uiOpen, agentOpen, pc, messages, granted, iter, uses, current,
                   servers, bounds>>

(* Mutant: the concurrent Agent uses are not waited for.                   *)
OrdinaryAnswered == Ordinary = {} /\ With("approved") = {}
AllAnswered == DOMAIN status = With("answered")

(* Every use has its result: the results join the conversation and the     *)
(* next round starts.                                                      *)
FinishRound ==
    /\ pc = "tools" /\ AllAnswered
    /\ messages' = Append(messages, Results(With("answered")))
    /\ iter' = iter + 1
    /\ NextRound(<<>>)
    /\ uses' = <<>> /\ status' = <<>>
    /\ UNCHANGED <<eventQ, uiOpen, agentOpen, granted, current, servers, bounds>>

-----------------------------------------------------------------------------
(* shutdown(): evolve() first, then the MCP and the LSP servers.           *)
EvolveEnds ==
    /\ pc = "evolving"
    /\ pc' = "closingMcp"
    /\ UNCHANGED <<channelVars, messages, granted, iter, uses, status, current, servers, bounds>>

(* evolve() fails in an LLM call or a write, and `?` leaves run() with it. *)
EvolveFails ==
    /\ pc = "evolving"
    /\ Len(messages) >= 2
    /\ Return
    /\ UNCHANGED <<msgQ, servers>>

CloseMcp ==
    /\ pc = "closingMcp"
    /\ servers' = servers \ {"mcp"}
    /\ pc' = "closingLsp"
    /\ UNCHANGED <<channelVars, messages, granted, iter, uses, status, current, bounds>>

CloseLsp ==
    /\ pc = "closingLsp"
    /\ servers' = servers \ {"lsp"}
    /\ Send(<<Plain("Evolved")>>)
    /\ Return

AgentReceives == RecvInput \/ RecvQuit \/ RecvIgnored \/ RecvClosed

RoundEnds == Retrieve \/ Compact \/ TurnFails \/ \E reply \in Replies : StreamEnds(reply)

AskEnds == AnswerAllows \/ AnswerDenies \/ AskSwallows \/ AskClosed

ToolStep ==
    \/ ToolEnds
    \/ FinishRound
    \/ \E i \in DOMAIN status :
         \/ CheckAllowed(i) \/ CheckAuto(i) \/ Ask(i)
         \/ LaunchAgent(i) \/ AnswerRefused(i) \/ AgentEnds(i) \/ ReportAgent(i)

Shutdown == EvolveEnds \/ EvolveFails \/ CloseMcp \/ CloseLsp

AgentNext == AgentReceives \/ RoundEnds \/ AskEnds \/ ToolStep \/ Shutdown \/ StreamText

-----------------------------------------------------------------------------
(* An arbitrary peer: sends any event, on its own or as its answer to a    *)
(* message it receives; receives; or drops its ends.                       *)
TakesMessage == msgQ # <<>> /\ msgQ' = Tail(msgQ)

PeerSends ==
    /\ uiOpen /\ Len(eventQ) < EventCap
    /\ \E e \in AgentEvents :
         /\ IF e.type \in {"Input", "Command"}
            THEN inputs < MaxInputs /\ inputs' = inputs + 1
            ELSE UNCHANGED inputs
         /\ SendEvent(e)
    /\ UNCHANGED msgQ \/ TakesMessage
    /\ UNCHANGED <<uiOpen, agentOpen, agentVars, streamed>>

PeerReceives ==
    /\ uiOpen /\ TakesMessage
    /\ UNCHANGED <<eventQ, uiOpen, agentOpen, agentVars, bounds>>

PeerLeaves ==
    /\ uiOpen
    /\ uiOpen' = FALSE /\ msgQ' = <<>>
    /\ UNCHANGED <<eventQ, agentOpen, agentVars, bounds>>

LoopInit == ChannelsInit /\ AgentInit

(* Both sides have returned: the program is over.                          *)
BothReturned == pc = "exited" /\ ~uiOpen

LoopNext ==
    \/ AgentNext \/ PeerSends \/ PeerReceives \/ PeerLeaves
    \/ BothReturned /\ UNCHANGED loopVars

LoopSpec == LoopInit /\ [][LoopNext]_loopVars

-----------------------------------------------------------------------------
AgentTypeOK ==
    /\ pc \in {"idle"} \cup TurnStates \cup ExitStates
    /\ messages \in Seq(Conversation)
    /\ granted \subseteq Tools
    /\ iter \in 0..(MaxIterations + 1)
    /\ uses \in Seq(Tools)
    /\ status \in [DOMAIN uses -> Statuses]
    /\ current \in Nat
    /\ servers \subseteq {"mcp", "lsp"}

LoopTypeOK == ChannelsTypeOK /\ AgentTypeOK

(***************************************************************************)
(* tool_use -> tool_result: a message of tool results answers exactly the  *)
(* tool uses of the assistant message before it; only compaction may have  *)
(* replaced that message by its summary.                                   *)
(***************************************************************************)
ResultsAnswerUses ==
    \A i \in DOMAIN messages :
        messages[i].kind = "results" =>
            /\ i > 1
            /\ \/ messages[i - 1].kind = "summary"
               \/ /\ messages[i - 1].kind = "assistant"
                  /\ messages[i].ids = DOMAIN messages[i - 1].uses

(***************************************************************************)
(* tool_use -> tool_result, the other way: a tool use is followed by its   *)
(* results before the conversation goes on.                                *)
(***************************************************************************)
EveryUseIsAnswered ==
    \A i \in 1..(Len(messages) - 1) :
        messages[i].uses # <<>> => messages[i + 1].kind = "results"

=============================================================================
