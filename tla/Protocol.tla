------------------------------ MODULE Protocol ------------------------------
(***************************************************************************)
(* The two channels between the UI thread and the agent thread             *)
(* (src/main.rs, src/agent/protocol.rs, src/agent/channel.rs).             *)
(*                                                                         *)
(*   eventQ   UI -> agent: the async_channel of AgentEvent;                *)
(*   msgQ     agent -> UI: the std mpsc channel of AgentMessage.           *)
(*                                                                         *)
(* `TerminalUI::run(self)` owns event_tx and msg_rx and `Agent::run(self)` *)
(* owns event_rx and msg_tx, so each side closes both of its ends in one   *)
(* step, when its run() returns: uiOpen and agentOpen.  A send to a closed *)
(* side is an Err that every caller discards (`let _ = tx.send(..)`).      *)
(* Texts, tool inputs and outputs are not represented; a message about a   *)
(* tool use carries the position of the use in the model's reply, which is *)
(* what its name, input and output are about.                              *)
(***************************************************************************)
EXTENDS Integers, Sequences, FiniteSets

CONSTANTS
    Tools,       \* names of tools a reply of the model may call
    NoTool,      \* "no permission prompt is pending"
    ChunkKinds,  \* shapes of a streamed text chunk (MarkdownParseBuffer in TuiSession)
    EventCap,    \* bound: an event is sent while fewer are in flight
    MaxInputs,   \* bound: lines the user submits
    MaxChunks    \* bound: text chunks the model streams

ASSUME ProtocolAssumption ==
    /\ NoTool \notin Tools
    /\ EventCap \in Nat
    /\ MaxInputs \in Nat
    /\ MaxChunks \in Nat

VARIABLES
    eventQ, msgQ, uiOpen, agentOpen,
    inputs,     \* lines submitted so far
    streamed    \* chunks streamed so far

channelVars == <<eventQ, msgQ, uiOpen, agentOpen>>
bounds == <<inputs, streamed>>

(* PermissionResponse: the three answers of the permission menu.           *)
Answers == {"Deny", "Allow", "AlwaysAllow"}

(***************************************************************************)
(* AgentEvent.  "Exit" is an Input whose trimmed text is "/exit";          *)
(* "Command" is a SlashCommand or a ColonCommand, which the agent treats   *)
(* alike.                                                                  *)
(***************************************************************************)
Event(type) == [type |-> type, answer |-> "Deny"]
Response(answer) == [type |-> "PermissionResponse", answer |-> answer]

EventTypes == {"Input", "Exit", "Command", "PermissionResponse", "Interrupt", "Quit"}
AgentEvents == [type : EventTypes, answer : Answers]

(***************************************************************************)
(* AgentMessage.  ToolEnd and ToolError are told apart by their type only. *)
(* Ready is sent once, before the loop starts, and touches only the        *)
(* welcome header: it is left out.                                         *)
(***************************************************************************)
PlainTypes == {"Thinking", "Status", "Tokens", "Done", "Error", "Evolved"}
ToolTypes == {"ToolStart", "ToolEnd", "ToolError"}

Plain(type) == [type |-> type, use |-> 0, tool |-> NoTool, chunk |-> "none"]
Chunk(kind) == [type |-> "TextChunk", use |-> 0, tool |-> NoTool, chunk |-> kind]
ToolMsg(type, use) == [type |-> type, use |-> use, tool |-> NoTool, chunk |-> "none"]
Request(tool) == [type |-> "PermissionRequest", use |-> 0, tool |-> tool, chunk |-> "none"]

AgentMessages ==
    [type  : PlainTypes \cup ToolTypes \cup {"TextChunk", "PermissionRequest"},
     use   : Nat,
     tool  : Tools \cup {NoTool},
     chunk : ChunkKinds \cup {"none"}]

(* msg_tx.send: queued for the UI, or dropped when the UI has returned.    *)
Send(messages) == msgQ' = IF uiOpen THEN msgQ \o messages ELSE msgQ

(* Mutant: a bounded channel, whose try_send loses an event when full.     *)
SendEventIfRoom(e) ==
    eventQ' = IF agentOpen /\ eventQ = <<>> THEN Append(eventQ, e) ELSE eventQ

(* event_tx.send: queued for the agent, or dropped when it has returned.   *)
SendEvent(e) == eventQ' = IF agentOpen THEN Append(eventQ, e) ELSE eventQ

(* The sender is gone and everything it sent was received: recv is Err.    *)
EventsClosed == eventQ = <<>> /\ ~uiOpen

(* Mutant: Empty is taken for Disconnected.                                *)
MessagesClosedWhenEmpty == msgQ = <<>>

MessagesClosed == msgQ = <<>> /\ ~agentOpen

ChannelsInit ==
    /\ eventQ = <<>>
    /\ msgQ = <<>>
    /\ uiOpen = TRUE
    /\ agentOpen = TRUE
    /\ inputs = 0
    /\ streamed = 0

ChannelsTypeOK ==
    /\ eventQ \in Seq(AgentEvents)
    /\ msgQ \in Seq(AgentMessages)
    /\ uiOpen \in BOOLEAN
    /\ agentOpen \in BOOLEAN
    /\ inputs \in 0..MaxInputs
    /\ streamed \in 0..MaxChunks

=============================================================================
