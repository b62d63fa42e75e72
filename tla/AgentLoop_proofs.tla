-------------------------- MODULE AgentLoop_proofs --------------------------
(***************************************************************************)
(* Theorems about AgentLoop: for every set of tools, every mode, every     *)
(* reply of the model and every peer at the other end of the channels.     *)
(***************************************************************************)
EXTENDS AgentLoop, SequenceTheorems, TLAPS

-----------------------------------------------------------------------------
(* What the agent sends is a message of the protocol.                      *)
LEMMA MessageTypes ==
    /\ \A type \in PlainTypes : Plain(type) \in AgentMessages
    /\ \A kind \in ChunkKinds : Chunk(kind) \in AgentMessages
    /\ \A type \in ToolTypes : \A use \in Nat : ToolMsg(type, use) \in AgentMessages
    /\ \A tool \in Tools : Request(tool) \in AgentMessages
  BY DEF Plain, Chunk, ToolMsg, Request, AgentMessages, PlainTypes, ToolTypes

(* Sending protocol messages keeps the queue to the UI well typed.         *)
LEMMA SendKeepsType ==
  ASSUME msgQ \in Seq(AgentMessages), NEW ms \in Seq(AgentMessages), Send(ms)
  PROVE  msgQ' \in Seq(AgentMessages)
  BY ConcatProperties DEF Send

LEMMA SendOneKeepsType ==
  ASSUME msgQ \in Seq(AgentMessages), NEW m \in AgentMessages, Send(<<m>>)
  PROVE  msgQ' \in Seq(AgentMessages)
<1>1. <<m>> \in Seq(AgentMessages)
  OBVIOUS
<1>2. QED BY <1>1, SendKeepsType

(* The sequences of several messages that end a turn.                      *)
LEMMA TurnEndTypes ==
    /\ <<>> \in Seq(AgentMessages)
    /\ <<Plain("Status")>> \in Seq(AgentMessages)
    /\ TurnEnd \in Seq(AgentMessages)
    /\ TurnFailed \in Seq(AgentMessages)
<1>1. /\ Plain("Status") \in AgentMessages /\ Plain("Tokens") \in AgentMessages
      /\ Plain("Done") \in AgentMessages /\ Plain("Error") \in AgentMessages
  BY MessageTypes DEF PlainTypes
<1>2. QED BY <1>1, EmptySeq DEF TurnEnd, TurnFailed

LEMMA NextRoundType ==
  ASSUME msgQ \in Seq(AgentMessages), NEW ms \in Seq(AgentMessages), NextRound(ms)
  PROVE  /\ msgQ' \in Seq(AgentMessages)
         /\ pc' \in {"streaming", "idle"}
         /\ pc' = "streaming" => iter' <= MaxIterations
<1>1. ms \o TurnEnd \in Seq(AgentMessages)
  BY TurnEndTypes, ConcatProperties
<1>2. QED BY <1>1, SendKeepsType DEF NextRound

-----------------------------------------------------------------------------
(***************************************************************************)
(* The strengthening that makes the type invariant inductive: a round in   *)
(* progress is within the limit, the use in hand is one of the reply's,    *)
(* and compaction is only tried on a conversation longer than what stays.  *)
(***************************************************************************)
LoopInv ==
    /\ LoopTypeOK
    /\ pc \in {"streaming", "tools", "asking", "executing"} => iter <= MaxIterations
    /\ pc \in {"asking", "executing"} => current \in DOMAIN uses
    /\ pc = "compacting" => Len(messages) > 2 * KeepRecent

(* Taking or adding an event keeps the queue to the agent well typed.      *)
LEMMA EventQueueType ==
  ASSUME eventQ \in Seq(AgentEvents)
  PROVE  /\ <<>> \in Seq(AgentEvents)
         /\ eventQ # <<>> => Tail(eventQ) \in Seq(AgentEvents) /\ Head(eventQ) \in AgentEvents
         /\ \A e \in AgentEvents : Append(eventQ, e) \in Seq(AgentEvents)
  BY EmptySeq, HeadTailProperties

LEMMA LoopInvInit == LoopInit => LoopInv
<1> SUFFICES ASSUME LoopInit PROVE LoopInv
  OBVIOUS
<1>1. ChannelsTypeOK
  <2>1. eventQ \in Seq(AgentEvents) /\ msgQ \in Seq(AgentMessages)
    BY EmptySeq DEF LoopInit, ChannelsInit
  <2>2. uiOpen \in BOOLEAN /\ agentOpen \in BOOLEAN
    BY DEF LoopInit, ChannelsInit
  <2>3. inputs \in 0..MaxInputs /\ streamed \in 0..MaxChunks
    BY ProtocolAssumption DEF LoopInit, ChannelsInit
  <2>4. QED BY <2>1, <2>2, <2>3 DEF ChannelsTypeOK
<1>2. AgentTypeOK
  <2>1. messages \in Seq(Conversation) /\ uses \in Seq(Tools)
    BY EmptySeq DEF LoopInit, AgentInit
  <2>2. status \in [DOMAIN uses -> Statuses]
    BY DEF LoopInit, AgentInit
  <2>3. iter \in 0..(MaxIterations + 1) /\ current \in Nat
    BY AgentAssumption DEF LoopInit, AgentInit
  <2>4. granted \subseteq Tools /\ servers \subseteq {"mcp", "lsp"}
    BY DEF LoopInit, AgentInit
  <2>5. QED BY <2>1, <2>2, <2>3, <2>4 DEF AgentTypeOK, LoopInit, AgentInit
<1>3. QED BY <1>1, <1>2 DEF LoopInv, LoopTypeOK, LoopInit, AgentInit

-----------------------------------------------------------------------------
(* What the ends of a permission check leave behind.                       *)
LEMMA ApproveType ==
  ASSUME LoopInv, NEW i \in DOMAIN uses, Approve(i)
  PROVE  /\ msgQ' \in Seq(AgentMessages)
         /\ status' \in [DOMAIN uses -> Statuses]
         /\ pc' \in {"tools", "executing"}
         /\ current' \in Nat
         /\ pc' = "executing" => current' = i
<1>1. i \in Nat
  BY DEF LoopInv, LoopTypeOK, AgentTypeOK
<1>2. ToolMsg("ToolStart", i) \in AgentMessages /\ ToolMsg("ToolError", i) \in AgentMessages
  BY <1>1, MessageTypes DEF ToolTypes
<1>3. msgQ \in Seq(AgentMessages) /\ status \in [DOMAIN uses -> Statuses]
  BY DEF LoopInv, LoopTypeOK, AgentTypeOK, ChannelsTypeOK
<1>4. msgQ' \in Seq(AgentMessages)
  BY <1>2, <1>3, SendOneKeepsType DEF Approve
<1>5. QED BY <1>1, <1>3, <1>4 DEF Approve, Statuses

LEMMA RefuseType ==
  ASSUME LoopInv, NEW i \in DOMAIN uses, Refuse(i)
  PROVE  /\ msgQ' \in Seq(AgentMessages)
         /\ status' \in [DOMAIN uses -> Statuses]
         /\ pc' = "tools" /\ current' = 0
<1>1. i \in Nat
  BY DEF LoopInv, LoopTypeOK, AgentTypeOK
<1>2. ToolMsg("ToolError", i) \in AgentMessages
  BY <1>1, MessageTypes DEF ToolTypes
<1>3. msgQ \in Seq(AgentMessages) /\ status \in [DOMAIN uses -> Statuses]
  BY DEF LoopInv, LoopTypeOK, AgentTypeOK, ChannelsTypeOK
<1>4. msgQ' \in Seq(AgentMessages)
  BY <1>2, <1>3, SendOneKeepsType DEF Refuse
<1>5. QED BY <1>3, <1>4 DEF Refuse, Statuses

(* The steps that take an event between turns.                             *)
LEMMA ReceivesKeepLoopInv ==
  ASSUME LoopInv, AgentReceives PROVE LoopInv'
<1> USE DEF LoopInv, LoopTypeOK, ChannelsTypeOK, AgentTypeOK, TurnStates, ExitStates
<1>1. CASE RecvInput
  <2>1. msgQ' \in Seq(AgentMessages)
    BY <1>1, MessageTypes, SendOneKeepsType DEF RecvInput, PlainTypes
  <2>2. eventQ' \in Seq(AgentEvents)
    BY <1>1, EventQueueType DEF RecvInput
  <2>3. QED BY <1>1, <2>1, <2>2 DEF RecvInput, bounds
<1>2. CASE RecvQuit
  BY <1>2, EventQueueType DEF RecvQuit, bounds
<1>3. CASE RecvIgnored
  BY <1>3, EventQueueType DEF RecvIgnored, agentVars, bounds
<1>4. CASE RecvClosed
  BY <1>4, EventQueueType DEF RecvClosed, Return, bounds
<1>5. QED BY <1>1, <1>2, <1>3, <1>4 DEF AgentReceives

(* Appending a message to the conversation.                                *)
LEMMA ConversationTypes ==
    /\ UserText \in Conversation
    /\ Summary \in Conversation
    /\ \A names \in Seq(Tools) : Assistant(names) \in Conversation
    /\ \A ids \in SUBSET Nat : Results(ids) \in Conversation
<1>1. <<>> \in Seq(Tools)
  BY EmptySeq
<1>2. QED BY <1>1 DEF UserText, Summary, Assistant, Results, Conversation

(* What stays after compaction, message by message.                        *)
LEMMA CompactedIsSuffix ==
  ASSUME messages \in Seq(Conversation), Len(messages) > 2 * KeepRecent
  PROVE  LET cut == Len(messages) - 2 * KeepRecent IN
         /\ Compacted \in Seq(Conversation)
         /\ Len(Compacted) = 2 * KeepRecent + 1
         /\ Compacted[1] = Summary
         /\ \A i \in 2..(2 * KeepRecent + 1) : Compacted[i] = messages[cut + i - 1]
<1> DEFINE cut == Len(messages) - 2 * KeepRecent
           kept == SubSeq(messages, cut + 1, Len(messages))
<1>1. Len(messages) \in Nat /\ KeepRecent \in Nat /\ cut \in Nat /\ cut > 0
  BY LenProperties, AgentAssumption
<1>2. \A i \in (cut + 1)..Len(messages) : messages[i] \in Conversation
  BY <1>1, ElementOfSeq
<1>3. /\ kept \in Seq(Conversation)
      /\ Len(kept) = 2 * KeepRecent
      /\ \A i \in 1..(2 * KeepRecent) : kept[i] = messages[cut + i]
  <2>1. cut + 1 \in Int /\ Len(messages) \in Int
    BY <1>1
  <2>2. /\ kept \in Seq(Conversation)
        /\ Len(kept) = IF cut + 1 <= Len(messages) THEN Len(messages) - (cut + 1) + 1 ELSE 0
        /\ \A i \in 1..(Len(messages) - (cut + 1) + 1) : kept[i] = messages[(cut + 1) + i - 1]
    BY <1>2, <2>1, SubSeqProperties
  <2>3. QED BY <1>1, <2>2
<1>4. <<Summary>> \in Seq(Conversation) /\ Len(<<Summary>>) = 1 /\ <<Summary>>[1] = Summary
  BY ConversationTypes
<1>5. Compacted = <<Summary>> \o kept
  BY DEF Compacted
<1> HIDE DEF kept
<1>6. /\ Compacted \in Seq(Conversation)
      /\ Len(Compacted) = 1 + 2 * KeepRecent
      /\ \A i \in 1..(1 + 2 * KeepRecent) :
            Compacted[i] = IF i <= 1 THEN <<Summary>>[i] ELSE kept[i - 1]
  BY <1>3, <1>4, <1>5, ConcatProperties
<1>7. Compacted[1] = Summary
  BY <1>1, <1>4, <1>6
<1>8. ASSUME NEW i \in 2..(2 * KeepRecent + 1) PROVE Compacted[i] = messages[cut + i - 1]
  <2>1. i \in 1..(1 + 2 * KeepRecent) /\ ~(i <= 1) /\ i - 1 \in 1..(2 * KeepRecent)
    BY <1>1
  <2>2. Compacted[i] = kept[i - 1]
    BY <1>6, <2>1
  <2>3. kept[i - 1] = messages[cut + (i - 1)]
    BY <1>3, <2>1
  <2>4. cut + (i - 1) = cut + i - 1
    BY <1>1, <2>1
  <2>5. QED BY <2>2, <2>3, <2>4
<1>9. Len(Compacted) = 2 * KeepRecent + 1
  BY <1>1, <1>6
<1>10. QED BY <1>6, <1>7, <1>8, <1>9

(* The steps of a round with the model.                                    *)
LEMMA RoundsKeepLoopInv ==
  ASSUME LoopInv, RoundEnds \/ StreamText PROVE LoopInv'
<1> USE DEF LoopInv, LoopTypeOK, ChannelsTypeOK, AgentTypeOK, TurnStates, ExitStates
<1>1. CASE Retrieve
  <2>1. messages' \in Seq(Conversation)
    BY <1>1, ConversationTypes DEF Retrieve
  <2>2. PICK found \in BOOLEAN, overLimit \in BOOLEAN :
          LET sent == IF found THEN <<Plain("Status")>> ELSE <<>> IN
            IF overLimit /\ Len(messages') > 2 * KeepRecent
            THEN pc' = "compacting" /\ Send(sent)
            ELSE NextRound(sent)
    BY <1>1 DEF Retrieve
  <2> DEFINE sent == IF found THEN <<Plain("Status")>> ELSE <<>>
  <2>3. sent \in Seq(AgentMessages)
    BY TurnEndTypes
  <2> HIDE DEF sent
  <2>4. /\ msgQ' \in Seq(AgentMessages)
        /\ \/ pc' = "compacting" /\ Len(messages') > 2 * KeepRecent
           \/ pc' \in {"streaming", "idle"} /\ (pc' = "streaming" => iter' <= MaxIterations)
    <3>1. CASE pc' = "compacting" /\ Len(messages') > 2 * KeepRecent /\ Send(sent)
      BY <2>3, <3>1, SendKeepsType
    <3>2. CASE NextRound(sent)
      BY <2>3, <3>2, NextRoundType
    <3>3. QED BY <2>2, <3>1, <3>2 DEF sent
  <2>5. iter' \in 0..(MaxIterations + 1)
    BY <1>1, AgentAssumption DEF Retrieve
  <2>6. QED BY <1>1, <2>1, <2>4, <2>5 DEF Retrieve, bounds
<1>2. CASE Compact
  <2>1. messages' \in Seq(Conversation)
    BY <1>2, CompactedIsSuffix DEF Compact
  <2>2. /\ msgQ' \in Seq(AgentMessages)
        /\ pc' \in {"streaming", "idle"}
        /\ pc' = "streaming" => iter' <= MaxIterations
    BY <1>2, TurnEndTypes, NextRoundType DEF Compact
  <2>3. QED BY <1>2, <2>1, <2>2 DEF Compact, bounds
<1>3. CASE TurnFails
  <2>1. msgQ' \in Seq(AgentMessages)
    BY <1>3, TurnEndTypes, SendKeepsType DEF TurnFails
  <2>2. QED BY <1>3, <2>1 DEF TurnFails, bounds
<1>4. ASSUME NEW reply \in Replies, StreamEnds(reply) PROVE LoopInv'
  <2>1. reply.uses \in Seq(Tools)
    BY AgentAssumption
  <2>2. messages' \in Seq(Conversation)
    BY <1>4, <2>1, ConversationTypes DEF StreamEnds
  <2>3. CASE reply.uses = <<>> \/ reply.endTurn
    <3>1. msgQ' \in Seq(AgentMessages)
      BY <1>4, <2>3, TurnEndTypes, SendKeepsType DEF StreamEnds, EndsTurn
    <3>2. QED BY <1>4, <2>2, <2>3, <3>1 DEF StreamEnds, EndsTurn, bounds
  <2>4. CASE ~(reply.uses = <<>> \/ reply.endTurn)
    <3>1. uses' \in Seq(Tools) /\ status' \in [DOMAIN uses' -> Statuses]
      BY <1>4, <2>1, <2>4 DEF StreamEnds, EndsTurn, Statuses
    <3>2. QED BY <1>4, <2>2, <2>4, <3>1 DEF StreamEnds, EndsTurn, bounds
  <2>5. QED BY <2>3, <2>4
<1>5. CASE StreamText
  <2>1. msgQ' \in Seq(AgentMessages)
    BY <1>5, MessageTypes, SendOneKeepsType DEF StreamText
  <2>2. streamed' \in 0..MaxChunks
    BY <1>5, ProtocolAssumption DEF StreamText
  <2>3. QED BY <1>5, <2>1, <2>2 DEF StreamText, agentVars
<1>6. QED BY <1>1, <1>2, <1>3, <1>4, <1>5 DEF RoundEnds

(* The steps that end the wait for an answer.                              *)
LEMMA AnswersKeepLoopInv ==
  ASSUME LoopInv, AskEnds PROVE LoopInv'
<1> USE DEF LoopInv, LoopTypeOK, ChannelsTypeOK, AgentTypeOK, TurnStates, ExitStates
<1>1. CASE AnswerAllows
  <2>1. current \in DOMAIN uses /\ uses[current] \in Tools
    BY <1>1 DEF AnswerAllows
  <2>2. /\ msgQ' \in Seq(AgentMessages)
        /\ status' \in [DOMAIN uses -> Statuses]
        /\ pc' \in {"tools", "executing"}
        /\ current' \in Nat
        /\ pc' = "executing" => current' = current
    BY <1>1, <2>1, ApproveType DEF AnswerAllows
  <2>3. eventQ' \in Seq(AgentEvents)
    BY <1>1, EventQueueType DEF AnswerAllows
  <2>4. granted' \subseteq Tools
    BY <1>1, <2>1 DEF AnswerAllows
  <2>5. QED BY <1>1, <2>1, <2>2, <2>3, <2>4 DEF AnswerAllows, bounds
<1>2. CASE AnswerDenies
  <2>1. /\ msgQ' \in Seq(AgentMessages)
        /\ status' \in [DOMAIN uses -> Statuses]
        /\ pc' = "tools" /\ current' = 0
    BY <1>2, RefuseType DEF AnswerDenies
  <2>2. eventQ' \in Seq(AgentEvents)
    BY <1>2, EventQueueType DEF AnswerDenies
  <2>3. QED BY <1>2, <2>1, <2>2 DEF AnswerDenies, bounds
<1>3. CASE AskSwallows
  BY <1>3, EventQueueType DEF AskSwallows, agentVars, bounds
<1>4. CASE AskClosed
  <2>1. /\ msgQ' \in Seq(AgentMessages)
        /\ status' \in [DOMAIN uses -> Statuses]
        /\ pc' = "tools" /\ current' = 0
    BY <1>4, RefuseType DEF AskClosed
  <2>2. QED BY <1>4, <2>1 DEF AskClosed, bounds
<1>5. QED BY <1>1, <1>2, <1>3, <1>4 DEF AskEnds

(* The steps that check, run and report the uses of a reply.               *)
LEMMA ToolsKeepLoopInv ==
  ASSUME LoopInv, ToolStep PROVE LoopInv'
<1> USE DEF LoopInv, LoopTypeOK, ChannelsTypeOK, AgentTypeOK, TurnStates, ExitStates, Statuses
<1>1. CASE ToolEnds
  <2>1. current \in Nat
    OBVIOUS
  <2>2. msgQ' \in Seq(AgentMessages)
    BY <1>1, <2>1, MessageTypes, SendOneKeepsType DEF ToolEnds, ToolTypes
  <2>3. status' \in [DOMAIN uses -> Statuses]
    BY <1>1 DEF ToolEnds
  <2>4. servers' \subseteq {"mcp", "lsp"}
    BY <1>1 DEF ToolEnds
  <2>5. QED BY <1>1, <2>2, <2>3, <2>4 DEF ToolEnds, bounds
<1>2. CASE FinishRound
  <2>1. DOMAIN uses \subseteq Nat /\ With("answered") \in SUBSET Nat
    BY DEF With
  <2>2. messages' \in Seq(Conversation)
    BY <1>2, <2>1, ConversationTypes DEF FinishRound
  <2>3. iter' \in 0..(MaxIterations + 1)
    BY <1>2, AgentAssumption DEF FinishRound
  <2>4. /\ msgQ' \in Seq(AgentMessages)
        /\ pc' \in {"streaming", "idle"}
        /\ pc' = "streaming" => iter' <= MaxIterations
    BY <1>2, TurnEndTypes, NextRoundType DEF FinishRound
  <2>5. uses' \in Seq(Tools) /\ status' \in [DOMAIN uses' -> Statuses]
    BY <1>2, EmptySeq DEF FinishRound
  <2>6. QED BY <1>2, <2>2, <2>3, <2>4, <2>5 DEF FinishRound, bounds
<1>3. ASSUME NEW i \in DOMAIN status, CheckAllowed(i) \/ CheckAuto(i) PROVE LoopInv'
  <2>1. i \in DOMAIN uses /\ uses[i] \in Tools
    OBVIOUS
  <2>2. /\ msgQ' \in Seq(AgentMessages)
        /\ status' \in [DOMAIN uses -> Statuses]
        /\ pc' \in {"tools", "executing"}
        /\ current' \in Nat
        /\ pc' = "executing" => current' = i
    BY <1>3, <2>1, ApproveType DEF CheckAllowed, CheckAuto
  <2>3. granted' \subseteq Tools
    BY <1>3, <2>1 DEF CheckAllowed, CheckAuto
  <2>4. QED BY <1>3, <2>1, <2>2, <2>3 DEF CheckAllowed, CheckAuto, bounds
<1>4. ASSUME NEW i \in DOMAIN status, Ask(i) PROVE LoopInv'
  <2>1. i \in DOMAIN uses /\ i \in Nat /\ uses[i] \in Tools
    OBVIOUS
  <2>2. msgQ' \in Seq(AgentMessages)
    BY <1>4, <2>1, MessageTypes, SendOneKeepsType DEF Ask
  <2>3. QED BY <1>4, <2>1, <2>2 DEF Ask, bounds
<1>5. ASSUME NEW i \in DOMAIN status,
             LaunchAgent(i) \/ AnswerRefused(i) \/ AgentEnds(i) \/ ReportAgent(i)
      PROVE  LoopInv'
  <2>1. i \in DOMAIN uses /\ i \in Nat
    OBVIOUS
  <2>2. \A type \in ToolTypes : ToolMsg(type, i) \in AgentMessages
    BY <2>1, MessageTypes
  <2>3. msgQ' \in Seq(AgentMessages)
    BY <1>5, <2>2, SendOneKeepsType
    DEF LaunchAgent, AnswerRefused, AgentEnds, ReportAgent, ToolTypes, channelVars
  <2>4. status' \in [DOMAIN uses -> Statuses]
    BY <1>5, <2>1 DEF LaunchAgent, AnswerRefused, AgentEnds, ReportAgent
  <2>5. QED
    BY <1>5, <2>3, <2>4
    DEF LaunchAgent, AnswerRefused, AgentEnds, ReportAgent, channelVars, bounds
<1>6. QED BY <1>1, <1>2, <1>3, <1>4, <1>5 DEF ToolStep

(* The steps of shutdown().                                                *)
LEMMA ShutdownKeepsLoopInv ==
  ASSUME LoopInv, Shutdown PROVE LoopInv'
<1> USE DEF LoopInv, LoopTypeOK, ChannelsTypeOK, AgentTypeOK, TurnStates, ExitStates
<1>1. CASE EvolveEnds
  BY <1>1 DEF EvolveEnds, channelVars, bounds
<1>2. CASE EvolveFails
  BY <1>2, EventQueueType DEF EvolveFails, Return, bounds
<1>3. CASE CloseMcp
  BY <1>3 DEF CloseMcp, channelVars, bounds
<1>4. CASE CloseLsp
  <2>1. msgQ' \in Seq(AgentMessages)
    BY <1>4, MessageTypes, SendOneKeepsType DEF CloseLsp, PlainTypes
  <2>2. QED BY <1>4, <2>1, EventQueueType DEF CloseLsp, Return, bounds
<1>5. QED BY <1>1, <1>2, <1>3, <1>4 DEF Shutdown

(* The steps of the peer.                                                  *)
LEMMA PeerKeepsLoopInv ==
  ASSUME LoopInv, PeerSends \/ PeerReceives \/ PeerLeaves PROVE LoopInv'
<1> USE DEF LoopInv, LoopTypeOK, ChannelsTypeOK, AgentTypeOK, TurnStates, ExitStates
<1>1. TakesMessage => msgQ' \in Seq(AgentMessages)
  BY HeadTailProperties DEF TakesMessage
<1>2. CASE PeerSends
  <2>1. PICK e \in AgentEvents :
          /\ IF e.type \in {"Input", "Command"}
             THEN inputs < MaxInputs /\ inputs' = inputs + 1
             ELSE UNCHANGED inputs
          /\ SendEvent(e)
    BY <1>2 DEF PeerSends
  <2>2. eventQ' \in Seq(AgentEvents)
    BY <2>1, EventQueueType DEF SendEvent
  <2>3. inputs' \in 0..MaxInputs
    BY <2>1, ProtocolAssumption
  <2>4. msgQ' \in Seq(AgentMessages)
    BY <1>1, <1>2 DEF PeerSends
  <2>5. QED BY <1>2, <2>2, <2>3, <2>4 DEF PeerSends, agentVars
<1>3. CASE PeerReceives
  BY <1>1, <1>3 DEF PeerReceives, agentVars, bounds
<1>4. CASE PeerLeaves
  BY <1>4, TurnEndTypes DEF PeerLeaves, agentVars, bounds
<1>5. QED BY <1>2, <1>3, <1>4

LEMMA LoopInvNext == LoopInv /\ [LoopNext]_loopVars => LoopInv'
<1> SUFFICES ASSUME LoopInv, [LoopNext]_loopVars PROVE LoopInv'
  OBVIOUS
<1>1. CASE AgentNext
  BY <1>1, ReceivesKeepLoopInv, RoundsKeepLoopInv, AnswersKeepLoopInv, ToolsKeepLoopInv,
     ShutdownKeepsLoopInv DEF AgentNext
<1>2. CASE PeerSends \/ PeerReceives \/ PeerLeaves
  BY <1>2, PeerKeepsLoopInv
<1>3. CASE UNCHANGED loopVars
  BY <1>3 DEF loopVars, channelVars, agentVars, bounds, LoopInv, LoopTypeOK, ChannelsTypeOK,
              AgentTypeOK
<1>4. QED BY <1>1, <1>2, <1>3 DEF LoopNext

(* Whatever its peer does, the agent thread keeps its state well typed: no *)
(* step of src/agent/agent.rs reaches a state the types exclude.           *)
THEOREM LoopTypeCorrect == LoopSpec => []LoopTypeOK
<1>1. LoopSpec => []LoopInv
  BY LoopInvInit, LoopInvNext, PTL DEF LoopSpec
<1>2. LoopInv => LoopTypeOK
  BY DEF LoopInv
<1>3. QED BY <1>1, <1>2, PTL

-----------------------------------------------------------------------------
(***************************************************************************)
(* tool_use and tool_result.  While the uses of a reply are being worked   *)
(* on the reply is the last message, which is what makes the pairing of    *)
(* results and uses inductive.                                             *)
(***************************************************************************)
Executing == {"tools", "asking", "executing"}
LastMessage == messages[Len(messages)]
ReplyIsLast == pc \in Executing => messages # <<>> /\ LastMessage = Assistant(uses)
PairInv == ReplyIsLast /\ ResultsAnswerUses

(* A conversation grows by one message at its end.                         *)
LEMMA AppendedMessage ==
  ASSUME messages \in Seq(Conversation), NEW m \in Conversation, messages' = Append(messages, m)
  PROVE  /\ Len(messages) \in Nat
         /\ messages' \in Seq(Conversation)
         /\ Len(messages') = Len(messages) + 1
         /\ messages' # <<>>
         /\ LastMessage' = m
         /\ DOMAIN messages = 1..Len(messages)
         /\ DOMAIN messages' = 1..(Len(messages) + 1)
         /\ \A i \in 1..Len(messages) : messages'[i] = messages[i]
         /\ messages'[Len(messages) + 1] = m
  BY AppendProperties, LenProperties DEF LastMessage

(* The steps that add to the conversation or replace its beginning.        *)
Rewrites == Retrieve \/ Compact \/ FinishRound \/ \E reply \in Replies : StreamEnds(reply)

(* Every other step leaves the conversation alone, and stays among the     *)
(* uses of one reply if it is to be among them afterwards.                 *)
LEMMA OtherStepsKeepMessages ==
  ASSUME [LoopNext]_loopVars, ~Rewrites
  PROVE  /\ messages' = messages
         /\ pc' \in Executing => pc \in Executing /\ uses' = uses
         /\ pc \in Executing => pc' \in Executing
<1> USE DEF Executing
<1>1. CASE AgentReceives
  BY <1>1 DEF AgentReceives, RecvInput, RecvQuit, RecvIgnored, RecvClosed, Return, agentVars
<1>2. CASE TurnFails \/ StreamText
  BY <1>2 DEF TurnFails, StreamText, agentVars
<1>3. CASE AskEnds
  BY <1>3 DEF AskEnds, AnswerAllows, AnswerDenies, AskSwallows, AskClosed, Approve, Refuse,
              agentVars
<1>4. CASE ToolEnds
  BY <1>4 DEF ToolEnds
<1>5. ASSUME NEW i \in DOMAIN status, CheckAllowed(i) \/ CheckAuto(i) \/ Ask(i)
      PROVE  messages' = messages /\ uses' = uses /\ pc \in Executing /\ pc' \in Executing
  BY <1>5 DEF CheckAllowed, CheckAuto, Ask, Approve
<1>6. ASSUME NEW i \in DOMAIN status,
             LaunchAgent(i) \/ AnswerRefused(i) \/ AgentEnds(i) \/ ReportAgent(i)
      PROVE  messages' = messages /\ uses' = uses /\ pc' = pc
  BY <1>6 DEF LaunchAgent, AnswerRefused, AgentEnds, ReportAgent
<1>7. CASE Shutdown
  BY <1>7 DEF Shutdown, EvolveEnds, EvolveFails, CloseMcp, CloseLsp, Return
<1>8. CASE PeerSends \/ PeerReceives \/ PeerLeaves \/ UNCHANGED loopVars
  BY <1>8 DEF PeerSends, PeerReceives, PeerLeaves, loopVars, agentVars
<1>9. QED
  BY <1>1, <1>2, <1>3, <1>4, <1>5, <1>6, <1>7, <1>8
  DEF LoopNext, AgentNext, RoundEnds, ToolStep, Rewrites

LEMMA PairInvNext ==
  ASSUME LoopInv, PairInv, [LoopNext]_loopVars PROVE PairInv'
<1>0. messages \in Seq(Conversation)
  BY DEF LoopInv, LoopTypeOK, AgentTypeOK
<1>1. CASE Retrieve
  <2>1. messages' = Append(messages, UserText) /\ UserText \in Conversation
    BY <1>1, ConversationTypes DEF Retrieve
  <2>2. pc' \notin Executing
    BY <1>1 DEF Retrieve, NextRound, Executing
  <2>3. ResultsAnswerUses'
    BY <1>0, <2>1, AppendedMessage DEF PairInv, ResultsAnswerUses, UserText
  <2>4. QED BY <2>2, <2>3 DEF PairInv, ReplyIsLast
<1>2. CASE Compact
  <2>1. Len(messages) > 2 * KeepRecent /\ messages' = Compacted /\ pc' \notin Executing
    BY <1>2 DEF LoopInv, Compact, NextRound, Executing
  <2> DEFINE cut == Len(messages) - 2 * KeepRecent
  <2>2. /\ messages' \in Seq(Conversation)
        /\ Len(messages') = 2 * KeepRecent + 1
        /\ messages'[1] = Summary
        /\ \A i \in 2..(2 * KeepRecent + 1) : messages'[i] = messages[cut + i - 1]
    BY <1>0, <2>1, CompactedIsSuffix
  <2>3. Len(messages) \in Nat /\ KeepRecent \in Nat /\ DOMAIN messages = 1..Len(messages)
    BY <1>0, LenProperties, AgentAssumption
  <2>4. cut \in Nat /\ cut >= 1
    BY <2>1, <2>3
  <2> HIDE DEF cut
  <2>5. ASSUME NEW i \in DOMAIN messages', messages'[i].kind = "results"
        PROVE  /\ i > 1
               /\ \/ messages'[i - 1].kind = "summary"
                  \/ /\ messages'[i - 1].kind = "assistant"
                     /\ messages'[i].ids = DOMAIN messages'[i - 1].uses
    <3>1. DOMAIN messages' = 1..(2 * KeepRecent + 1)
      BY <2>2, LenProperties
    <3>2. i \in 2..(2 * KeepRecent + 1)
      BY <2>2, <2>3, <2>5, <3>1 DEF Summary
    <3>3. messages'[i] = messages[cut + i - 1]
      BY <2>2, <3>2
    <3>4. CASE i = 2
      BY <2>2, <2>3, <3>2, <3>4 DEF Summary
    <3>5. CASE i # 2
      <4>1. i - 1 \in 2..(2 * KeepRecent + 1)
        BY <2>3, <3>2, <3>5
      <4>2. messages'[i - 1] = messages[cut + (i - 1) - 1]
        BY <2>2, <4>1
      <4>3. cut + i - 1 \in DOMAIN messages /\ (cut + i - 1) - 1 = cut + (i - 1) - 1
        BY <2>3, <2>4, <3>2, <2>1 DEF cut
      <4>4. messages[cut + i - 1].kind = "results"
        BY <2>5, <3>3
      <4>5. \/ messages[cut + (i - 1) - 1].kind = "summary"
            \/ /\ messages[cut + (i - 1) - 1].kind = "assistant"
               /\ messages[cut + i - 1].ids = DOMAIN messages[cut + (i - 1) - 1].uses
        BY <4>3, <4>4 DEF PairInv, ResultsAnswerUses
      <4>6. QED BY <2>3, <3>2, <3>3, <4>2, <4>5
    <3>6. QED BY <3>4, <3>5
  <2>6. QED BY <2>1, <2>5 DEF PairInv, ReplyIsLast, ResultsAnswerUses
<1>3. CASE FinishRound
  <2>1. pc = "tools" /\ messages' = Append(messages, Results(With("answered")))
        /\ DOMAIN status = With("answered") /\ pc' \notin Executing
    BY <1>3 DEF FinishRound, AllAnswered, NextRound, Executing
  <2>2. With("answered") = DOMAIN uses /\ With("answered") \in SUBSET Nat
    <3>1. uses \in Seq(Tools) /\ DOMAIN status = DOMAIN uses
      BY DEF LoopInv, LoopTypeOK, AgentTypeOK
    <3>2. DOMAIN uses \subseteq Nat
      BY <3>1, LenProperties
    <3>3. QED BY <2>1, <3>1, <3>2
  <2>3. Results(With("answered")) \in Conversation
    BY <2>2, ConversationTypes
  <2>4. messages # <<>> /\ messages[Len(messages)] = Assistant(uses)
    BY <2>1 DEF PairInv, ReplyIsLast, LastMessage, Executing
  <2>5. Len(messages) \in Nat /\ Len(messages) > 0
    BY <1>0, <2>4, EmptySeq, LenProperties
  <2>6. ResultsAnswerUses'
    BY <1>0, <2>1, <2>2, <2>3, <2>4, <2>5, AppendedMessage
    DEF PairInv, ResultsAnswerUses, Results, Assistant
  <2>7. QED BY <2>1, <2>6 DEF PairInv, ReplyIsLast
<1>4. ASSUME NEW reply \in Replies, StreamEnds(reply) PROVE PairInv'
  <2>1. Assistant(reply.uses) \in Conversation
    BY ConversationTypes, AgentAssumption
  <2>2. messages' = Append(messages, Assistant(reply.uses))
    BY <1>4 DEF StreamEnds
  <2>3. pc' \in Executing => uses' = reply.uses
    BY <1>4 DEF StreamEnds, Executing
  <2>4. ResultsAnswerUses'
    BY <1>0, <2>1, <2>2, AppendedMessage DEF PairInv, ResultsAnswerUses, Assistant
  <2>5. messages' # <<>> /\ LastMessage' = Assistant(reply.uses)
    BY <1>0, <2>1, <2>2, AppendedMessage
  <2>6. QED BY <2>3, <2>4, <2>5 DEF PairInv, ReplyIsLast, Assistant
<1>5. CASE ~Rewrites
  BY <1>5, OtherStepsKeepMessages DEF PairInv, ReplyIsLast, LastMessage, ResultsAnswerUses, Assistant
<1>6. QED BY <1>1, <1>2, <1>3, <1>4, <1>5 DEF Rewrites

(* agent.rs, agentic_loop: a message of tool results always answers        *)
(* exactly the tool uses of the message before it, for every model, every  *)
(* permission mode, every order of concurrent uses and every compaction.   *)
THEOREM ResultsAnswerTheirUses == LoopSpec => []ResultsAnswerUses
<1>1. LoopInit => PairInv
  BY EmptySeq DEF LoopInit, AgentInit, PairInv, ReplyIsLast, ResultsAnswerUses, Executing
<1>2. LoopInv /\ PairInv /\ [LoopNext]_loopVars => PairInv'
  BY PairInvNext
<1>3. PairInv => ResultsAnswerUses
  BY DEF PairInv
<1>4. QED BY <1>1, <1>2, <1>3, LoopInvInit, LoopInvNext, PTL DEF LoopSpec

-----------------------------------------------------------------------------
(***************************************************************************)
(* The other direction holds when a reply that calls tools never carries   *)
(* the stop reason end_turn.  Outside the execution of a reply's uses the  *)
(* conversation then ends in a message without uses.                       *)
(***************************************************************************)
Consistent == \A reply \in Replies : reply.endTurn => reply.uses = <<>>
NoUseIsOpen == pc \notin Executing /\ messages # <<>> => LastMessage.uses = <<>>
AnsweredInv == EveryUseIsAnswered /\ NoUseIsOpen

LEMMA AnsweredInvNext ==
  ASSUME Consistent, LoopInv, AnsweredInv, [LoopNext]_loopVars PROVE AnsweredInv'
<1>0. messages \in Seq(Conversation) /\ Len(messages) \in Nat
  BY LenProperties DEF LoopInv, LoopTypeOK, AgentTypeOK
<1>1. CASE Retrieve
  <2>1. messages' = Append(messages, UserText) /\ UserText \in Conversation /\ pc \notin Executing
    BY <1>1, ConversationTypes DEF Retrieve, Executing
  <2>2. NoUseIsOpen'
    BY <1>0, <2>1, AppendedMessage DEF NoUseIsOpen, UserText
  <2>3. EveryUseIsAnswered'
    BY <1>0, <2>1, AppendedMessage, EmptySeq
    DEF AnsweredInv, EveryUseIsAnswered, NoUseIsOpen, LastMessage, UserText
  <2>4. QED BY <2>2, <2>3 DEF AnsweredInv
<1>2. CASE Compact
  <2>1. /\ Len(messages) > 2 * KeepRecent
        /\ messages' = Compacted /\ pc \notin Executing
    BY <1>2 DEF LoopInv, Compact, Executing
  <2> DEFINE cut == Len(messages) - 2 * KeepRecent
  <2>2. /\ Len(messages') = 2 * KeepRecent + 1
        /\ messages'[1] = Summary
        /\ \A i \in 2..(2 * KeepRecent + 1) : messages'[i] = messages[cut + i - 1]
    BY <1>0, <2>1, CompactedIsSuffix
  <2>3. KeepRecent \in Nat /\ cut \in Nat /\ cut >= 1 /\ messages # <<>>
    BY <1>0, <2>1, AgentAssumption, EmptySeq
  <2>4. LastMessage.uses = <<>>
    BY <2>1, <2>3 DEF AnsweredInv, NoUseIsOpen
  <2>5. LastMessage'.uses = <<>>
    <3>1. CASE KeepRecent = 0
      BY <2>2, <3>1 DEF LastMessage, Summary
    <3>2. CASE KeepRecent # 0
      <4>1. 2 * KeepRecent + 1 \in 2..(2 * KeepRecent + 1)
        BY <2>3, <3>2
      <4>2. cut + (2 * KeepRecent + 1) - 1 = Len(messages)
        BY <1>0, <2>3
      <4>3. QED BY <2>2, <2>4, <4>1, <4>2 DEF LastMessage
    <3>3. QED BY <3>1, <3>2
  <2> HIDE DEF cut
  <2>6. ASSUME NEW i \in 1..(Len(messages') - 1), messages'[i].uses # <<>>
        PROVE  messages'[i + 1].kind = "results"
    <3>1. i \in 2..(2 * KeepRecent + 1) /\ i + 1 \in 2..(2 * KeepRecent + 1)
      BY <2>2, <2>3, <2>6 DEF Summary
    <3>2. messages'[i] = messages[cut + i - 1] /\ messages'[i + 1] = messages[cut + (i + 1) - 1]
      BY <2>2, <3>1
    <3>3. /\ cut + i - 1 \in 1..(Len(messages) - 1)
          /\ (cut + i - 1) + 1 = cut + (i + 1) - 1
      BY <1>0, <2>3, <3>1 DEF cut
    <3>4. QED BY <2>6, <3>2, <3>3 DEF AnsweredInv, EveryUseIsAnswered
  <2>7. QED BY <2>5, <2>6 DEF AnsweredInv, EveryUseIsAnswered, NoUseIsOpen
<1>3. CASE FinishRound
  <2>1. messages' = Append(messages, Results(With("answered"))) /\ DOMAIN status = With("answered")
    BY <1>3 DEF FinishRound, AllAnswered
  <2>2. Results(With("answered")) \in Conversation
    <3>1. uses \in Seq(Tools) /\ DOMAIN status = DOMAIN uses
      BY DEF LoopInv, LoopTypeOK, AgentTypeOK
    <3>2. DOMAIN uses \subseteq Nat
      BY <3>1, LenProperties
    <3>3. QED BY <2>1, <3>1, <3>2, ConversationTypes
  <2>3. NoUseIsOpen'
    BY <1>0, <2>1, <2>2, AppendedMessage DEF NoUseIsOpen, Results
  <2>4. EveryUseIsAnswered'
    BY <1>0, <2>1, <2>2, AppendedMessage DEF AnsweredInv, EveryUseIsAnswered, Results
  <2>5. QED BY <2>3, <2>4 DEF AnsweredInv
<1>4. ASSUME NEW reply \in Replies, StreamEnds(reply) PROVE AnsweredInv'
  <2>1. /\ messages' = Append(messages, Assistant(reply.uses))
        /\ Assistant(reply.uses) \in Conversation
        /\ pc \notin Executing
    BY <1>4, ConversationTypes, AgentAssumption DEF StreamEnds, Executing
  <2>2. pc' \notin Executing => reply.uses = <<>>
    BY <1>4 DEF StreamEnds, EndsTurn, Executing, Consistent
  <2>3. NoUseIsOpen'
    BY <1>0, <2>1, <2>2, AppendedMessage DEF NoUseIsOpen, Assistant
  <2>4. EveryUseIsAnswered'
    BY <1>0, <2>1, AppendedMessage, EmptySeq
    DEF AnsweredInv, EveryUseIsAnswered, NoUseIsOpen, LastMessage, Assistant
  <2>5. QED BY <2>3, <2>4 DEF AnsweredInv
<1>5. CASE ~Rewrites
  BY <1>5, OtherStepsKeepMessages DEF AnsweredInv, EveryUseIsAnswered, NoUseIsOpen, LastMessage
<1>6. QED BY <1>1, <1>2, <1>3, <1>4, <1>5 DEF Rewrites

(* agent.rs, agentic_loop: with a model that does not contradict itself,   *)
(* the conversation never goes on after a tool use without its results,    *)
(* whatever fails, is denied, interrupted or compacted on the way.         *)
THEOREM UsesAreAnswered == ASSUME Consistent PROVE LoopSpec => []EveryUseIsAnswered
<1>1. LoopInit => AnsweredInv
  <2>1. LoopInit => messages = <<>> /\ Len(messages) = 0
    BY EmptySeq DEF LoopInit, AgentInit
  <2>2. QED BY <2>1 DEF AnsweredInv, EveryUseIsAnswered, NoUseIsOpen
<1>2. LoopInv /\ AnsweredInv /\ [LoopNext]_loopVars => AnsweredInv'
  BY AnsweredInvNext
<1>3. AnsweredInv => EveryUseIsAnswered
  BY DEF AnsweredInv
<1>4. QED BY <1>1, <1>2, <1>3, LoopInvInit, LoopInvNext, PTL DEF LoopSpec

=============================================================================
