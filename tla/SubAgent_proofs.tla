--------------------------- MODULE SubAgent_proofs ---------------------------
(***************************************************************************)
(* Theorems about the sub-agent's Join: the monitor is a peer of the agent *)
(* loop, and it keeps its word, for any tools, replies, rounds and chunks, *)
(* and whether the child's I/O is Pending when polled or not.              *)
(***************************************************************************)
EXTENDS SubAgent, AgentLoop_proofs, SequenceLemmas

-----------------------------------------------------------------------------
(* Messages that neither carry text nor ask nor end the turn.              *)
Chunks == {m \in AgentMessages : m.type = "TextChunk"}
Silent(ms) ==
    /\ ms \in Seq(AgentMessages)
    /\ \A i \in DOMAIN ms : ms[i].type \notin {"Done", "TextChunk", "PermissionRequest"}

LEMMA SilentOne ==
  ASSUME NEW m \in AgentMessages, m.type \notin {"Done", "TextChunk", "PermissionRequest"}
  PROVE  Silent(<<m>>)
  BY DEF Silent

LEMMA SilentConcat ==
  ASSUME NEW a, NEW b, Silent(a), Silent(b) PROVE Silent(a \o b)
<1>1. a \in Seq(AgentMessages) /\ b \in Seq(AgentMessages)
  BY DEF Silent
<1>2. a \o b \in Seq(AgentMessages)
  BY <1>1, ConcatProperties
<1>3. QED BY <1>1, <1>2, ConcatAt DEF Silent

LEMMA SilentTexts ==
    /\ Silent(<<>>)
    /\ \A type \in PlainTypes \ {"Done"} : Silent(<<Plain(type)>>)
    /\ \A type \in ToolTypes : \A use \in Nat : Silent(<<ToolMsg(type, use)>>)
<1>1. Silent(<<>>)
  BY EmptySeq DEF Silent
<1>2. ASSUME NEW type \in PlainTypes \ {"Done"} PROVE Silent(<<Plain(type)>>)
  <2>1. Plain(type) \in AgentMessages /\ Plain(type).type = type
    BY MessageTypes DEF Plain
  <2>2. QED BY <2>1, SilentOne DEF PlainTypes
<1>3. ASSUME NEW type \in ToolTypes, NEW use \in Nat PROVE Silent(<<ToolMsg(type, use)>>)
  <2>1. ToolMsg(type, use) \in AgentMessages /\ ToolMsg(type, use).type = type
    BY MessageTypes DEF ToolMsg
  <2>2. QED BY <2>1, SilentOne DEF ToolTypes
<1>4. QED BY <1>1, <1>2, <1>3

-----------------------------------------------------------------------------
(* What a step of the child does within a turn: the turn goes on, streams  *)
(* a chunk, or ends with a Done.                                           *)
TurnGoesOn ==
    InTurn' /\ pc' # "asking" /\ streamed' = streamed /\ \E ms : Silent(ms) /\ Send(ms)
TurnStreams ==
    InTurn' /\ pc' # "asking" /\ streamed' = streamed + 1 /\ \E kind \in ChunkKinds : Send(<<Chunk(kind)>>)
TurnEnds ==
    pc' = "idle" /\ streamed' = streamed /\ \E ms : Silent(ms) /\ Send(ms \o <<Plain("Done")>>)

LEMMA SendNothing ==
  ASSUME msgQ \in Seq(AgentMessages), msgQ' = msgQ PROVE \E ms : Silent(ms) /\ Send(ms)
  BY SilentTexts DEF Send

LEMMA TurnEndIsAnnounced ==
  ASSUME NEW ms, Silent(ms), Send(ms \o TurnEnd) \/ Send(TurnEnd) \/ Send(TurnFailed)
  PROVE  \E rest : Silent(rest) /\ Send(rest \o <<Plain("Done")>>)
<1>1. Silent(<<Plain("Tokens")>>) /\ Silent(<<Plain("Error")>>)
  BY SilentTexts DEF PlainTypes
<1>2. Silent(ms \o <<Plain("Tokens")>>)
  BY <1>1, SilentConcat
<1>3. /\ TurnEnd = <<Plain("Tokens")>> \o <<Plain("Done")>>
      /\ TurnFailed = <<Plain("Error")>> \o <<Plain("Done")>>
  BY DEF TurnEnd, TurnFailed
<1>4. ms \o TurnEnd = (ms \o <<Plain("Tokens")>>) \o <<Plain("Done")>>
  BY <1>3 DEF Silent
<1>5. QED BY <1>1, <1>2, <1>3, <1>4

LEMMA NextRoundInTurn ==
  ASSUME NEW ms, Silent(ms), NextRound(ms), streamed' = streamed
  PROVE  TurnGoesOn \/ TurnEnds
  BY TurnEndIsAnnounced DEF NextRound, TurnGoesOn, TurnEnds, InTurn, TurnStates

LEMMA VerdictInTurn ==
  ASSUME msgQ \in Seq(AgentMessages), NEW i \in Nat, Approve(i), streamed' = streamed
  PROVE  TurnGoesOn
<1>1. InTurn' /\ pc' # "asking"
  BY DEF InTurn, TurnStates, Approve
<1>2. Silent(<<ToolMsg("ToolStart", i)>>) /\ Silent(<<ToolMsg("ToolError", i)>>)
  BY SilentTexts DEF ToolTypes
<1>3. Send(<<ToolMsg("ToolStart", i)>>) \/ Send(<<ToolMsg("ToolError", i)>>) \/ msgQ' = msgQ
  BY DEF Approve
<1>4. QED BY <1>1, <1>2, <1>3, SendNothing DEF TurnGoesOn

LEMMA TurnStep ==
  ASSUME LoopInv, SubAgentAssumption, AgentNext, InTurn, pc # "asking"
  PROVE  /\ UNCHANGED <<eventQ, uiOpen, agentOpen, inputs>>
         /\ TurnGoesOn \/ TurnStreams \/ TurnEnds
<1>0. /\ msgQ \in Seq(AgentMessages) /\ (\A i \in DOMAIN status : i \in Nat) /\ current \in Nat
      /\ Mode = "Auto"
  <2>1. uses \in Seq(Tools) /\ DOMAIN status = DOMAIN uses
    BY DEF LoopInv, LoopTypeOK, AgentTypeOK
  <2>2. QED BY <2>1, LenProperties DEF LoopInv, LoopTypeOK, AgentTypeOK, ChannelsTypeOK,
                                       SubAgentAssumption
<1>1. ~AgentReceives /\ ~AskEnds /\ ~Shutdown
  BY DEF AgentReceives, RecvInput, RecvQuit, RecvIgnored, RecvClosed, AskEnds, AnswerAllows,
         AnswerDenies, AskSwallows, AskClosed, Shutdown, EvolveEnds, EvolveFails, CloseMcp, CloseLsp,
         InTurn, TurnStates
<1>2. CASE Retrieve
  <2>1. PICK found \in BOOLEAN, overLimit \in BOOLEAN :
          LET sent == IF found THEN <<Plain("Status")>> ELSE <<>> IN
            IF overLimit /\ Len(messages') > 2 * KeepRecent
            THEN pc' = "compacting" /\ Send(sent)
            ELSE NextRound(sent)
    BY <1>2 DEF Retrieve
  <2> DEFINE sent == IF found THEN <<Plain("Status")>> ELSE <<>>
  <2>2. Silent(sent)
    BY SilentTexts DEF PlainTypes
  <2>3. UNCHANGED <<eventQ, uiOpen, agentOpen, inputs, streamed>>
    BY <1>2 DEF Retrieve, bounds
  <2>4. CASE NextRound(sent)
    BY <2>2, <2>3, <2>4, NextRoundInTurn
  <2>5. CASE pc' = "compacting" /\ Send(sent)
    BY <2>2, <2>3, <2>5 DEF TurnGoesOn, InTurn, TurnStates
  <2>6. QED BY <2>1, <2>3, <2>4, <2>5
<1>3. CASE Compact \/ FinishRound
  <2>1. NextRound(<<>>) /\ UNCHANGED <<eventQ, uiOpen, agentOpen, inputs, streamed>>
    BY <1>3 DEF Compact, FinishRound, bounds
  <2>2. QED BY <2>1, NextRoundInTurn, SilentTexts
<1>4. CASE TurnFails
  <2>1. Send(TurnFailed) /\ pc' = "idle" /\ UNCHANGED <<eventQ, uiOpen, agentOpen, inputs, streamed>>
    BY <1>4 DEF TurnFails, bounds
  <2>2. QED BY <2>1, TurnEndIsAnnounced, SilentTexts DEF TurnEnds
<1>5. ASSUME NEW reply \in Replies, StreamEnds(reply)
      PROVE  /\ UNCHANGED <<eventQ, uiOpen, agentOpen, inputs>>
             /\ TurnGoesOn \/ TurnEnds
  <2>1. UNCHANGED <<eventQ, uiOpen, agentOpen, inputs, streamed>>
    BY <1>5 DEF StreamEnds, bounds
  <2>2. CASE EndsTurn(reply)
    <3>1. Send(TurnEnd) /\ pc' = "idle"
      BY <1>5, <2>2 DEF StreamEnds
    <3>2. QED BY <2>1, <3>1, TurnEndIsAnnounced, SilentTexts DEF TurnEnds
  <2>3. CASE ~EndsTurn(reply)
    <3>1. msgQ' = msgQ /\ pc' = "tools"
      BY <1>5, <2>3 DEF StreamEnds
    <3>2. QED BY <1>0, <2>1, <3>1, SendNothing DEF TurnGoesOn, InTurn, TurnStates
  <2>4. QED BY <2>1, <2>2, <2>3
<1>6. CASE StreamText
  BY <1>6 DEF StreamText, TurnStreams, agentVars, InTurn, TurnStates
<1>7. CASE ToolEnds
  <2>1. PICK type \in {"ToolEnd", "ToolError"} : Send(<<ToolMsg(type, current)>>)
    BY <1>7 DEF ToolEnds
  <2>2. Silent(<<ToolMsg(type, current)>>)
    BY <1>0, SilentTexts DEF ToolTypes
  <2>3. QED BY <1>7, <2>1, <2>2 DEF ToolEnds, TurnGoesOn, InTurn, TurnStates, bounds
<1>8. ASSUME NEW i \in DOMAIN status, CheckAllowed(i) \/ CheckAuto(i)
      PROVE  UNCHANGED <<eventQ, uiOpen, agentOpen, inputs>> /\ TurnGoesOn
  <2>1. Approve(i) /\ UNCHANGED <<eventQ, uiOpen, agentOpen, inputs, streamed>>
    BY <1>8 DEF CheckAllowed, CheckAuto, bounds
  <2>2. QED BY <1>0, <2>1, VerdictInTurn
<1>9. ASSUME NEW i \in DOMAIN status,
             LaunchAgent(i) \/ AnswerRefused(i) \/ AgentEnds(i) \/ ReportAgent(i)
      PROVE  UNCHANGED <<eventQ, uiOpen, agentOpen, inputs>> /\ TurnGoesOn
  <2>1. UNCHANGED <<eventQ, uiOpen, agentOpen, inputs, streamed, pc>> /\ pc = "tools"
    BY <1>9 DEF LaunchAgent, AnswerRefused, AgentEnds, ReportAgent, channelVars, bounds
  <2>2. msgQ' = msgQ \/ \E type \in ToolTypes : Send(<<ToolMsg(type, i)>>)
    BY <1>9 DEF LaunchAgent, AnswerRefused, AgentEnds, ReportAgent, channelVars, ToolTypes
  <2>3. QED BY <1>0, <2>1, <2>2, SilentTexts, SendNothing DEF TurnGoesOn, InTurn, TurnStates
<1>10. ASSUME NEW i \in DOMAIN status PROVE ~Ask(i)
  BY <1>0 DEF Ask
<1>11. QED BY <1>1, <1>2, <1>3, <1>4, <1>5, <1>6, <1>7, <1>8, <1>9, <1>10
           DEF AgentNext, RoundEnds, ToolStep

-----------------------------------------------------------------------------
(***************************************************************************)
(* The life of the call.  The prompt waits for the child; the turn runs;   *)
(* it is over, and its Done is the last message the monitor will find; the *)
(* monitor has taken it, and the child is told to quit or leaves.          *)
(***************************************************************************)
PromptWaits ==
    /\ watching /\ pc = "idle" /\ msgQ = <<>> /\ streamed = 0 /\ collected = 0
    /\ \/ poll = "new" /\ eventQ = <<>> /\ inputs = 0
       \/ poll = "child" /\ eventQ = <<Event("Input")>>

TurnRuns ==
    /\ watching /\ poll # "new" /\ InTurn /\ pc # "asking" /\ eventQ = <<>>
    /\ \A i \in DOMAIN msgQ : msgQ[i].type # "Done"

TurnIsOver ==
    /\ watching /\ poll # "new" /\ pc = "idle" /\ eventQ = <<>> /\ msgQ # <<>>
    /\ \A i \in DOMAIN msgQ : msgQ[i].type = "Done" <=> i = Len(msgQ)

Leaving ==
    /\ watching = FALSE /\ poll \in {"child", "waiting", "joined"}
    /\ \A i \in DOMAIN msgQ : msgQ[i].type # "TextChunk"
    /\ \/ pc = "idle" /\ eventQ = <<Event("Quit")>>
       \/ pc \in ExitStates /\ eventQ = <<>>

(* What the monitor has and what is on its way to it is what was streamed. *)
NothingIsLost ==
    /\ collected \in Nat
    /\ collected + CountIn(msgQ, Chunks) = streamed

JoinInv ==
    /\ uiOpen /\ (agentOpen <=> pc # "exited")
    /\ \A i \in DOMAIN msgQ : msgQ[i].type # "PermissionRequest"
    /\ NothingIsLost
    /\ PromptWaits \/ TurnRuns \/ TurnIsOver \/ Leaving

LEMMA JoinInvInit == JoinInit => JoinInv
<1> SUFFICES ASSUME JoinInit PROVE JoinInv
  OBVIOUS
<1>1. CountIn(<<>>, Chunks) = 0 /\ <<>> \in Seq(AgentMessages)
  BY EmptySeq, CountInSequences
<1>2. QED BY <1>1 DEF JoinInit, LoopInit, ChannelsInit, AgentInit, JoinInv, NothingIsLost, PromptWaits

(* The queue to the monitor after silent messages, a chunk or a Done.      *)
LEMMA SilentSent ==
  ASSUME msgQ \in Seq(AgentMessages), uiOpen, NEW ms, Silent(ms), Send(ms)
  PROVE  /\ msgQ' = msgQ \o ms /\ msgQ' \in Seq(AgentMessages)
         /\ CountIn(msgQ', Chunks) = CountIn(msgQ, Chunks)
         /\ \A i \in DOMAIN msgQ' :
               \/ i \in DOMAIN msgQ /\ msgQ'[i] = msgQ[i]
               \/ msgQ'[i].type \notin {"Done", "TextChunk", "PermissionRequest"}
<1>1. msgQ' = msgQ \o ms /\ ms \in Seq(AgentMessages)
  BY DEF Send, Silent
<1>2. msgQ' \in Seq(AgentMessages)
  BY <1>1, ConcatProperties
<1>3. \A i \in DOMAIN ms : ms[i] \notin Chunks
  BY DEF Silent, Chunks
<1>4. CountIn(msgQ', Chunks) = CountIn(msgQ, Chunks)
  <2>1. CountIn(ms, Chunks) = 0 /\ CountIn(msgQ, Chunks) \in Nat
    BY <1>1, <1>3, CountInSequences
  <2>2. CountIn(msgQ \o ms, Chunks) = CountIn(msgQ, Chunks) + CountIn(ms, Chunks)
    BY <1>1, CountInConcat
  <2>3. QED BY <1>1, <2>1, <2>2
<1>5. QED BY <1>1, <1>2, <1>4, ConcatAt DEF Silent

LEMMA OneSent ==
  ASSUME msgQ \in Seq(AgentMessages), uiOpen, NEW m \in AgentMessages, Send(<<m>>)
  PROVE  /\ msgQ' = Append(msgQ, m) /\ msgQ' \in Seq(AgentMessages) /\ msgQ' # <<>>
         /\ Len(msgQ') = Len(msgQ) + 1
         /\ CountIn(msgQ', Chunks) = CountIn(msgQ, Chunks) + (IF m.type = "TextChunk" THEN 1 ELSE 0)
         /\ \A i \in DOMAIN msgQ' :
               \/ i \in DOMAIN msgQ /\ msgQ'[i] = msgQ[i] /\ i # Len(msgQ')
               \/ i = Len(msgQ') /\ msgQ'[i] = m
<1>1. msgQ' = Append(msgQ, m)
  BY AppendAfterConcat DEF Send
<1>2. m \in Chunks <=> m.type = "TextChunk"
  BY DEF Chunks
<1>3. CountIn(msgQ', Chunks) = CountIn(msgQ, Chunks) + (IF m \in Chunks THEN 1 ELSE 0)
  BY <1>1, CountInAppend
<1>4. QED BY <1>1, <1>2, <1>3, AppendProperties, LenProperties

(* A step of the child.                                                    *)
LEMMA ChildKeepsJoinInv ==
  ASSUME SubAgentAssumption, LoopInv, JoinInv, ChildRuns PROVE JoinInv'
<1>0. /\ poll = "child" /\ AgentNext /\ UNCHANGED <<poll, watching, collected>>
      /\ msgQ \in Seq(AgentMessages) /\ streamed \in Nat /\ uiOpen
      /\ (\A i \in DOMAIN msgQ : msgQ[i].type # "PermissionRequest")
      /\ collected \in Nat /\ collected + CountIn(msgQ, Chunks) = streamed
      /\ CountIn(msgQ, Chunks) \in Nat
  <2>1. msgQ \in Seq(AgentMessages) /\ streamed \in Nat
    BY DEF LoopInv, LoopTypeOK, ChannelsTypeOK
  <2>2. CountIn(msgQ, Chunks) \in Nat
    BY <2>1, CountInSequences
  <2>3. QED BY <2>1, <2>2 DEF ChildRuns, subVars, JoinInv, NothingIsLost
<1>1. CASE PromptWaits
  <2>1. pc = "idle" /\ eventQ = <<Event("Input")>> /\ watching /\ msgQ = <<>> /\ agentOpen
    BY <1>0, <1>1 DEF PromptWaits, JoinInv
  <2>2. Head(eventQ).type = "Input" /\ Tail(eventQ) = <<>> /\ eventQ # <<>>
    BY <2>1 DEF Event
  <2>3. RecvInput
    BY <1>0, <2>1, <2>2 DEF AgentNext, AgentReceives, RecvQuit, RecvIgnored, RecvClosed, EventsClosed,
           RoundEnds, Retrieve, Compact, TurnFails, StreamEnds, StreamText, AskEnds, AnswerAllows,
           AnswerDenies, AskSwallows, AskClosed, ToolStep, ToolEnds, FinishRound, CheckAllowed,
           CheckAuto, Ask, LaunchAgent, AnswerRefused, AgentEnds, ReportAgent, Shutdown, EvolveEnds,
           EvolveFails, CloseMcp, CloseLsp
  <2>4. Silent(<<Plain("Thinking")>>)
    BY SilentTexts DEF PlainTypes
  <2>5. /\ Send(<<Plain("Thinking")>>) /\ pc' = "retrieving" /\ eventQ' = <<>>
        /\ UNCHANGED <<uiOpen, agentOpen, streamed>>
    BY <2>2, <2>3 DEF RecvInput, bounds
  <2>6. /\ CountIn(msgQ', Chunks) = CountIn(msgQ, Chunks)
        /\ \A i \in DOMAIN msgQ' : msgQ'[i].type \notin {"Done", "TextChunk", "PermissionRequest"}
    BY <1>0, <2>1, <2>4, <2>5, SilentSent
  <2>7. QED BY <1>0, <2>1, <2>5, <2>6 DEF JoinInv, NothingIsLost, TurnRuns, InTurn, TurnStates
<1>2. CASE TurnRuns
  <2>1. /\ watching /\ InTurn /\ pc # "asking" /\ pc # "exited" /\ eventQ = <<>> /\ agentOpen
        /\ \A i \in DOMAIN msgQ : msgQ[i].type # "Done"
    BY <1>2 DEF TurnRuns, JoinInv, InTurn, TurnStates
  <2>2. /\ eventQ' = <<>> /\ uiOpen' /\ agentOpen'
        /\ TurnGoesOn \/ TurnStreams \/ TurnEnds
    BY <1>0, <2>1, TurnStep
  <2>3. CASE TurnGoesOn
    <3>1. PICK ms : Silent(ms) /\ Send(ms)
      BY <2>3 DEF TurnGoesOn
    <3>2. /\ CountIn(msgQ', Chunks) = CountIn(msgQ, Chunks)
          /\ \A i \in DOMAIN msgQ' : msgQ'[i].type \notin {"Done", "PermissionRequest"}
      BY <1>0, <2>1, <3>1, SilentSent
    <3>3. InTurn' /\ pc' # "asking" /\ streamed' = streamed /\ pc' # "exited"
      BY <2>3 DEF TurnGoesOn, InTurn, TurnStates
    <3>4. QED BY <1>0, <2>1, <2>2, <3>2, <3>3 DEF JoinInv, NothingIsLost, TurnRuns
  <2>4. CASE TurnStreams
    <3>1. PICK kind \in ChunkKinds : Send(<<Chunk(kind)>>)
      BY <2>4 DEF TurnStreams
    <3>2. Chunk(kind) \in AgentMessages /\ Chunk(kind).type = "TextChunk"
      BY MessageTypes DEF Chunk
    <3>3. /\ CountIn(msgQ', Chunks) = CountIn(msgQ, Chunks) + 1
          /\ \A i \in DOMAIN msgQ' : msgQ'[i].type \notin {"Done", "PermissionRequest"}
      BY <1>0, <2>1, <3>1, <3>2, OneSent
    <3>4. InTurn' /\ pc' # "asking" /\ streamed' = streamed + 1 /\ pc' # "exited"
      BY <2>4 DEF TurnStreams, InTurn, TurnStates
    <3>5. collected + (CountIn(msgQ, Chunks) + 1) = streamed + 1
      BY <1>0
    <3>6. QED BY <1>0, <2>1, <2>2, <3>3, <3>4, <3>5 DEF JoinInv, NothingIsLost, TurnRuns
  <2>5. CASE TurnEnds
    <3>1. PICK ms : Silent(ms) /\ Send(ms \o <<Plain("Done")>>)
      BY <2>5 DEF TurnEnds
    <3>2. Plain("Done") \in AgentMessages /\ Plain("Done").type = "Done"
      BY MessageTypes DEF Plain, PlainTypes
    <3> DEFINE between == msgQ \o ms
    <3>3. ms \in Seq(AgentMessages) /\ between \in Seq(AgentMessages)
      BY <1>0, <3>1, ConcatProperties DEF Silent
    <3>4. msgQ' = Append(between, Plain("Done"))
      BY <1>0, <3>1, <3>2, <3>3, AppendAfterConcat DEF Send
    <3>5. CountIn(between, Chunks) = CountIn(msgQ, Chunks)
      <4>1. \A i \in DOMAIN ms : ms[i] \notin Chunks
        BY <3>1 DEF Silent, Chunks
      <4>2. CountIn(ms, Chunks) = 0
        BY <3>3, <4>1, CountInSequences
      <4>3. CountIn(msgQ \o ms, Chunks) = CountIn(msgQ, Chunks) + CountIn(ms, Chunks)
        BY <1>0, <3>3, CountInConcat
      <4>4. QED BY <1>0, <4>2, <4>3
    <3>6. CountIn(msgQ', Chunks) = CountIn(between, Chunks)
      <4>1. Plain("Done") \notin Chunks
        BY <3>2 DEF Chunks
      <4>2. CountIn(between, Chunks) \in Nat
        BY <1>0, <3>5
      <4> HIDE DEF between
      <4>3. QED BY <3>2, <3>3, <3>4, <4>1, <4>2, CountInAppend
    <3>7. \A i \in DOMAIN between : between[i].type \notin {"Done", "PermissionRequest"}
      BY <1>0, <2>1, <3>1, <3>3, ConcatAt DEF Silent
    <3>8. /\ msgQ' # <<>>
          /\ \A i \in DOMAIN msgQ' :
                /\ msgQ'[i].type = "Done" <=> i = Len(msgQ')
                /\ msgQ'[i].type # "PermissionRequest"
      <4> HIDE DEF between
      <4>1. QED BY <3>2, <3>3, <3>4, <3>7, AppendProperties, LenProperties
    <3>9. pc' = "idle" /\ streamed' = streamed
      BY <2>5 DEF TurnEnds
    <3>10. QED BY <1>0, <2>1, <2>2, <3>5, <3>6, <3>8, <3>9 DEF JoinInv, NothingIsLost, TurnIsOver
  <2>6. QED BY <2>2, <2>3, <2>4, <2>5
<1>3. CASE TurnIsOver
  <2>1. pc = "idle" /\ eventQ = <<>> /\ uiOpen
    BY <1>0, <1>3 DEF TurnIsOver
  <2>2. QED
    BY <1>0, <2>1 DEF AgentNext, AgentReceives, RecvInput, RecvQuit, RecvIgnored, RecvClosed,
           EventsClosed, RoundEnds, Retrieve, Compact, TurnFails, StreamEnds, StreamText, AskEnds,
           AnswerAllows, AnswerDenies, AskSwallows, AskClosed, ToolStep, ToolEnds, FinishRound,
           CheckAllowed, CheckAuto, Ask, LaunchAgent, AnswerRefused, AgentEnds, ReportAgent, Shutdown,
           EvolveEnds, EvolveFails, CloseMcp, CloseLsp
<1>4. CASE Leaving
  <2>1. watching = FALSE /\ \A i \in DOMAIN msgQ : msgQ[i].type # "TextChunk"
    BY <1>4 DEF Leaving
  <2>2. CASE pc = "idle" /\ eventQ = <<Event("Quit")>>
    <3>1. Head(eventQ).type = "Quit" /\ Tail(eventQ) = <<>> /\ eventQ # <<>>
      BY <2>2 DEF Event
    <3>2. RecvQuit
      BY <1>0, <2>2, <3>1 DEF AgentNext, AgentReceives, RecvInput, RecvIgnored, RecvClosed,
             EventsClosed, RoundEnds, Retrieve, Compact, TurnFails, StreamEnds, StreamText, AskEnds,
             AnswerAllows, AnswerDenies, AskSwallows, AskClosed, ToolStep, ToolEnds, FinishRound,
             CheckAllowed, CheckAuto, Ask, LaunchAgent, AnswerRefused, AgentEnds, ReportAgent,
             Shutdown, EvolveEnds, EvolveFails, CloseMcp, CloseLsp
    <3>3. pc' = "evolving" /\ eventQ' = <<>> /\ UNCHANGED <<msgQ, uiOpen, agentOpen, streamed>>
      BY <3>1, <3>2 DEF RecvQuit, bounds
    <3>4. QED BY <1>0, <1>4, <2>1, <2>2, <3>3 DEF JoinInv, NothingIsLost, Leaving, ExitStates
  <2>3. CASE pc \in ExitStates /\ eventQ = <<>>
    <3>1. Shutdown
      BY <1>0, <2>3 DEF AgentNext, AgentReceives, RecvInput, RecvQuit, RecvIgnored, RecvClosed,
             RoundEnds, Retrieve, Compact, TurnFails, StreamEnds, StreamText, AskEnds,
             AnswerAllows, AnswerDenies, AskSwallows, AskClosed, ToolStep, ToolEnds, FinishRound,
             CheckAllowed, CheckAuto, Ask, LaunchAgent, AnswerRefused, AgentEnds, ReportAgent, ExitStates
    <3>2. /\ pc' \in ExitStates /\ eventQ' = <<>> /\ UNCHANGED <<uiOpen, streamed>>
          /\ (agentOpen' <=> pc' # "exited")
          /\ msgQ' = msgQ \/ Send(<<Plain("Evolved")>>)
      BY <2>3, <3>1 DEF Shutdown, EvolveEnds, EvolveFails, CloseMcp, CloseLsp, Return, ExitStates,
                        channelVars, bounds, JoinInv
    <3>3. CASE msgQ' = msgQ
      BY <1>0, <1>4, <2>1, <3>2, <3>3 DEF JoinInv, NothingIsLost, Leaving
    <3>4. CASE Send(<<Plain("Evolved")>>)
      <4>1. Silent(<<Plain("Evolved")>>)
        BY SilentTexts DEF PlainTypes
      <4>2. /\ CountIn(msgQ', Chunks) = CountIn(msgQ, Chunks)
            /\ \A i \in DOMAIN msgQ' : msgQ'[i].type \notin {"TextChunk", "PermissionRequest"}
        BY <1>0, <2>1, <3>4, <4>1, SilentSent
      <4>3. QED BY <1>0, <1>4, <2>1, <3>2, <4>2 DEF JoinInv, NothingIsLost, Leaving
    <3>5. QED BY <3>2, <3>3, <3>4
  <2>4. QED BY <1>4, <2>2, <2>3 DEF Leaving
<1>5. QED BY <1>1, <1>2, <1>3, <1>4 DEF JoinInv

(* The first poll, the ends of a poll of the child, and a waker.           *)
LEMMA PollsKeepJoinInv ==
  ASSUME LoopInv, JoinInv, SendPrompt \/ ChildPends \/ ChildReturned \/ WakeJoin PROVE JoinInv'
<1>1. CASE SendPrompt
  <2>1. PromptWaits /\ eventQ = <<>> /\ agentOpen
    BY <1>1 DEF SendPrompt, JoinInv, PromptWaits, TurnRuns, TurnIsOver, Leaving
  <2>2. eventQ' = <<Event("Input")>>
    BY <1>1, <2>1 DEF SendPrompt, SendEvent
  <2>3. QED BY <1>1, <2>1, <2>2 DEF SendPrompt, agentVars, JoinInv, NothingIsLost, PromptWaits
<1>2. CASE ChildPends \/ ChildReturned \/ WakeJoin
  <2>1. /\ UNCHANGED <<pc, eventQ, msgQ, uiOpen, agentOpen, inputs, streamed, watching, collected>>
        /\ poll' \in {"child", "monitor", "waiting", "joined"}
        /\ (~watching => poll' # "monitor")
    BY <1>2 DEF ChildPends, ChildReturned, WakeJoin, loopVars, channelVars, agentVars, bounds
  <2>2. ~PromptWaits
    BY <1>2 DEF PromptWaits, ChildPends, ChildReturned, WakeJoin, AwaitsIo
  <2>3. QED BY <2>1, <2>2 DEF JoinInv, NothingIsLost, TurnRuns, TurnIsOver, Leaving, InTurn
<1>3. QED BY <1>1, <1>2

(* The monitor takes a message, or finds none.                             *)
LEMMA MonitorKeepsJoinInv ==
  ASSUME LoopInv, JoinInv, MonitorRuns PROVE JoinInv'
<1>0. /\ poll = "monitor" /\ uiOpen /\ (agentOpen <=> pc # "exited")
      /\ msgQ \in Seq(AgentMessages) /\ streamed \in Nat
      /\ (\A i \in DOMAIN msgQ : msgQ[i].type # "PermissionRequest")
      /\ collected \in Nat /\ collected + CountIn(msgQ, Chunks) = streamed
      /\ TurnRuns \/ TurnIsOver
      /\ watching /\ agentOpen
  <2>1. poll = "monitor"
    BY DEF MonitorRuns, MonitorTakes, MonitorFindsNone
  <2>2. msgQ \in Seq(AgentMessages) /\ streamed \in Nat
    BY DEF LoopInv, LoopTypeOK, ChannelsTypeOK
  <2>3. TurnRuns \/ TurnIsOver
    BY <2>1 DEF JoinInv, PromptWaits, Leaving
  <2>4. watching /\ pc # "exited"
    BY <2>3 DEF TurnRuns, TurnIsOver, InTurn, TurnStates
  <2>5. QED BY <2>1, <2>2, <2>3, <2>4 DEF JoinInv, NothingIsLost
<1>1. CASE MonitorFindsNone
  BY <1>0, <1>1 DEF MonitorFindsNone, MessagesClosed, loopVars, channelVars, agentVars, bounds,
                    JoinInv, NothingIsLost, TurnRuns, TurnIsOver, InTurn
<1>2. CASE MonitorTakes
  <2>1. /\ msgQ # <<>> /\ msgQ' = Tail(msgQ)
        /\ UNCHANGED <<uiOpen, agentOpen, pc, streamed>>
        /\ collected' = IF Head(msgQ).type = "TextChunk" THEN collected + 1 ELSE collected
    BY <1>2 DEF MonitorTakes, agentVars, bounds
  <2>2. /\ Len(msgQ) \in Nat /\ Len(msgQ) >= 1 /\ Len(Tail(msgQ)) = Len(msgQ) - 1
        /\ DOMAIN msgQ = 1..Len(msgQ) /\ DOMAIN Tail(msgQ) = 1..(Len(msgQ) - 1)
        /\ (\A k \in 1..(Len(msgQ) - 1) : Tail(msgQ)[k] = msgQ[k + 1])
        /\ Head(msgQ) = msgQ[1] /\ Head(msgQ) \in AgentMessages /\ Tail(msgQ) \in Seq(AgentMessages)
    BY <1>0, <2>1, HeadTailProperties, LenProperties, EmptySeq
  <2>3. Head(msgQ) \in Chunks <=> Head(msgQ).type = "TextChunk"
    BY <2>2 DEF Chunks
  <2>4. CountIn(msgQ', Chunks) \in Nat
    BY <2>1, <2>2, CountInSequences
  <2>5. NothingIsLost'
    <3>1. CountIn(msgQ, Chunks) = CountIn(msgQ', Chunks) + (IF Head(msgQ) \in Chunks THEN 1 ELSE 0)
      BY <1>0, <2>1, CountInTail
    <3>2. QED BY <1>0, <2>1, <2>3, <2>4, <3>1 DEF NothingIsLost
  <2>6. \A i \in DOMAIN msgQ' : i \in Nat /\ i + 1 \in DOMAIN msgQ /\ msgQ'[i] = msgQ[i + 1]
    BY <2>1, <2>2
  <2>7. \A i \in DOMAIN msgQ' : msgQ'[i].type # "PermissionRequest"
    BY <1>0, <2>6
  <2>8. Head(msgQ).type # "PermissionRequest"
    BY <1>0, <2>2
  <2>9. CASE Head(msgQ).type = "Done"
    <3>1. TurnIsOver /\ Len(msgQ) = 1
      <4>1. ~TurnRuns
        BY <2>2, <2>9 DEF TurnRuns
      <4>2. QED BY <1>0, <2>2, <2>9, <4>1 DEF TurnIsOver
    <3>2. eventQ' = <<Event("Quit")>> /\ watching' = FALSE /\ poll' = "waiting"
      BY <1>0, <1>2, <2>9, <3>1 DEF MonitorTakes, MonitorAnswers, MonitorBreaks, SendEvent, TurnIsOver
    <3>3. DOMAIN msgQ' = {}
      BY <2>1, <2>2, <3>1
    <3>4. QED BY <1>0, <2>1, <2>5, <3>1, <3>2, <3>3 DEF JoinInv, Leaving, TurnIsOver
  <2>10. CASE Head(msgQ).type # "Done"
    <3>1. eventQ' = eventQ /\ watching' = watching /\ poll' = poll
      BY <1>2, <2>8, <2>10 DEF MonitorTakes, MonitorAnswers
    <3>2. CASE TurnRuns
      BY <1>0, <2>1, <2>5, <2>6, <2>7, <3>1, <3>2 DEF JoinInv, TurnRuns, InTurn
    <3>3. CASE TurnIsOver
      <4>1. Len(msgQ) # 1
        BY <2>2, <2>10, <3>3 DEF TurnIsOver
      <4>2. msgQ' # <<>> /\ Len(msgQ') = Len(msgQ) - 1
        <5>1. Len(msgQ') = Len(msgQ) - 1 /\ Len(msgQ') >= 1
          BY ONLY <2>1, <2>2, <4>1
        <5>2. Len(<<>>) = 0
          OBVIOUS
        <5>3. QED BY ONLY <5>1, <5>2
      <4>3. \A i \in DOMAIN msgQ' : msgQ'[i].type = "Done" <=> i = Len(msgQ')
        BY <2>2, <2>6, <3>3, <4>2 DEF TurnIsOver
      <4>4. QED BY <1>0, <2>1, <2>5, <2>7, <3>1, <3>3, <4>2, <4>3 DEF JoinInv, TurnIsOver
    <3>4. QED BY <1>0, <3>2, <3>3
  <2>11. QED BY <2>9, <2>10
<1>3. QED BY <1>1, <1>2 DEF MonitorRuns

LEMMA JoinInvNext ==
  ASSUME SubAgentAssumption, LoopInv, JoinInv, [JoinNext]_joinVars PROVE JoinInv'
<1>1. CASE UNCHANGED joinVars
  BY <1>1 DEF joinVars, subVars, loopVars, channelVars, agentVars, bounds, JoinInv, NothingIsLost,
              PromptWaits, TurnRuns, TurnIsOver, Leaving, InTurn
<1>2. QED
  BY <1>1, ChildKeepsJoinInv, PollsKeepJoinInv, MonitorKeepsJoinInv DEF JoinNext, Joined

-----------------------------------------------------------------------------
(***************************************************************************)
(* The monitor is a peer of the agent loop: what it sends it sends to an   *)
(* open channel with room, and it never leaves before the child.           *)
(***************************************************************************)
LEMMA JoinStepIsLoopStep ==
  ASSUME SubAgentAssumption, LoopInv, JoinInv, [JoinNext]_joinVars PROVE [LoopNext]_loopVars
<1>0. /\ EventCap > 0 /\ MaxInputs > 0 /\ EventCap \in Nat /\ MaxInputs \in Nat
      /\ Event("Input") \in AgentEvents /\ Event("Quit") \in AgentEvents
  BY ProtocolAssumption DEF SubAgentAssumption, Event, AgentEvents, EventTypes, Answers
<1>1. CASE SendPrompt
  <2>1. eventQ = <<>> /\ inputs = 0 /\ uiOpen
    BY <1>1 DEF SendPrompt, JoinInv, PromptWaits, TurnRuns, TurnIsOver, Leaving
  <2>2. Event("Input").type = "Input" /\ Len(eventQ) = 0
    BY <2>1 DEF Event
  <2>3. PeerSends
    BY <1>0, <1>1, <2>1, <2>2 DEF SendPrompt, PeerSends
  <2>4. QED BY <2>3 DEF LoopNext
<1>2. CASE ChildRuns
  BY <1>2 DEF ChildRuns, LoopNext
<1>3. CASE ChildPends \/ ChildReturned \/ WakeJoin \/ MonitorFindsNone
  BY <1>3 DEF ChildPends, ChildReturned, WakeJoin, MonitorFindsNone
<1>4. CASE MonitorTakes
  <2>1. /\ uiOpen /\ TakesMessage /\ eventQ = <<>>
        /\ Head(msgQ).type # "PermissionRequest"
        /\ UNCHANGED <<uiOpen, agentOpen, agentVars, bounds>>
    <3>1. Head(msgQ).type # "PermissionRequest"
      BY <1>4, HeadTailProperties DEF MonitorTakes, JoinInv, LoopInv, LoopTypeOK, ChannelsTypeOK
    <3>2. QED BY <1>4, <3>1 DEF MonitorTakes, TakesMessage, JoinInv, PromptWaits, TurnRuns, TurnIsOver,
                                Leaving
  <2>2. CASE Head(msgQ).type = "Done"
    <3>1. SendEvent(Event("Quit")) /\ Event("Quit").type = "Quit" /\ Len(eventQ) = 0
      BY <1>4, <2>1, <2>2 DEF MonitorTakes, MonitorAnswers, Event
    <3>2. PeerSends
      BY <1>0, <2>1, <3>1 DEF PeerSends, bounds
    <3>3. QED BY <3>2 DEF LoopNext
  <2>3. CASE Head(msgQ).type # "Done"
    <3>1. PeerReceives
      BY <1>4, <2>1, <2>3 DEF MonitorTakes, MonitorAnswers, PeerReceives
    <3>2. QED BY <3>1 DEF LoopNext
  <2>4. QED BY <2>2, <2>3
<1>5. CASE UNCHANGED joinVars
  BY <1>5 DEF joinVars
<1>6. QED BY <1>1, <1>2, <1>3, <1>4, <1>5 DEF JoinNext, MonitorRuns, Joined

LEMMA JoinInvariants ==
  ASSUME SubAgentAssumption PROVE JoinSpec => [](LoopInv /\ JoinInv)
<1>1. JoinInit => LoopInv /\ JoinInv
  BY LoopInvInit, JoinInvInit DEF JoinInit
<1>2. LoopInv /\ JoinInv /\ [JoinNext]_joinVars => (LoopInv /\ JoinInv)'
  BY JoinStepIsLoopStep, JoinInvNext, LoopInvNext
<1>3. QED BY <1>1, <1>2, PTL DEF JoinSpec

(* Agent::run as a child (src/tools/sub_agent.rs): what run_sub_agent does *)
(* around it is what a user interface may do, so every theorem about       *)
(* LoopSpec holds of a sub-agent.                                          *)
THEOREM SubAgentIsAgentLoop == ASSUME SubAgentAssumption PROVE JoinSpec => IsAgentLoop
<1>1. LoopInv /\ JoinInv /\ [JoinNext]_joinVars => [LoopNext]_loopVars
  BY JoinStepIsLoopStep
<1>2. JoinInit => LoopInit
  BY DEF JoinInit
<1>3. QED BY <1>1, <1>2, JoinInvariants, PTL DEF JoinSpec, IsAgentLoop, LoopSpec

(* The results of the child's tools answer its uses, whatever it was asked *)
(* to do.                                                                  *)
THEOREM SubAgentResultsAnswerUses ==
  ASSUME SubAgentAssumption PROVE JoinSpec => []ResultsAnswerUses
  BY SubAgentIsAgentLoop, ResultsAnswerTheirUses DEF IsAgentLoop

(* monitor_future of run_sub_agent: when it breaks it has every chunk the  *)
(* child's turn streamed, and it tells the child to quit exactly once.     *)
THEOREM MonitorDoesItsPart ==
  ASSUME SubAgentAssumption PROVE JoinSpec => []MonitorKeepsItsWord
<1>1. ASSUME LoopInv, JoinInv PROVE MonitorKeepsItsWord
  <2> DEFINE Q == {i \in DOMAIN eventQ : eventQ[i].type = "Quit"}
  <2>1. AnswerIsWhole
    <3>1. CASE Leaving
      <4>1. \A i \in DOMAIN msgQ : msgQ[i] \notin Chunks
        BY <3>1 DEF Leaving, Chunks
      <4>2. CountIn(msgQ, Chunks) = 0
        BY <1>1, <4>1, CountInSequences DEF LoopInv, LoopTypeOK, ChannelsTypeOK
      <4>3. collected = streamed
        BY <1>1, <4>2 DEF JoinInv, NothingIsLost
      <4>4. QED BY <3>1, <4>3 DEF AnswerIsWhole, Leaving, InTurn, TurnStates, ExitStates
    <3>2. CASE ~Leaving
      BY <1>1, <3>2 DEF AnswerIsWhole, JoinInv, PromptWaits, TurnRuns, TurnIsOver
    <3>3. QED BY <3>1, <3>2
  <2>2. QuitOnce
    <3>1. CASE eventQ = <<Event("Quit")>>
      <4>1. Q = {1}
        BY <3>1 DEF Event
      <4>2. Cardinality(Q) = 1
        BY <4>1, FS_Singleton
      <4>3. ~watching /\ pc = "idle"
        BY <1>1, <3>1 DEF JoinInv, PromptWaits, TurnRuns, TurnIsOver, Leaving, Event
      <4>4. QED BY <4>2, <4>3 DEF QuitOnce, ExitStates
    <3>2. CASE eventQ # <<Event("Quit")>>
      <4>1. Q = {}
        BY <1>1, <3>2 DEF JoinInv, PromptWaits, TurnRuns, TurnIsOver, Leaving, Event
      <4>2. Cardinality(Q) = 0
        BY <4>1, FS_EmptySet
      <4>3. IF watching THEN pc \notin ExitStates ELSE pc \in ExitStates
        BY <1>1, <3>2 DEF JoinInv, PromptWaits, TurnRuns, TurnIsOver, Leaving, InTurn, TurnStates,
                          ExitStates
      <4>4. QED BY <4>2, <4>3 DEF QuitOnce
    <3>3. QED BY <3>1, <3>2
  <2>3. QED BY <2>1, <2>2 DEF MonitorKeepsItsWord
<1>2. QED BY <1>1, JoinInvariants, PTL

=============================================================================
