------------------------- MODULE VivSession_proofs -------------------------
(***************************************************************************)
(* Theorems about the whole program, VivSession: for every set of tools,   *)
(* every reply of the model, and any number of inputs, chunks, events in   *)
(* flight and interrupts.                                                  *)
(***************************************************************************)
EXTENDS VivSession, AgentLoop_proofs, SequenceLemmas

-----------------------------------------------------------------------------
(***************************************************************************)
(* The program is an AgentLoop with a peer.  Its UI's ends are open until  *)
(* run() returns, which is what lets each step of the UI be a step of the  *)
(* peer.                                                                   *)
(***************************************************************************)
UiRunsInv == (uiOpen <=> uiPc # "done") /\ (~uiOpen => msgQ = <<>>)

LEMMA AgentLeavesUiEnds == ASSUME AgentNext PROVE uiOpen' = uiOpen
<1>1. CASE AgentReceives
  BY <1>1 DEF AgentReceives, RecvInput, RecvQuit, RecvIgnored, RecvClosed, Return
<1>2. CASE RoundEnds
  BY <1>2 DEF RoundEnds, Retrieve, Compact, TurnFails, StreamEnds
<1>3. CASE AskEnds
  BY <1>3 DEF AskEnds, AnswerAllows, AnswerDenies, AskSwallows, AskClosed
<1>4. CASE ToolStep
  BY <1>4 DEF ToolStep, ToolEnds, FinishRound, CheckAllowed, CheckAuto, Ask, LaunchAgent,
              AnswerRefused, AgentEnds, ReportAgent, channelVars
<1>5. CASE Shutdown
  BY <1>5 DEF Shutdown, EvolveEnds, EvolveFails, CloseMcp, CloseLsp, Return, channelVars
<1>6. CASE StreamText
  BY <1>6 DEF StreamText
<1>7. QED BY <1>1, <1>2, <1>3, <1>4, <1>5, <1>6 DEF AgentNext

(* Sending to a UI that has returned leaves nothing behind.                *)
LEMMA AgentSendsToOpenUi ==
  ASSUME AgentNext, ~uiOpen PROVE msgQ' = msgQ
<1>1. CASE AgentReceives
  BY <1>1 DEF AgentReceives, RecvInput, RecvQuit, RecvIgnored, RecvClosed, Send
<1>2. CASE RoundEnds
  BY <1>2 DEF RoundEnds, Retrieve, Compact, TurnFails, StreamEnds, NextRound, Send
<1>3. CASE AskEnds
  BY <1>3 DEF AskEnds, AnswerAllows, AnswerDenies, AskSwallows, AskClosed, Approve, Refuse, Send
<1>4. CASE ToolStep
  BY <1>4 DEF ToolStep, ToolEnds, FinishRound, CheckAllowed, CheckAuto, Ask, LaunchAgent,
              AnswerRefused, AgentEnds, ReportAgent, NextRound, Approve, Send, channelVars
<1>5. CASE Shutdown
  BY <1>5 DEF Shutdown, EvolveEnds, EvolveFails, CloseMcp, CloseLsp, Send, channelVars
<1>6. CASE StreamText
  BY <1>6 DEF StreamText, Send
<1>7. QED BY <1>1, <1>2, <1>3, <1>4, <1>5, <1>6 DEF AgentNext

(* A step of the UI leaves the agent's channel end alone and is one of the *)
(* three things a peer may do, or changes nothing the agent could notice.  *)
LEMMA UiStepIsPeerStep ==
  ASSUME UiRunsInv, UiNext, UNCHANGED agentVars
  PROVE  /\ PeerSends \/ PeerReceives \/ PeerLeaves \/ UNCHANGED loopVars
         /\ UiRunsInv'
<1> USE DEF UiRunsInv, loopVars, channelVars, bounds
<1>1. CASE UiReceives
  <2>1. CASE OnEvolved
    BY <1>1, <2>1 DEF OnEvolved, Receive, Leave, PeerLeaves
  <2>2. CASE ~OnEvolved
    BY <1>1, <2>2 DEF UiReceives, OnThinking, OnTextChunk, OnToolStart, OnToolResult,
       OnPermissionRequest, OnStatus, OnDone, OnError, Receive, Took, PeerReceives, TakesMessage
  <2>3. QED BY <2>1, <2>2
<1>2. CASE RenderFrame \/ Disconnected \/ PollEnds
  BY <1>2 DEF RenderFrame, Disconnected, PollEnds, Leave, PeerLeaves
<1>3. CASE ForceExit \/ MenuMoves
  BY <1>3 DEF ForceExit, MenuMoves, Leave, PeerLeaves
<1>4. CASE MenuEnter
  <2>1. CASE Prompts = {}
    BY <1>4, <2>1 DEF MenuEnter
  <2>2. CASE Prompts # {}
    <3>1. PICK answer \in Answers : SendEvent(Response(answer))
      BY <1>4, <2>2 DEF MenuEnter
    <3>2. Response(answer) \in AgentEvents /\ Response(answer).type \notin {"Input", "Command"}
      BY DEF Response, AgentEvents, EventTypes
    <3>3. PeerSends
      BY <1>4, <3>1, <3>2 DEF MenuEnter, PeerSends
    <3>4. QED BY <1>4, <3>3 DEF MenuEnter
  <2>3. QED BY <2>1, <2>2
<1>5. ASSUME NEW type \in {"Interrupt", "Quit", "Exit"}, Typing(type), inputs' = inputs
      PROVE  PeerSends /\ UiRunsInv'
  <2>1. Event(type) \in AgentEvents /\ Event(type).type \notin {"Input", "Command"}
    BY DEF Event, AgentEvents, EventTypes, Answers
  <2>2. QED BY <1>5, <2>1 DEF Typing, PeerSends
<1>6. CASE CtrlC \/ CtrlD \/ SubmitExit
  BY <1>5, <1>6 DEF CtrlC, CtrlD, SubmitExit
<1>7. CASE Submit
  <2>1. PICK e \in {"Input", "Command"} : Typing(e)
    BY <1>7 DEF Submit
  <2>2. Event(e) \in AgentEvents /\ Event(e).type \in {"Input", "Command"}
    BY DEF Event, AgentEvents, EventTypes, Answers
  <2>3. QED BY <1>7, <2>1, <2>2 DEF Submit, Typing, PeerSends
<1>8. QED BY <1>1, <1>2, <1>3, <1>4, <1>6, <1>7 DEF UiNext, UiLoop, UiKey

LEMMA StepIsLoopStep ==
  UiRunsInv /\ [Next]_vars => [LoopNext]_loopVars /\ UiRunsInv'
<1> SUFFICES ASSUME UiRunsInv, [Next]_vars PROVE [LoopNext]_loopVars /\ UiRunsInv'
  OBVIOUS
<1>1. CASE AgentNext /\ UNCHANGED uiVars
  BY <1>1, AgentLeavesUiEnds, AgentSendsToOpenUi DEF LoopNext, UiRunsInv, uiVars
<1>2. CASE UiNext /\ UNCHANGED agentVars
  BY <1>2, UiStepIsPeerStep DEF LoopNext
<1>3. CASE UNCHANGED vars
  BY <1>3 DEF vars, uiVars, loopVars, channelVars, UiRunsInv
<1>4. QED BY <1>1, <1>2, <1>3 DEF Next

LEMMA InitIsLoopInit == Init => LoopInit /\ UiRunsInv
  BY DEF Init, LoopInit, UiRunsInv, ChannelsInit, UiInit

(* main.rs: whatever the user types, and whenever, the agent thread of the *)
(* program behaves as AgentLoop says.                                      *)
THEOREM VivIsAgentLoop == Spec => IsAgentLoop
<1>1. Spec => []UiRunsInv
  BY InitIsLoopInit, StepIsLoopStep, PTL DEF Spec
<1>2. QED BY <1>1, InitIsLoopInit, StepIsLoopStep, PTL DEF Spec, IsAgentLoop, LoopSpec

(* The conversation of the program: results answer exactly their uses.     *)
THEOREM VivResultsAnswerUses == Spec => []ResultsAnswerUses
  BY VivIsAgentLoop, ResultsAnswerTheirUses, PTL DEF IsAgentLoop

-----------------------------------------------------------------------------
(***************************************************************************)
(* One question at a time.  Until the user first presses Ctrl+C a request  *)
(* is in exactly one place - among the messages, on the screen, or as its  *)
(* answer among the events - and only while the agent waits for it; so the *)
(* answer the agent takes is one the user gave about the tool in hand.     *)
(***************************************************************************)
IsRequest(m) == m.type = "PermissionRequest"
IsResponse(e) == e.type = "PermissionResponse"

NoRequest == \A i \in DOMAIN msgQ : ~IsRequest(msgQ[i])
NoPrompt == uiOpen => pending = NoTool
NoResponse == \A i \in DOMAIN eventQ : ~IsResponse(eventQ[i])
NoInterrupt == \A i \in DOMAIN eventQ : eventQ[i].type # "Interrupt"
Quiet == NoRequest /\ NoPrompt /\ NoResponse

Requested ==
    \A i \in DOMAIN msgQ : IsRequest(msgQ[i]) =>
        /\ msgQ[i].tool = uses[current]
        /\ NoPrompt /\ NoResponse
        /\ \A j \in DOMAIN msgQ : IsRequest(msgQ[j]) => j = i
Prompted == uiOpen /\ pending # NoTool => pending = uses[current] /\ NoResponse
Answered ==
    \A i \in DOMAIN eventQ : IsResponse(eventQ[i]) =>
        /\ <<uses[current], eventQ[i].answer>> \in answers
        /\ \A j \in DOMAIN eventQ : IsResponse(eventQ[j]) => j = i

OneQuestion ==
    /\ NoInterrupt
    /\ pc # "asking" => Quiet
    /\ pc = "asking" => Requested /\ Prompted /\ Answered
CalmInv == interrupts = 0 => OneQuestion /\ GrantsMatchAnswers

QueueTypes == msgQ \in Seq(AgentMessages) /\ eventQ \in Seq(AgentEvents)

-----------------------------------------------------------------------------
(* A sequence of messages without a request.                               *)
Plainly(ms) == ms \in Seq(AgentMessages) /\ \A i \in DOMAIN ms : ~IsRequest(ms[i])

LEMMA PlainOne ==
  ASSUME NEW m \in AgentMessages, ~IsRequest(m) PROVE Plainly(<<m>>)
<1>1. <<m>> \in Seq(AgentMessages) /\ DOMAIN <<m>> = {1} /\ <<m>>[1] = m
  OBVIOUS
<1>2. QED BY <1>1 DEF Plainly

LEMMA PlainConcat ==
  ASSUME NEW s, Plainly(s), NEW t, Plainly(t) PROVE Plainly(s \o t)
<1>1. s \in Seq(AgentMessages) /\ t \in Seq(AgentMessages)
  BY DEF Plainly
<1>2. s \o t \in Seq(AgentMessages)
  BY <1>1, ConcatProperties
<1>3. QED BY <1>1, <1>2, ConcatAt DEF Plainly

LEMMA PlainTexts ==
    /\ Plainly(<<>>)
    /\ \A type \in PlainTypes : Plainly(<<Plain(type)>>)
    /\ \A kind \in ChunkKinds : Plainly(<<Chunk(kind)>>)
    /\ \A type \in ToolTypes : \A use \in Nat : Plainly(<<ToolMsg(type, use)>>)
    /\ Plainly(TurnEnd)
    /\ Plainly(TurnFailed)
<1>1. Plainly(<<>>)
  BY EmptySeq DEF Plainly
<1>2. ASSUME NEW type \in PlainTypes PROVE Plainly(<<Plain(type)>>)
  BY PlainOne, MessageTypes DEF Plain, IsRequest, PlainTypes
<1>3. ASSUME NEW kind \in ChunkKinds PROVE Plainly(<<Chunk(kind)>>)
  BY PlainOne, MessageTypes DEF Chunk, IsRequest
<1>4. ASSUME NEW type \in ToolTypes, NEW use \in Nat PROVE Plainly(<<ToolMsg(type, use)>>)
  BY PlainOne, MessageTypes DEF ToolMsg, IsRequest, ToolTypes
<1>5. Plainly(TurnEnd) /\ Plainly(TurnFailed)
  <2>1. Plainly(<<Plain("Tokens")>>) /\ Plainly(<<Plain("Error")>>) /\ Plainly(<<Plain("Done")>>)
    BY <1>2 DEF PlainTypes
  <2>2. /\ TurnEnd = <<Plain("Tokens")>> \o <<Plain("Done")>>
        /\ TurnFailed = <<Plain("Error")>> \o <<Plain("Done")>>
    BY DEF TurnEnd, TurnFailed
  <2>3. QED BY <2>1, <2>2, PlainConcat
<1>6. QED BY <1>1, <1>2, <1>3, <1>4, <1>5

LEMMA SendPlainly ==
  ASSUME QueueTypes, NEW ms, Plainly(ms), Send(ms), NoRequest PROVE NoRequest'
  BY ConcatAt DEF QueueTypes, Send, NoRequest, Plainly

LEMMA NextRoundPlainly ==
  ASSUME QueueTypes, NEW ms, Plainly(ms), NextRound(ms), NoRequest
  PROVE  NoRequest' /\ pc' # "asking"
<1>1. Plainly(ms \o TurnEnd)
  BY PlainConcat, PlainTexts
<1>2. QED BY <1>1, SendPlainly DEF NextRound

-----------------------------------------------------------------------------
(* The agent adds nothing to its own events.                               *)
EventsTaken == \A i \in DOMAIN eventQ' : \E j \in DOMAIN eventQ : eventQ'[i] = eventQ[j]

LEMMA AgentTakesEvents ==
  ASSUME QueueTypes, AgentNext PROVE EventsTaken
<1>1. CASE eventQ' = eventQ \/ eventQ' = <<>>
  BY <1>1 DEF EventsTaken
<1>2. CASE eventQ # <<>> /\ eventQ' = Tail(eventQ)
  BY <1>2, TailAt DEF QueueTypes, EventsTaken
<1>3. CASE AgentReceives
  BY <1>1, <1>2, <1>3 DEF AgentReceives, RecvInput, RecvQuit, RecvIgnored, RecvClosed, Return
<1>4. CASE RoundEnds
  BY <1>1, <1>4 DEF RoundEnds, Retrieve, Compact, TurnFails, StreamEnds
<1>5. CASE AskEnds
  BY <1>1, <1>2, <1>5 DEF AskEnds, AnswerAllows, AnswerDenies, AskSwallows, AskClosed
<1>6. CASE ToolStep
  BY <1>1, <1>6 DEF ToolStep, ToolEnds, FinishRound, CheckAllowed, CheckAuto, Ask, LaunchAgent,
                    AnswerRefused, AgentEnds, ReportAgent, channelVars
<1>7. CASE Shutdown
  BY <1>1, <1>7 DEF Shutdown, EvolveEnds, EvolveFails, CloseMcp, CloseLsp, Return, channelVars
<1>8. CASE StreamText
  BY <1>1, <1>8 DEF StreamText
<1>9. QED BY <1>3, <1>4, <1>5, <1>6, <1>7, <1>8 DEF AgentNext

(* What the end of a permission check sends is no request.                 *)
LEMMA VerdictIsPlain ==
  ASSUME QueueTypes, NEW i \in Nat, Approve(i) \/ Refuse(i), NoRequest
  PROVE  NoRequest' /\ pc' # "asking"
<1>1. Plainly(<<ToolMsg("ToolStart", i)>>) /\ Plainly(<<ToolMsg("ToolError", i)>>)
  BY PlainTexts DEF ToolTypes
<1>2. UNCHANGED msgQ => NoRequest'
  BY DEF NoRequest
<1>3. Send(<<ToolMsg("ToolStart", i)>>) \/ Send(<<ToolMsg("ToolError", i)>>) => NoRequest'
  BY <1>1, SendPlainly
<1>4. QED BY <1>2, <1>3 DEF Approve, Refuse

(* A step of an agent that does not wait for an answer puts no question    *)
(* and grants nothing, unless it is Ask.                                   *)
LEMMA QuietAgentStep ==
  ASSUME LoopInv, AgentNext, pc # "asking", NoRequest, ~\E i \in DOMAIN status : Ask(i)
  PROVE  /\ NoRequest' /\ pc' # "asking"
         /\ Mode = "Default" => granted' = granted
<1>0. QueueTypes /\ (\A i \in DOMAIN status : i \in Nat) /\ current \in Nat
  <2>1. uses \in Seq(Tools) /\ DOMAIN status = DOMAIN uses
    BY DEF LoopInv, LoopTypeOK, AgentTypeOK
  <2>2. QED BY <2>1, LenProperties DEF LoopInv, LoopTypeOK, AgentTypeOK, ChannelsTypeOK, QueueTypes
<1>u. UNCHANGED msgQ => NoRequest'
  BY DEF NoRequest
<1>t. /\ \A type \in PlainTypes : Send(<<Plain(type)>>) => NoRequest'
      /\ \A kind \in ChunkKinds : Send(<<Chunk(kind)>>) => NoRequest'
      /\ \A type \in ToolTypes : \A use \in Nat : Send(<<ToolMsg(type, use)>>) => NoRequest'
      /\ Send(TurnEnd) => NoRequest'
      /\ Send(TurnFailed) => NoRequest'
  BY <1>0, PlainTexts, SendPlainly
<1>n. /\ NextRound(<<>>) => NoRequest' /\ pc' # "asking"
      /\ NextRound(<<Plain("Status")>>) => NoRequest' /\ pc' # "asking"
  BY <1>0, PlainTexts, NextRoundPlainly DEF PlainTypes
<1>1. CASE AgentReceives
  BY <1>1, <1>u, <1>t DEF AgentReceives, RecvInput, RecvQuit, RecvIgnored, RecvClosed, Return,
                          agentVars, PlainTypes
<1>2. CASE Retrieve
  <2>1. PICK found \in BOOLEAN, overLimit \in BOOLEAN :
          LET sent == IF found THEN <<Plain("Status")>> ELSE <<>> IN
            IF overLimit /\ Len(messages') > 2 * KeepRecent
            THEN pc' = "compacting" /\ Send(sent)
            ELSE NextRound(sent)
    BY <1>2 DEF Retrieve
  <2>2. Send(<<>>) => NoRequest'
    BY <1>0, PlainTexts, SendPlainly
  <2>3. NoRequest' /\ pc' # "asking"
    BY <2>1, <2>2, <1>t, <1>n DEF PlainTypes
  <2>4. QED BY <2>3, <1>2 DEF Retrieve
<1>3. CASE Compact \/ FinishRound
  BY <1>3, <1>n DEF Compact, FinishRound
<1>4. CASE TurnFails \/ \E reply \in Replies : StreamEnds(reply)
  BY <1>4, <1>u, <1>t DEF TurnFails, StreamEnds
<1>5. CASE StreamText
  BY <1>5, <1>t DEF StreamText, agentVars
<1>6. CASE AskEnds
  BY <1>6 DEF AskEnds, AnswerAllows, AnswerDenies, AskSwallows, AskClosed
<1>7. ASSUME NEW i \in DOMAIN status, CheckAllowed(i) \/ CheckAuto(i)
      PROVE  NoRequest' /\ pc' # "asking" /\ (Mode = "Default" => granted' = granted)
  BY <1>0, <1>7, VerdictIsPlain DEF CheckAllowed, CheckAuto
<1>8. ASSUME NEW i \in DOMAIN status,
             LaunchAgent(i) \/ AnswerRefused(i) \/ AgentEnds(i) \/ ReportAgent(i)
      PROVE  NoRequest' /\ pc' # "asking" /\ granted' = granted
  BY <1>0, <1>8, <1>u, <1>t
  DEF LaunchAgent, AnswerRefused, AgentEnds, ReportAgent, channelVars, ToolTypes
<1>9. CASE ToolEnds
  BY <1>0, <1>9, <1>t DEF ToolEnds, ToolTypes
<1>10. CASE Shutdown
  BY <1>10, <1>u, <1>t DEF Shutdown, EvolveEnds, EvolveFails, CloseMcp, CloseLsp, Return,
                           channelVars, PlainTypes
<1>11. QED BY <1>1, <1>2, <1>3, <1>4, <1>5, <1>6, <1>7, <1>8, <1>9, <1>10
           DEF AgentNext, RoundEnds, ToolStep

(* The agent asks: the one request is the last message.                    *)
LEMMA AskingStep ==
  ASSUME LoopInv, UiRunsInv, OneQuestion, NEW i \in DOMAIN status, Ask(i), UNCHANGED uiVars
  PROVE  OneQuestion'
<1> USE DEF OneQuestion, Quiet
<1>1. /\ msgQ \in Seq(AgentMessages)
      /\ Request(uses[i]) \in AgentMessages
  <2>1. uses \in Seq(Tools) /\ DOMAIN status = DOMAIN uses
    BY DEF LoopInv, LoopTypeOK, AgentTypeOK
  <2>2. uses[i] \in Tools
    BY <2>1, LenProperties, ElementOfSeq
  <2>3. QED BY <2>2, MessageTypes DEF LoopInv, LoopTypeOK, ChannelsTypeOK
<1>2. /\ pc # "asking" /\ pc' = "asking" /\ current' = i /\ uses' = uses
      /\ eventQ' = eventQ /\ uiOpen' = uiOpen /\ pending' = pending /\ answers' = answers
  BY DEF Ask, uiVars, history
<1>3. NoInterrupt' /\ NoPrompt' /\ NoResponse' /\ NoRequest
  BY <1>2 DEF NoInterrupt, NoPrompt, NoResponse
<1>4. Requested'
  <2>1. CASE uiOpen
    <3>1. msgQ' = msgQ \o <<Request(uses[i])>>
      BY <2>1 DEF Ask, Send
    <3>2. <<Request(uses[i])>> \in Seq(AgentMessages) /\ DOMAIN <<Request(uses[i])>> = {1}
      BY <1>1
    <3>3. \A j \in DOMAIN msgQ' : IsRequest(msgQ'[j]) =>
             j - Len(msgQ) = 1 /\ msgQ'[j] = Request(uses[i])
      BY <1>1, <1>3, <3>1, <3>2, ConcatAt DEF NoRequest
    <3>4. \A j \in DOMAIN msgQ' : j \in Nat
      BY <1>1, <3>1, <3>2, ConcatProperties, LenProperties
    <3>5. Len(msgQ) \in Nat
      BY <1>1, LenProperties
    <3>6. QED BY <1>2, <1>3, <3>3, <3>4, <3>5 DEF Requested, Request
  <2>2. CASE ~uiOpen
    BY <1>2, <1>3, <2>2 DEF Ask, Send, Requested, NoRequest
  <2>3. QED BY <2>1, <2>2
<1>5. Prompted' /\ Answered'
  BY <1>2, <1>3 DEF Prompted, Answered, NoPrompt, NoResponse
<1>6. QED BY <1>2, <1>3, <1>4, <1>5

(* The agent takes an event while it waits: the one answer, which leaves   *)
(* nothing behind, or an event that means nothing to it.                   *)
LEMMA AnsweringStep ==
  ASSUME LoopInv, UiRunsInv, OneQuestion, GrantsMatchAnswers, AskEnds, UNCHANGED uiVars
  PROVE  OneQuestion' /\ GrantsMatchAnswers'
<1>0. QueueTypes /\ current \in Nat /\ pc = "asking"
  BY DEF LoopInv, LoopTypeOK, ChannelsTypeOK, AgentTypeOK, QueueTypes, AskEnds, AnswerAllows,
         AnswerDenies, AskSwallows, AskClosed
<1>1. /\ NoInterrupt /\ Requested /\ Prompted /\ Answered
      /\ pending' = pending /\ answers' = answers
  BY <1>0 DEF OneQuestion, uiVars, history
<1>2. uiOpen' = uiOpen
  BY DEF AskEnds, AnswerAllows, AnswerDenies, AskSwallows, AskClosed
<1>3. CASE AnswerAllows \/ AnswerDenies
  <2>1. /\ eventQ # <<>> /\ eventQ' = Tail(eventQ)
        /\ Permits(Head(eventQ)) \/ Denies(Head(eventQ))
    BY <1>3 DEF AnswerAllows, AnswerDenies
  <2>2. 1 \in DOMAIN eventQ /\ Head(eventQ) = eventQ[1]
    BY <1>0, <2>1, EmptySeq, LenProperties DEF QueueTypes
  <2>3. IsResponse(eventQ[1])
    BY <1>1, <2>1, <2>2 DEF Permits, Denies, IsResponse, NoInterrupt
  <2>4. \A j \in DOMAIN eventQ : IsResponse(eventQ[j]) => j = 1
    BY <1>1, <2>2, <2>3 DEF Answered
  <2>5. NoResponse' /\ NoInterrupt'
    BY <1>0, <1>1, <2>1, <2>4, TailAt DEF QueueTypes, NoResponse, NoInterrupt
  <2>6. NoRequest /\ NoPrompt
    BY <1>1, <2>2, <2>3 DEF Requested, Prompted, NoRequest, NoPrompt, NoResponse
  <2>7. NoRequest' /\ pc' # "asking"
    BY <1>0, <1>3, <2>6, VerdictIsPlain DEF AnswerAllows, AnswerDenies
  <2>8. NoPrompt'
    BY <1>1, <1>2, <2>6 DEF NoPrompt
  <2>9. GrantsMatchAnswers'
    <3>1. CASE AnswerDenies
      BY <1>1, <3>1 DEF AnswerDenies, GrantsMatchAnswers, Consented
    <3>2. CASE AnswerAllows
      <4>1. /\ granted' = granted \cup {uses[current]}
            /\ eventQ[1].answer \in {"Allow", "AlwaysAllow"}
        BY <2>2, <3>2 DEF AnswerAllows, Permits
      <4>2. <<uses[current], eventQ[1].answer>> \in answers
        BY <1>1, <2>2, <2>3 DEF Answered
      <4>3. QED BY <1>1, <4>1, <4>2 DEF GrantsMatchAnswers, Consented
    <3>3. QED BY <1>3, <3>1, <3>2
  <2>10. QED BY <2>5, <2>7, <2>8, <2>9 DEF OneQuestion, Quiet
<1>4. CASE AskSwallows
  <2>1. /\ eventQ # <<>> /\ eventQ' = Tail(eventQ) /\ msgQ' = msgQ
        /\ pc' = pc /\ uses' = uses /\ current' = current /\ granted' = granted
    BY <1>4 DEF AskSwallows, agentVars
  <2>2. \A i \in DOMAIN eventQ' : i \in Nat /\ i + 1 \in DOMAIN eventQ /\ eventQ'[i] = eventQ[i + 1]
    BY <1>0, <2>1, TailAt DEF QueueTypes
  <2>3. NoResponse => NoResponse'
    BY <2>2 DEF NoResponse
  <2>4. NoInterrupt' /\ Answered'
    <3>1. NoInterrupt'
      BY <1>1, <2>2 DEF NoInterrupt
    <3>2. \A i, j \in DOMAIN eventQ' : i + 1 = j + 1 => i = j
      BY <2>2
    <3>3. Answered'
      BY <1>1, <2>1, <2>2, <3>2 DEF Answered
    <3>4. QED BY <3>1, <3>3
  <2>5. Requested' /\ Prompted'
    BY <1>1, <1>2, <2>1, <2>3 DEF Requested, Prompted, NoPrompt
  <2>6. GrantsMatchAnswers'
    BY <1>1, <2>1 DEF GrantsMatchAnswers, Consented
  <2>7. QED BY <1>0, <2>1, <2>4, <2>5, <2>6 DEF OneQuestion
<1>5. CASE AskClosed
  <2>1. eventQ' = eventQ /\ eventQ = <<>> /\ ~uiOpen /\ granted' = granted /\ Refuse(current)
    BY <1>5 DEF AskClosed, EventsClosed
  <2>2. NoRequest
    BY <2>1 DEF UiRunsInv, NoRequest
  <2>3. NoRequest' /\ pc' # "asking"
    BY <1>0, <2>1, <2>2, VerdictIsPlain
  <2>4. NoResponse' /\ NoPrompt' /\ NoInterrupt'
    BY <1>2, <2>1 DEF NoResponse, NoPrompt, NoInterrupt
  <2>5. GrantsMatchAnswers'
    BY <1>1, <2>1 DEF GrantsMatchAnswers, Consented
  <2>6. QED BY <2>3, <2>4, <2>5 DEF OneQuestion, Quiet
<1>6. QED BY <1>3, <1>4, <1>5 DEF AskEnds

LEMMA AgentKeepsOneQuestion ==
  ASSUME LoopInv, UiRunsInv, OneQuestion, GrantsMatchAnswers, AgentNext, UNCHANGED uiVars
  PROVE  OneQuestion' /\ GrantsMatchAnswers'
<1>1. CASE pc = "asking"
  <2>1. AskEnds
    BY <1>1 DEF AgentNext, AgentReceives, RecvInput, RecvQuit, RecvIgnored, RecvClosed, RoundEnds,
       Retrieve, Compact, TurnFails, StreamEnds, ToolStep, ToolEnds, FinishRound, CheckAllowed,
       CheckAuto, Ask, LaunchAgent, AnswerRefused, AgentEnds, ReportAgent, Shutdown, EvolveEnds,
       EvolveFails, CloseMcp, CloseLsp, StreamText
  <2>2. QED BY <2>1, AnsweringStep
<1>2. ASSUME pc # "asking", NEW i \in DOMAIN status, Ask(i) PROVE OneQuestion' /\ GrantsMatchAnswers'
  BY <1>2, AskingStep DEF Ask, uiVars, history, GrantsMatchAnswers, Consented
<1>3. CASE pc # "asking" /\ ~\E i \in DOMAIN status : Ask(i)
  <2>1. NoRequest' /\ pc' # "asking" /\ (Mode = "Default" => granted' = granted)
    BY <1>3, QuietAgentStep DEF OneQuestion, Quiet
  <2>2. EventsTaken /\ uiOpen' = uiOpen
    BY AgentTakesEvents, AgentLeavesUiEnds
    DEF LoopInv, LoopTypeOK, ChannelsTypeOK, QueueTypes
  <2>3. NoInterrupt' /\ NoResponse' /\ NoPrompt'
    BY <1>3, <2>2 DEF OneQuestion, Quiet, NoInterrupt, NoResponse, NoPrompt, EventsTaken, uiVars
  <2>4. GrantsMatchAnswers'
    BY <2>1 DEF GrantsMatchAnswers, Consented, uiVars, history
  <2>5. QED BY <2>1, <2>3, <2>4 DEF OneQuestion, Quiet
<1>4. QED BY <1>1, <1>2, <1>3

(* The steps of the UI: a message is taken ...                             *)
LEMMA UiTakesMessage ==
  ASSUME LoopInv, UiRunsInv, OneQuestion, UNCHANGED <<agentVars, eventQ, answers>>,
         uiOpen' = uiOpen, msgQ # <<>>, msgQ' = Tail(msgQ),
         pending' = IF IsRequest(Head(msgQ)) THEN Head(msgQ).tool ELSE pending
  PROVE  OneQuestion'
<1>0. msgQ \in Seq(AgentMessages) /\ uiOpen
  BY DEF LoopInv, LoopTypeOK, ChannelsTypeOK, UiRunsInv
<1>1. /\ \A i \in DOMAIN msgQ' : i \in Nat /\ i + 1 \in DOMAIN msgQ /\ msgQ'[i] = msgQ[i + 1]
      /\ 1 \in DOMAIN msgQ /\ Head(msgQ) = msgQ[1]
      /\ \A i, j \in DOMAIN msgQ' : i + 1 = j + 1 => i = j
  <2>1. \A i \in DOMAIN msgQ' : i \in Nat /\ i + 1 \in DOMAIN msgQ /\ msgQ'[i] = msgQ[i + 1]
    BY <1>0, TailAt
  <2>2. QED BY <1>0, <2>1, EmptySeq, LenProperties
<1>2. NoRequest => NoRequest'
  BY <1>1 DEF NoRequest
<1>3. NoInterrupt' /\ pc' = pc /\ uses' = uses /\ current' = current
      /\ NoResponse' = NoResponse /\ Answered' = Answered
  BY DEF OneQuestion, NoInterrupt, NoResponse, Answered, agentVars
<1>4. CASE pc # "asking"
  <2>1. NoRequest /\ NoPrompt /\ NoResponse /\ ~IsRequest(Head(msgQ))
    BY <1>1, <1>4 DEF OneQuestion, Quiet, NoRequest
  <2>2. NoPrompt'
    BY <2>1 DEF NoPrompt
  <2>3. QED BY <1>2, <1>3, <1>4, <2>1, <2>2 DEF OneQuestion, Quiet
<1>5. CASE pc = "asking" /\ IsRequest(Head(msgQ))
  <2>1. Requested /\ Answered
    BY <1>5 DEF OneQuestion
  <2>2. /\ pending' = uses'[current']
        /\ NoResponse
        /\ \A j \in DOMAIN msgQ : IsRequest(msgQ[j]) => j = 1
    BY <1>1, <1>3, <1>5, <2>1 DEF Requested
  <2>3. NoRequest'
    BY <1>1, <2>2 DEF NoRequest
  <2>4. Requested' /\ Prompted'
    BY <1>3, <2>2, <2>3 DEF Requested, Prompted, NoRequest
  <2>5. QED BY <1>3, <1>5, <2>1, <2>4 DEF OneQuestion
<1>6. CASE pc = "asking" /\ ~IsRequest(Head(msgQ))
  <2>1. Requested /\ Prompted /\ Answered /\ pending' = pending
    BY <1>6 DEF OneQuestion
  <2>2. Requested' /\ Prompted'
    BY <1>1, <1>3, <2>1 DEF Requested, Prompted, NoPrompt
  <2>3. QED BY <1>3, <1>6, <2>1, <2>2 DEF OneQuestion
<1>7. QED BY <1>4, <1>5, <1>6

(* ... the pending question is answered ...                                *)
LEMMA UiAnswers ==
  ASSUME LoopInv, UiRunsInv, OneQuestion, MenuEnter, UNCHANGED agentVars
  PROVE  OneQuestion'
<1>0. /\ QueueTypes /\ uiOpen /\ pending # NoTool
      /\ msgQ' = msgQ /\ pending' = NoTool /\ pc' = pc /\ uses' = uses /\ current' = current
  BY DEF LoopInv, LoopTypeOK, ChannelsTypeOK, UiRunsInv, MenuEnter, QueueTypes, agentVars
<1>1. /\ pc = "asking" /\ NoInterrupt /\ NoRequest /\ NoResponse
      /\ pending = uses[current]
  BY <1>0 DEF OneQuestion, Quiet, NoPrompt, Requested, Prompted, NoRequest
<1>2. NoRequest' /\ Requested' /\ Prompted'
  BY <1>0, <1>1 DEF NoRequest, Requested, Prompted
<1>3. CASE UNCHANGED <<eventQ, answers>>
  <2>1. NoInterrupt' /\ Answered'
    BY <1>0, <1>1, <1>3 DEF NoInterrupt, Answered, NoResponse
  <2>2. QED BY <1>0, <1>1, <1>2, <2>1 DEF OneQuestion
<1>4. ASSUME NEW answer \in Answers, SendEvent(Response(answer)),
             answers' = answers \cup {<<pending, answer>>}
      PROVE  OneQuestion'
  <2>1. Response(answer) \in AgentEvents /\ Response(answer).type = "PermissionResponse"
        /\ Response(answer).answer = answer
    BY DEF Response, AgentEvents, EventTypes
  <2>2. CASE agentOpen
    <3>1. eventQ' = Append(eventQ, Response(answer))
      BY <1>4, <2>2 DEF SendEvent
    <3>2. \A i \in DOMAIN eventQ' :
             \/ i \in DOMAIN eventQ /\ eventQ'[i] = eventQ[i]
             \/ i = Len(eventQ) + 1 /\ eventQ'[i] = Response(answer)
      BY <1>0, <2>1, <3>1, AppendAt DEF QueueTypes
    <3>3. NoInterrupt' /\ Answered'
      BY <1>0, <1>1, <1>4, <2>1, <3>2 DEF NoInterrupt, Answered, NoResponse, IsResponse
    <3>4. QED BY <1>0, <1>1, <1>2, <3>3 DEF OneQuestion
  <2>3. CASE ~agentOpen
    BY <1>0, <1>1, <1>2, <1>4, <2>3 DEF SendEvent, OneQuestion, NoInterrupt, Answered, NoResponse
  <2>4. QED BY <2>2, <2>3
<1>5. QED BY <1>3, <1>4 DEF MenuEnter

(* ... an event other than a response or an interrupt is sent ...          *)
LEMMA UiTypes ==
  ASSUME LoopInv, UiRunsInv, OneQuestion, UNCHANGED agentVars,
         NEW type \in {"Input", "Command", "Exit", "Quit"}, Typing(type)
  PROVE  OneQuestion'
<1>0. /\ QueueTypes /\ Event(type) \in AgentEvents /\ Event(type).type = type
      /\ UNCHANGED <<msgQ, pending, answers, uiOpen, pc, uses, current>>
  BY DEF LoopInv, LoopTypeOK, ChannelsTypeOK, QueueTypes, Event, AgentEvents, EventTypes, Answers,
         Typing, agentVars
<1>1. \A i \in DOMAIN eventQ' :
         \/ i \in DOMAIN eventQ /\ eventQ'[i] = eventQ[i]
         \/ eventQ'[i] = Event(type)
  BY <1>0, AppendAt DEF Typing, SendEvent, QueueTypes
<1>2. NoInterrupt' /\ (NoResponse => NoResponse')
  BY <1>0, <1>1 DEF OneQuestion, NoInterrupt, NoResponse, IsResponse
<1>3. pc # "asking" => Quiet'
  BY <1>0, <1>2 DEF OneQuestion, Quiet, NoRequest, NoPrompt
<1>4. pc = "asking" => Requested' /\ Prompted' /\ Answered'
  <2> SUFFICES ASSUME pc = "asking" PROVE Requested' /\ Prompted' /\ Answered'
    OBVIOUS
  <2>1. Requested /\ Prompted /\ Answered
    BY DEF OneQuestion
  <2>2. Requested' /\ Prompted'
    BY <1>0, <1>2, <2>1 DEF Requested, Prompted, NoPrompt
  <2>3. Answered'
    BY <1>0, <1>1, <2>1 DEF Answered, IsResponse
  <2>4. QED BY <2>2, <2>3
<1>5. QED BY <1>0, <1>2, <1>3, <1>4 DEF OneQuestion

(* ... or the UI leaves, which takes its messages with it.                 *)
LEMMA UiLeaves ==
  ASSUME OneQuestion, Leave, UNCHANGED <<agentVars, eventQ, answers>> PROVE OneQuestion'
<1>1. /\ NoRequest' /\ NoPrompt' /\ NoInterrupt' /\ Requested' /\ Prompted'
      /\ NoResponse' = NoResponse /\ Answered' = Answered /\ pc' = pc
  BY DEF Leave, NoRequest, NoPrompt, NoInterrupt, Requested, Prompted, NoResponse, Answered,
         agentVars, OneQuestion
<1>2. QED BY <1>1 DEF OneQuestion, Quiet

LEMMA UiKeepsOneQuestion ==
  ASSUME LoopInv, UiRunsInv, OneQuestion, UiNext, UNCHANGED agentVars,
         interrupts \in Nat, interrupts' = 0
  PROVE  OneQuestion'
<1>1. CASE UiReceives
  <2>1. CASE OnPermissionRequest
    BY <2>1, UiTakesMessage DEF OnPermissionRequest, Receive, Took, IsRequest, history
  <2>2. CASE OnEvolved
    BY <2>2, UiLeaves DEF OnEvolved, Receive, history
  <2>3. CASE OnThinking \/ OnTextChunk \/ OnToolStart
    BY <2>3, UiTakesMessage DEF OnThinking, OnTextChunk, OnToolStart, Receive, Took, IsRequest, history
  <2>4. CASE OnToolResult \/ OnStatus \/ OnDone \/ OnError
    BY <2>4, UiTakesMessage
    DEF OnToolResult, OnStatus, OnDone, OnError, Receive, Took, IsRequest, history
  <2>5. QED BY <1>1, <2>1, <2>2, <2>3, <2>4 DEF UiReceives
<1>2. CASE Disconnected \/ ForceExit
  BY <1>2, UiLeaves DEF Disconnected, ForceExit, history
<1>3. CASE RenderFrame \/ PollEnds \/ MenuMoves
  BY <1>3 DEF RenderFrame, PollEnds, MenuMoves, channelVars, history, agentVars, OneQuestion, Quiet,
              NoRequest, NoPrompt, NoResponse, NoInterrupt, Requested, Prompted, Answered
<1>4. CASE MenuEnter
  BY <1>4, UiAnswers
<1>5. CASE Submit \/ CtrlD \/ SubmitExit
  BY <1>5, UiTypes DEF Submit, CtrlD, SubmitExit
<1>6. ~CtrlC
  BY DEF CtrlC
<1>7. QED BY <1>1, <1>2, <1>3, <1>4, <1>5, <1>6 DEF UiNext, UiLoop, UiKey

(* The user's answers are only added to, by the UI, which grants nothing.  *)
LEMMA UiKeepsConsent ==
  ASSUME UiNext, UNCHANGED agentVars, GrantsMatchAnswers PROVE GrantsMatchAnswers'
<1>1. answers \subseteq answers'
  BY DEF UiNext, UiLoop, UiKey, UiReceives, OnThinking, OnTextChunk, OnToolStart, OnToolResult,
     OnPermissionRequest, OnStatus, OnDone, OnError, OnEvolved, Receive, RenderFrame, Disconnected,
     PollEnds, ForceExit, MenuMoves, MenuEnter, CtrlC, Submit, CtrlD, SubmitExit, Typing, history
<1>2. granted' = granted
  BY DEF agentVars
<1>3. QED BY <1>1, <1>2 DEF GrantsMatchAnswers, Consented

LEMMA InterruptsCount ==
  ASSUME [Next]_vars, interrupts \in Nat
  PROVE  interrupts' \in Nat /\ (interrupts' = 0 => interrupts = 0)
<1>1. CASE UiNext
  BY <1>1 DEF UiNext, UiLoop, UiKey, UiReceives, OnThinking, OnTextChunk, OnToolStart, OnToolResult,
     OnPermissionRequest, OnStatus, OnDone, OnError, OnEvolved, Receive, RenderFrame, Disconnected,
     PollEnds, ForceExit, MenuMoves, MenuEnter, CtrlC, Submit, CtrlD, SubmitExit, Typing, history
<1>2. CASE UNCHANGED uiVars
  BY <1>2 DEF uiVars, history
<1>3. QED BY <1>1, <1>2 DEF Next, vars

QuestionInv == interrupts \in Nat /\ CalmInv

LEMMA QuestionInvNext ==
  ASSUME LoopInv, UiRunsInv, QuestionInv, [Next]_vars PROVE QuestionInv'
<1>1. interrupts' \in Nat /\ (interrupts' = 0 => interrupts = 0)
  BY InterruptsCount DEF QuestionInv
<1>2. SUFFICES ASSUME interrupts' = 0, OneQuestion, GrantsMatchAnswers
               PROVE  OneQuestion' /\ GrantsMatchAnswers'
  BY <1>1 DEF QuestionInv, CalmInv
<1>3. CASE AgentNext /\ UNCHANGED uiVars
  BY <1>2, <1>3, AgentKeepsOneQuestion
<1>4. CASE UiNext /\ UNCHANGED agentVars
  BY <1>2, <1>4, UiKeepsOneQuestion, UiKeepsConsent DEF QuestionInv
<1>5. CASE UNCHANGED vars
  BY <1>2, <1>5 DEF vars, uiVars, channelVars, history, agentVars, OneQuestion, Quiet, NoRequest,
     NoPrompt, NoResponse, NoInterrupt, Requested, Prompted, Answered, GrantsMatchAnswers, Consented
<1>6. QED BY <1>3, <1>4, <1>5 DEF Next

LEMMA QuestionInvInit == Init => QuestionInv
  BY DEF Init, ChannelsInit, AgentInit, UiInit, QuestionInv, CalmInv, OneQuestion, Quiet, NoRequest,
     NoPrompt, NoResponse, NoInterrupt, GrantsMatchAnswers

(* check_permission and the permission menu: before the first interrupt a  *)
(* tool is granted only if the user consented to that very tool.           *)
THEOREM VivGrantsAreConsented == Spec => []CalmGrantsMatchAnswers
<1>1. Spec => []LoopInv
  BY VivIsAgentLoop, LoopInvInit, LoopInvNext, PTL DEF IsAgentLoop, LoopSpec
<1>2. Spec => []UiRunsInv
  BY InitIsLoopInit, StepIsLoopStep, PTL DEF Spec
<1>3. QuestionInv => CalmGrantsMatchAnswers
  BY DEF QuestionInv, CalmInv, CalmGrantsMatchAnswers
<1>4. QED BY <1>1, <1>2, <1>3, QuestionInvInit, QuestionInvNext, PTL DEF Spec

-----------------------------------------------------------------------------
(***************************************************************************)
(* What the messages on their way to the UI will make of its state: the    *)
(* last one of some types decides, or the state itself if there is none.   *)
(* Here, the last one before position n of the queue q.                    *)
(***************************************************************************)
NoneBefore(q, n, types) == \A k \in DOMAIN q : k < n => q[k].type \notin types
IsLast(q, i, n, types) ==
    /\ i \in DOMAIN q /\ i < n /\ q[i].type \in types
    /\ \A k \in DOMAIN q : i < k /\ k < n => q[k].type \notin types

LEMMA LastOfAppend ==
  ASSUME NEW q \in Seq(AgentMessages), NEW m \in AgentMessages, NEW types, NEW i \in Nat
  PROVE  LET r == Append(q, m) IN
         /\ \A n \in 1..(Len(q) + 1) :
              /\ NoneBefore(r, n, types) <=> NoneBefore(q, n, types)
              /\ IsLast(r, i, n, types) <=> IsLast(q, i, n, types)
         /\ NoneBefore(r, Len(r) + 1, types) =>
              m.type \notin types /\ NoneBefore(q, Len(q) + 1, types)
         /\ IsLast(r, i, Len(r) + 1, types) =>
              \/ i = Len(q) + 1 /\ m.type \in types
              \/ m.type \notin types /\ IsLast(q, i, Len(q) + 1, types)
<1> DEFINE r == Append(q, m)
<1>1. /\ Len(q) \in Nat /\ Len(r) = Len(q) + 1
      /\ DOMAIN q = 1..Len(q) /\ DOMAIN r = 1..(Len(q) + 1)
      /\ \A k \in 1..Len(q) : r[k] = q[k]
      /\ r[Len(q) + 1] = m
  BY AppendProperties, LenProperties
<1> HIDE DEF r
<1>2. ASSUME NEW n \in 1..(Len(q) + 1) PROVE NoneBefore(r, n, types) <=> NoneBefore(q, n, types)
  BY <1>1 DEF NoneBefore
<1>3. ASSUME NEW n \in 1..(Len(q) + 1) PROVE IsLast(r, i, n, types) <=> IsLast(q, i, n, types)
  BY <1>1 DEF IsLast
<1>4. NoneBefore(r, Len(r) + 1, types) => m.type \notin types /\ NoneBefore(q, Len(q) + 1, types)
  BY <1>1 DEF NoneBefore
<1>5. ASSUME IsLast(r, i, Len(r) + 1, types)
      PROVE  \/ i = Len(q) + 1 /\ m.type \in types
             \/ m.type \notin types /\ IsLast(q, i, Len(q) + 1, types)
  BY <1>1, <1>5 DEF IsLast
<1>6. QED BY <1>2, <1>3, <1>4, <1>5 DEF r

LEMMA LastOfTail ==
  ASSUME NEW q \in Seq(AgentMessages), q # <<>>, NEW types
  PROVE  /\ Len(Tail(q)) = Len(q) - 1
         /\ \A n \in 1..Len(q) :
              /\ NoneBefore(Tail(q), n, types) =>
                   \/ Head(q).type \notin types /\ NoneBefore(q, n + 1, types)
                   \/ Head(q).type \in types /\ IsLast(q, 1, n + 1, types)
              /\ \A i \in Nat : IsLast(Tail(q), i, n, types) =>
                   IsLast(q, i + 1, n + 1, types) /\ q[i + 1] = Tail(q)[i]
<1>1. /\ Len(q) \in Nat /\ Len(q) >= 1 /\ Len(Tail(q)) = Len(q) - 1
      /\ DOMAIN q = 1..Len(q) /\ DOMAIN Tail(q) = 1..(Len(q) - 1)
      /\ \A k \in 1..(Len(q) - 1) : Tail(q)[k] = q[k + 1]
      /\ Head(q) = q[1]
  BY HeadTailProperties, LenProperties, EmptySeq
<1> DEFINE t == Tail(q)
<1>2. /\ DOMAIN t = 1..(Len(q) - 1)
      /\ \A k \in 1..(Len(q) - 1) : t[k] = q[k + 1]
  BY <1>1
<1> HIDE DEF t
<1>3. \A k \in 2..Len(q) : k - 1 \in DOMAIN t /\ t[k - 1] = q[k] /\ (k - 1) + 1 = k
  BY <1>1, <1>2
<1>4. ASSUME NEW n \in 1..Len(q), NoneBefore(t, n, types)
      PROVE  \/ Head(q).type \notin types /\ NoneBefore(q, n + 1, types)
             \/ Head(q).type \in types /\ IsLast(q, 1, n + 1, types)
  <2>1. \A k \in 2..Len(q) : k < n + 1 => q[k].type \notin types
    BY <1>1, <1>3, <1>4 DEF NoneBefore
  <2>2. CASE Head(q).type \in types
    BY <1>1, <2>1, <2>2 DEF IsLast
  <2>3. CASE Head(q).type \notin types
    BY <1>1, <2>1, <2>3 DEF NoneBefore
  <2>4. QED BY <2>2, <2>3
<1>5. ASSUME NEW n \in 1..Len(q), NEW i \in Nat, IsLast(t, i, n, types)
      PROVE  IsLast(q, i + 1, n + 1, types) /\ q[i + 1] = t[i]
  <2>1. i \in 1..(Len(q) - 1) /\ i < n /\ t[i].type \in types
    BY <1>2, <1>5 DEF IsLast
  <2>2. i + 1 \in DOMAIN q /\ i + 1 < n + 1 /\ q[i + 1] = t[i]
    BY <1>1, <1>2, <2>1
  <2>3. ASSUME NEW k \in DOMAIN q, i + 1 < k, k < n + 1 PROVE q[k].type \notin types
    <3>1. k \in 2..Len(q) /\ i < k - 1 /\ k - 1 < n
      BY <1>1, <2>1, <2>3
    <3>2. QED BY <1>3, <1>5, <3>1 DEF IsLast
  <2>4. QED BY <2>1, <2>2, <2>3 DEF IsLast
<1>6. QED BY <1>1, <1>4, <1>5 DEF t

SpinnerTypes == {"Thinking", "Done", "Error"}

(* Once the messages q are taken, a spinner that is now b will be v.       *)
SpinnerIs(q, b, v) ==
    /\ \A i \in DOMAIN q : IsLast(q, i, Len(q) + 1, SpinnerTypes) => (q[i].type = "Thinking" <=> v)
    /\ NoneBefore(q, Len(q) + 1, SpinnerTypes) => (b <=> v)

LEMMA SpinnerAppend ==
  ASSUME NEW q \in Seq(AgentMessages), NEW m \in AgentMessages,
         NEW b \in BOOLEAN, NEW v \in BOOLEAN, NEW w \in BOOLEAN,
         m.type \in SpinnerTypes => (w <=> m.type = "Thinking"),
         m.type \notin SpinnerTypes => (w <=> v) /\ SpinnerIs(q, b, v)
  PROVE  SpinnerIs(Append(q, m), b, w)
<1> DEFINE r == Append(q, m)
<1>1. /\ Len(q) \in Nat /\ Len(r) = Len(q) + 1
      /\ DOMAIN q = 1..Len(q) /\ DOMAIN r = 1..(Len(q) + 1)
      /\ \A k \in 1..Len(q) : r[k] = q[k]
      /\ r[Len(q) + 1] = m
  BY AppendProperties, LenProperties
<1>2. /\ NoneBefore(r, Len(r) + 1, SpinnerTypes) =>
              m.type \notin SpinnerTypes /\ NoneBefore(q, Len(q) + 1, SpinnerTypes)
      /\ \A i \in Nat : IsLast(r, i, Len(r) + 1, SpinnerTypes) =>
              \/ i = Len(q) + 1 /\ m.type \in SpinnerTypes
              \/ m.type \notin SpinnerTypes /\ IsLast(q, i, Len(q) + 1, SpinnerTypes)
  BY LastOfAppend
<1> HIDE DEF r
<1>3. ASSUME NEW i \in DOMAIN r, IsLast(r, i, Len(r) + 1, SpinnerTypes)
      PROVE  r[i].type = "Thinking" <=> w
  <2>1. CASE i = Len(q) + 1 /\ m.type \in SpinnerTypes
    BY <1>1, <2>1
  <2>2. CASE m.type \notin SpinnerTypes /\ IsLast(q, i, Len(q) + 1, SpinnerTypes)
    <3>1. i \in DOMAIN q /\ r[i] = q[i]
      BY <1>1, <2>2 DEF IsLast
    <3>2. QED BY <2>2, <3>1 DEF SpinnerIs
  <2>3. i \in Nat
    BY <1>1
  <2>4. QED BY <1>2, <1>3, <2>1, <2>2, <2>3
<1>4. ASSUME NoneBefore(r, Len(r) + 1, SpinnerTypes) PROVE b <=> w
  BY <1>2, <1>4 DEF SpinnerIs
<1>5. QED BY <1>3, <1>4 DEF SpinnerIs, r

LEMMA SpinnerTail ==
  ASSUME NEW q \in Seq(AgentMessages), q # <<>>, NEW b \in BOOLEAN, NEW v \in BOOLEAN,
         SpinnerIs(q, b, v), NEW c \in BOOLEAN,
         c <=> IF Head(q).type \in SpinnerTypes THEN Head(q).type = "Thinking" ELSE b
  PROVE  SpinnerIs(Tail(q), c, v)
<1>1. /\ Len(q) \in Nat /\ Len(q) >= 1 /\ Len(Tail(q)) = Len(q) - 1 /\ Head(q) = q[1]
      /\ DOMAIN q = 1..Len(q) /\ DOMAIN Tail(q) = 1..(Len(q) - 1)
  BY HeadTailProperties, LenProperties, EmptySeq
<1> DEFINE t == Tail(q)
<1>2. /\ Len(t) + 1 = Len(q) /\ Len(q) \in 1..Len(q)
      /\ NoneBefore(t, Len(q), SpinnerTypes) =>
           \/ Head(q).type \notin SpinnerTypes /\ NoneBefore(q, Len(q) + 1, SpinnerTypes)
           \/ Head(q).type \in SpinnerTypes /\ IsLast(q, 1, Len(q) + 1, SpinnerTypes)
      /\ \A i \in Nat : IsLast(t, i, Len(q), SpinnerTypes) =>
           IsLast(q, i + 1, Len(q) + 1, SpinnerTypes) /\ q[i + 1] = t[i]
  <2>1. Len(t) + 1 = Len(q) /\ Len(q) \in 1..Len(q)
    BY <1>1
  <2>2. QED BY <2>1, LastOfTail
<1> HIDE DEF t
<1>3. ASSUME NEW i \in DOMAIN t, IsLast(t, i, Len(t) + 1, SpinnerTypes)
      PROVE  t[i].type = "Thinking" <=> v
  <2>1. i \in Nat
    BY <1>1 DEF t
  <2>2. IsLast(q, i + 1, Len(q) + 1, SpinnerTypes) /\ q[i + 1] = t[i]
    BY <1>2, <1>3, <2>1
  <2>3. i + 1 \in DOMAIN q
    BY <2>2 DEF IsLast
  <2>4. QED BY <2>2, <2>3 DEF SpinnerIs
<1>4. ASSUME NoneBefore(t, Len(t) + 1, SpinnerTypes) PROVE c <=> v
  BY <1>1, <1>2, <1>4 DEF SpinnerIs
<1>5. QED BY <1>3, <1>4 DEF SpinnerIs, t

-----------------------------------------------------------------------------
(***************************************************************************)
(* The spinner.  The messages that start and end a turn are sent by the    *)
(* steps that do, so once the last of them is taken the spinner is right.  *)
(***************************************************************************)
(* A message that neither asks nor starts or ends a turn.                  *)
Neutral(m) == m \in AgentMessages /\ ~IsRequest(m) /\ m.type \notin SpinnerTypes

LEMMA NeutralMessages ==
    /\ \A type \in {"Status", "Tokens", "Evolved"} : Neutral(Plain(type))
    /\ \A kind \in ChunkKinds : Neutral(Chunk(kind))
    /\ \A type \in ToolTypes : \A use \in Nat : Neutral(ToolMsg(type, use))
  BY MessageTypes DEF Neutral, IsRequest, SpinnerTypes, Plain, Chunk, ToolMsg, PlainTypes, ToolTypes

(* What a step of the agent sends, and whether it stays in its turn.       *)
SendsNothing == msgQ' = msgQ /\ (InTurn' <=> InTurn)
SendsStart == Send(<<Plain("Thinking")>>) /\ InTurn'
SendsEnd == \E ms : Plainly(ms) /\ Send(ms \o <<Plain("Done")>>) /\ ~InTurn'
SendsOne == \E m : Neutral(m) /\ Send(<<m>>) /\ (InTurn' <=> InTurn)

LEMMA TurnEndSends ==
  ASSUME ~InTurn'
  PROVE  /\ Send(TurnEnd) \/ Send(TurnFailed) => SendsEnd
         /\ Send(<<>> \o TurnEnd) \/ Send(<<Plain("Status")>> \o TurnEnd) => SendsEnd
<1>1. Plainly(<<Plain("Tokens")>>) /\ Plainly(<<Plain("Error")>>) /\ Plainly(<<Plain("Status")>>)
  BY PlainTexts DEF PlainTypes
<1>2. Plainly(<<Plain("Status")>> \o <<Plain("Tokens")>>)
  BY <1>1, PlainConcat
<1>3. /\ TurnEnd = <<Plain("Tokens")>> \o <<Plain("Done")>>
      /\ TurnFailed = <<Plain("Error")>> \o <<Plain("Done")>>
      /\ <<>> \o TurnEnd = <<Plain("Tokens")>> \o <<Plain("Done")>>
      /\ <<Plain("Status")>> \o TurnEnd
           = (<<Plain("Status")>> \o <<Plain("Tokens")>>) \o <<Plain("Done")>>
  BY DEF TurnEnd, TurnFailed
<1>4. QED BY <1>1, <1>2, <1>3 DEF SendsEnd

LEMMA NextRoundSends ==
  ASSUME LoopInv, InTurn, msgQ \in Seq(AgentMessages),
         NEW ms \in {<<>>, <<Plain("Status")>>}, NextRound(ms)
  PROVE  SendsEnd \/ SendsOne \/ SendsNothing
<1>1. CASE pc' = "idle" /\ Send(ms \o TurnEnd)
  BY <1>1, TurnEndSends DEF InTurn, TurnStates
<1>2. CASE pc' = "streaming" /\ Send(ms)
  <2>1. InTurn'
    BY <1>2 DEF InTurn, TurnStates
  <2>2. Send(<<>>) => SendsNothing
    BY <2>1 DEF Send, SendsNothing
  <2>3. Send(<<Plain("Status")>>) => SendsOne
    BY <2>1, NeutralMessages DEF SendsOne
  <2>4. QED BY <1>2, <2>2, <2>3
<1>3. QED BY <1>1, <1>2 DEF NextRound

LEMMA VerdictSends ==
  ASSUME NEW i \in Nat, Approve(i) \/ Refuse(i), InTurn PROVE SendsOne \/ SendsNothing
<1>1. InTurn'
  BY DEF InTurn, TurnStates, Approve, Refuse
<1>2. Neutral(ToolMsg("ToolStart", i)) /\ Neutral(ToolMsg("ToolError", i))
  BY NeutralMessages DEF ToolTypes
<1>3. Send(<<ToolMsg("ToolStart", i)>>) \/ Send(<<ToolMsg("ToolError", i)>>) \/ UNCHANGED msgQ
  BY DEF Approve, Refuse
<1>4. QED BY <1>1, <1>2, <1>3 DEF SendsOne, SendsNothing

LEMMA AgentSends ==
  ASSUME LoopInv, AgentNext
  PROVE  \/ SendsNothing \/ SendsStart \/ SendsEnd \/ SendsOne
         \/ \E i \in DOMAIN status : Ask(i)
<1>0. msgQ \in Seq(AgentMessages) /\ (\A i \in DOMAIN status : i \in Nat) /\ current \in Nat
  <2>1. uses \in Seq(Tools) /\ DOMAIN status = DOMAIN uses
    BY DEF LoopInv, LoopTypeOK, AgentTypeOK
  <2>2. QED BY <2>1, LenProperties DEF LoopInv, LoopTypeOK, AgentTypeOK, ChannelsTypeOK
<1>1. CASE RecvInput
  BY <1>1 DEF RecvInput, SendsStart, InTurn, TurnStates
<1>2. CASE RecvQuit \/ RecvIgnored \/ RecvClosed
  BY <1>2 DEF RecvQuit, RecvIgnored, RecvClosed, Return, agentVars, SendsNothing, InTurn, TurnStates
<1>3. CASE Retrieve
  <2>1. PICK found \in BOOLEAN, overLimit \in BOOLEAN :
          LET sent == IF found THEN <<Plain("Status")>> ELSE <<>> IN
            IF overLimit /\ Len(messages') > 2 * KeepRecent
            THEN pc' = "compacting" /\ Send(sent)
            ELSE NextRound(sent)
    BY <1>3 DEF Retrieve
  <2>2. InTurn
    BY <1>3 DEF Retrieve, InTurn, TurnStates
  <2> DEFINE sent == IF found THEN <<Plain("Status")>> ELSE <<>>
  <2>3. CASE NextRound(sent)
    BY <1>0, <2>2, <2>3, NextRoundSends
  <2>4. CASE pc' = "compacting" /\ Send(sent)
    <3>1. InTurn'
      BY <2>4 DEF InTurn, TurnStates
    <3>2. Send(<<>>) => SendsNothing
      BY <1>0, <2>2, <3>1 DEF Send, SendsNothing
    <3>3. Send(<<Plain("Status")>>) => SendsOne
      BY <2>2, <3>1, NeutralMessages DEF SendsOne
    <3>4. QED BY <2>4, <3>2, <3>3
  <2>5. QED BY <2>1, <2>3, <2>4
<1>4. CASE Compact \/ FinishRound
  <2>1. InTurn /\ NextRound(<<>>)
    BY <1>4 DEF Compact, FinishRound, InTurn, TurnStates
  <2>2. QED BY <1>0, <2>1, NextRoundSends
<1>5. CASE TurnFails
  BY <1>5, TurnEndSends DEF TurnFails, InTurn, TurnStates
<1>6. ASSUME NEW reply \in Replies, StreamEnds(reply) PROVE SendsNothing \/ SendsEnd
  <2>1. CASE EndsTurn(reply)
    BY <1>6, <2>1, TurnEndSends DEF StreamEnds, InTurn, TurnStates
  <2>2. CASE ~EndsTurn(reply)
    BY <1>6, <2>2 DEF StreamEnds, SendsNothing, InTurn, TurnStates
  <2>3. QED BY <2>1, <2>2
<1>7. CASE StreamText
  <2>1. PICK kind \in ChunkKinds : Send(<<Chunk(kind)>>)
    BY <1>7 DEF StreamText
  <2>2. InTurn' <=> InTurn
    BY <1>7 DEF StreamText, agentVars, InTurn
  <2>3. QED BY <2>1, <2>2, NeutralMessages DEF SendsOne
<1>8. CASE AskEnds
  <2>1. CASE AskSwallows
    BY <2>1 DEF AskSwallows, agentVars, SendsNothing, InTurn
  <2>2. CASE ~AskSwallows
    <3>1. InTurn /\ (Approve(current) \/ Refuse(current))
      BY <1>8, <2>2 DEF AskEnds, AnswerAllows, AnswerDenies, AskClosed, InTurn, TurnStates
    <3>2. QED BY <1>0, <3>1, VerdictSends
  <2>3. QED BY <2>1, <2>2
<1>9. CASE ToolEnds
  <2>1. PICK type \in {"ToolEnd", "ToolError"} : Send(<<ToolMsg(type, current)>>)
    BY <1>9 DEF ToolEnds
  <2>2. InTurn /\ InTurn'
    BY <1>9 DEF ToolEnds, InTurn, TurnStates
  <2>3. Neutral(ToolMsg(type, current))
    BY <1>0, NeutralMessages DEF ToolTypes
  <2>4. QED BY <2>1, <2>2, <2>3 DEF SendsOne
<1>10. ASSUME NEW i \in DOMAIN status, CheckAllowed(i) \/ CheckAuto(i)
       PROVE  SendsOne \/ SendsNothing
  BY <1>0, <1>10, VerdictSends DEF CheckAllowed, CheckAuto, InTurn, TurnStates
<1>11. ASSUME NEW i \in DOMAIN status,
              LaunchAgent(i) \/ AnswerRefused(i) \/ AgentEnds(i) \/ ReportAgent(i)
       PROVE  SendsOne \/ SendsNothing
  <2>1. InTurn' <=> InTurn
    BY <1>11 DEF LaunchAgent, AnswerRefused, AgentEnds, ReportAgent, InTurn
  <2>2. \/ msgQ' = msgQ
        \/ \E type \in ToolTypes : Send(<<ToolMsg(type, i)>>)
    BY <1>11 DEF LaunchAgent, AnswerRefused, AgentEnds, ReportAgent, channelVars, ToolTypes
  <2>3. QED BY <1>0, <2>1, <2>2, NeutralMessages DEF SendsOne, SendsNothing
<1>12. CASE Shutdown
  <2>1. ~InTurn /\ ~InTurn'
    BY <1>12 DEF Shutdown, EvolveEnds, EvolveFails, CloseMcp, CloseLsp, Return, InTurn, TurnStates
  <2>2. msgQ' = msgQ \/ Send(<<Plain("Evolved")>>)
    BY <1>12 DEF Shutdown, EvolveEnds, EvolveFails, CloseMcp, CloseLsp, channelVars
  <2>3. QED BY <2>1, <2>2, NeutralMessages DEF SendsOne, SendsNothing
<1>13. QED
  BY <1>1, <1>2, <1>3, <1>4, <1>5, <1>6, <1>7, <1>8, <1>9, <1>10, <1>11, <1>12
  DEF AgentNext, AgentReceives, RoundEnds, ToolStep

(* What a step of the UI does to the two ends of its queue.                *)
UiTakes == msgQ # <<>> /\ msgQ' = Tail(msgQ) /\ uiOpen' = uiOpen /\ agentOpen' = agentOpen
UiLeavesQueue == msgQ' = msgQ /\ uiOpen' = uiOpen /\ agentOpen' = agentOpen

LEMMA UiSpinnerSteps ==
  ASSUME UiNext
  PROVE  \/ ~uiOpen' /\ busy' = busy
         \/ UiLeavesQueue /\ busy' = busy
         \/ UiTakes /\ busy' = IF Head(msgQ).type \in SpinnerTypes
                               THEN Head(msgQ).type = "Thinking" ELSE busy
<1> USE DEF UiTakes, UiLeavesQueue, SpinnerTypes
<1>1. CASE OnThinking \/ OnTextChunk \/ OnToolStart \/ OnPermissionRequest \/ OnDone \/ OnError
  BY <1>1 DEF OnThinking, OnTextChunk, OnToolStart, OnPermissionRequest, OnDone, OnError, Receive, Took
<1>2. CASE OnToolResult \/ OnStatus
  BY <1>2 DEF OnToolResult, OnStatus, Receive, Took
<1>3. CASE OnEvolved \/ Disconnected \/ ForceExit
  BY <1>3 DEF OnEvolved, Disconnected, ForceExit, Leave
<1>4. CASE RenderFrame \/ PollEnds \/ MenuMoves \/ MenuEnter
  BY <1>4 DEF RenderFrame, PollEnds, MenuMoves, MenuEnter, channelVars
<1>5. CASE CtrlC \/ Submit \/ CtrlD \/ SubmitExit
  BY <1>5 DEF CtrlC, Submit, CtrlD, SubmitExit, Typing
<1>6. QED BY <1>1, <1>2, <1>3, <1>4, <1>5 DEF UiNext, UiLoop, UiKey, UiReceives

SpinnerInv == busy \in BOOLEAN /\ (uiOpen /\ agentOpen => SpinnerIs(msgQ, busy, InTurn))

LEMMA AgentStaysClosed == ASSUME AgentNext, agentOpen' PROVE agentOpen
<1>1. CASE AgentReceives \/ Shutdown
  BY <1>1 DEF AgentReceives, RecvInput, RecvQuit, RecvIgnored, RecvClosed, Return, Shutdown,
              EvolveEnds, EvolveFails, CloseMcp, CloseLsp, channelVars
<1>2. CASE RoundEnds \/ StreamText
  BY <1>2 DEF RoundEnds, Retrieve, Compact, TurnFails, StreamEnds, StreamText
<1>3. CASE AskEnds
  BY <1>3 DEF AskEnds, AnswerAllows, AnswerDenies, AskSwallows, AskClosed
<1>4. CASE ToolStep
  BY <1>4 DEF ToolStep, ToolEnds, FinishRound, CheckAllowed, CheckAuto, Ask, LaunchAgent,
              AnswerRefused, AgentEnds, ReportAgent, channelVars
<1>5. QED BY <1>1, <1>2, <1>3, <1>4 DEF AgentNext

LEMMA SpinnerInvNext ==
  ASSUME LoopInv, UiRunsInv, SpinnerInv, [Next]_vars PROVE SpinnerInv'
<1>0. msgQ \in Seq(AgentMessages) /\ InTurn \in BOOLEAN /\ InTurn' \in BOOLEAN
  BY DEF LoopInv, LoopTypeOK, ChannelsTypeOK, InTurn
<1>1. CASE AgentNext /\ UNCHANGED uiVars
  <2>1. uiOpen' = uiOpen /\ busy' = busy /\ (agentOpen' => agentOpen)
    BY <1>1, AgentLeavesUiEnds, AgentStaysClosed DEF uiVars
  <2> SUFFICES ASSUME uiOpen, agentOpen PROVE SpinnerIs(msgQ', busy, InTurn')
    BY <2>1 DEF SpinnerInv
  <2>2. SpinnerIs(msgQ, busy, InTurn) /\ busy \in BOOLEAN
    BY DEF SpinnerInv
  <2>3. CASE SendsNothing
    BY <2>2, <2>3 DEF SendsNothing, SpinnerIs
  <2>4. ASSUME NEW m \in AgentMessages, Send(<<m>>),
               m.type \in SpinnerTypes => (InTurn' <=> m.type = "Thinking"),
               m.type \notin SpinnerTypes => (InTurn' <=> InTurn)
        PROVE  SpinnerIs(msgQ', busy, InTurn')
    <3>1. msgQ' = Append(msgQ, m)
      BY <1>0, <2>4, AppendAfterConcat DEF Send
    <3>2. QED BY <1>0, <2>2, <2>4, <3>1, SpinnerAppend
  <2>5. CASE SendsStart
    BY <2>4, <2>5, MessageTypes DEF SendsStart, Plain, PlainTypes, SpinnerTypes
  <2>6. CASE SendsEnd
    <3>1. PICK ms : Plainly(ms) /\ Send(ms \o <<Plain("Done")>>) /\ ~InTurn'
      BY <2>6 DEF SendsEnd
    <3>2. Plain("Done") \in AgentMessages /\ Plain("Done").type = "Done"
      BY MessageTypes DEF Plain, PlainTypes
    <3>3. ms \in Seq(AgentMessages) /\ msgQ \o ms \in Seq(AgentMessages)
      BY <1>0, <3>1, ConcatProperties DEF Plainly
    <3>4. msgQ' = Append(msgQ \o ms, Plain("Done"))
      BY <1>0, <3>1, <3>2, <3>3, AppendAfterConcat DEF Send
    <3>5. QED BY <1>0, <2>2, <3>1, <3>2, <3>3, <3>4, SpinnerAppend DEF SpinnerTypes
  <2>7. CASE SendsOne
    BY <2>4, <2>7 DEF SendsOne, Neutral
  <2>8. ASSUME NEW i \in DOMAIN status, Ask(i) PROVE SpinnerIs(msgQ', busy, InTurn')
    <3>1. Send(<<Request(uses[i])>>) /\ InTurn /\ InTurn'
      BY <2>8 DEF Ask, InTurn, TurnStates
    <3>2. uses[i] \in Tools
      BY <2>8 DEF LoopInv, LoopTypeOK, AgentTypeOK
    <3>3. QED BY <2>4, <3>1, <3>2, MessageTypes DEF Request, SpinnerTypes
  <2>9. QED BY <1>1, <2>3, <2>5, <2>6, <2>7, <2>8, AgentSends
<1>2. CASE UiNext /\ UNCHANGED agentVars
  <2>1. InTurn' = InTurn
    BY <1>2 DEF InTurn, agentVars
  <2>2. CASE ~uiOpen' /\ busy' = busy
    BY <2>2 DEF SpinnerInv
  <2>3. CASE UiLeavesQueue /\ busy' = busy
    BY <2>1, <2>3 DEF UiLeavesQueue, SpinnerInv, SpinnerIs
  <2>4. CASE UiTakes /\ busy' = IF Head(msgQ).type \in SpinnerTypes
                                THEN Head(msgQ).type = "Thinking" ELSE busy
    BY <1>0, <2>1, <2>4, SpinnerTail DEF UiTakes, SpinnerInv
  <2>5. QED BY <1>2, <2>2, <2>3, <2>4, UiSpinnerSteps
<1>3. CASE UNCHANGED vars
  BY <1>3 DEF vars, uiVars, channelVars, agentVars, SpinnerInv, SpinnerIs, InTurn
<1>4. QED BY <1>1, <1>2, <1>3 DEF Next

LEMMA SpinnerInvInit == Init => SpinnerInv
<1>1. SpinnerIs(<<>>, FALSE, FALSE)
  BY DEF SpinnerIs
<1>2. Init => msgQ = <<>> /\ busy = FALSE /\ ~InTurn
  BY DEF Init, ChannelsInit, AgentInit, UiInit, InTurn, TurnStates
<1>3. InTurn \in BOOLEAN
  BY DEF InTurn
<1>4. QED BY <1>1, <1>2, <1>3 DEF SpinnerInv

LEMMA SpinnerTellsTheTruth == SpinnerInv => BusyMatchesTurn
  BY EmptySeq DEF SpinnerInv, SpinnerIs, NoneBefore, BusyMatchesTurn

-----------------------------------------------------------------------------
(***************************************************************************)
(* The blocks of the live region: what the steps of the UI do to them.     *)
(***************************************************************************)
LEMMA BlockTypes ==
    /\ \A state \in {"Live", "Committing"} : Markdown(state) \in Blocks
    /\ \A use \in Nat : ToolCall(use) \in Blocks
    /\ \A tool \in Tools \cup {NoTool} : Prompt(tool) \in Blocks
  BY DEF Markdown, ToolCall, Prompt, Blocks

LEMMA CommitTypes ==
  ASSUME NEW kind
  PROVE  /\ CommitBlocks(kind) \in Seq(Blocks)
         /\ \A i \in DOMAIN CommitBlocks(kind) : CommitBlocks(kind)[i].kind = "markdown"
<1>1. CASE kind = "markdown"
  <2>1. CommitBlocks(kind) = <<Markdown("Committing")>> /\ Markdown("Committing").kind = "markdown"
    BY <1>1 DEF CommitBlocks, Markdown
  <2>2. QED BY <2>1, BlockTypes
<1>2. CASE kind # "markdown"
  BY <1>2 DEF CommitBlocks
<1>3. QED BY <1>1, <1>2

(* Text comes and goes at the end; every other block stays where it was.   *)
Others(bs) == {i \in DOMAIN bs : bs[i].kind # "markdown"}
OnlyTextDiffers(bs, cs) == Others(cs) = Others(bs) /\ \A i \in Others(bs) : cs[i] = bs[i]

LEMMA TextAppended ==
  ASSUME NEW bs \in Seq(Blocks), NEW ts \in Seq(Blocks),
         \A i \in DOMAIN ts : ts[i].kind = "markdown"
  PROVE  bs \o ts \in Seq(Blocks) /\ OnlyTextDiffers(bs, bs \o ts)
<1> DEFINE cs == bs \o ts
<1>1. /\ cs \in Seq(Blocks)
      /\ Len(bs) \in Nat /\ Len(ts) \in Nat
      /\ DOMAIN bs = 1..Len(bs) /\ DOMAIN cs = 1..(Len(bs) + Len(ts)) /\ DOMAIN ts = 1..Len(ts)
      /\ \A i \in 1..Len(bs) : cs[i] = bs[i]
      /\ \A i \in DOMAIN cs : i \in DOMAIN bs \/ cs[i].kind = "markdown"
  <2>1. \A i \in DOMAIN cs : \/ i \in DOMAIN bs /\ cs[i] = bs[i]
                             \/ i - Len(bs) \in DOMAIN ts /\ cs[i] = ts[i - Len(bs)]
    BY ConcatAt
  <2>2. QED BY <2>1, ConcatProperties, LenProperties
<1> HIDE DEF cs
<1>2. Others(cs) = Others(bs) /\ \A i \in Others(bs) : cs[i] = bs[i]
  BY <1>1 DEF Others
<1>3. QED BY <1>1, <1>2 DEF OnlyTextDiffers, cs

LEMMA TextDropped ==
  ASSUME NEW bs \in Seq(Blocks)
  PROVE  DropTrailingLive(bs) \in Seq(Blocks) /\ OnlyTextDiffers(bs, DropTrailingLive(bs))
<1>1. CASE DropTrailingLive(bs) = bs
  BY <1>1 DEF OnlyTextDiffers
<1>2. CASE DropTrailingLive(bs) # bs
  <2> DEFINE cs == SubSeq(bs, 1, Len(bs) - 1)
  <2>1. bs # <<>> /\ bs[Len(bs)].kind = "markdown" /\ DropTrailingLive(bs) = cs
    BY <1>2 DEF DropTrailingLive
  <2>2. Len(bs) \in Nat /\ Len(bs) >= 1 /\ DOMAIN bs = 1..Len(bs)
    BY <2>1, EmptySeq, LenProperties
  <2>3. /\ cs \in Seq(Blocks) /\ DOMAIN cs = 1..(Len(bs) - 1)
        /\ \A i \in 1..(Len(bs) - 1) : cs[i] = bs[i]
    <3>1. \A i \in 1..(Len(bs) - 1) : bs[i] \in Blocks
      BY <2>2, ElementOfSeq
    <3>2. /\ cs \in Seq(Blocks)
          /\ Len(cs) = Len(bs) - 1
          /\ \A i \in 1..(Len(bs) - 1) : cs[i] = bs[i]
      BY <2>2, <3>1
    <3>3. QED BY <3>2, LenProperties
  <2> HIDE DEF cs
  <2>4. Others(cs) = Others(bs) /\ \A i \in Others(bs) : cs[i] = bs[i]
    BY <2>1, <2>2, <2>3 DEF Others
  <2>5. QED BY <2>1, <2>3, <2>4 DEF OnlyTextDiffers
<1>3. QED BY <1>1, <1>2

(* What a chunk or the end of a turn does to the blocks.                   *)
LEMMA TextReplaced ==
  ASSUME NEW bs \in Seq(Blocks), NEW kind
  PROVE  LET cs == DropTrailingLive(bs \o CommitBlocks(kind)) IN
         /\ cs \in Seq(Blocks) /\ OnlyTextDiffers(bs, cs)
         /\ Append(cs, Markdown("Live")) \in Seq(Blocks)
         /\ OnlyTextDiffers(bs, Append(cs, Markdown("Live")))
<1> DEFINE ds == bs \o CommitBlocks(kind)
           cs == DropTrailingLive(ds)
           es == cs \o <<Markdown("Live")>>
<1>1. ds \in Seq(Blocks) /\ OnlyTextDiffers(bs, ds)
  BY CommitTypes, TextAppended
<1>2. cs \in Seq(Blocks) /\ OnlyTextDiffers(ds, cs)
  BY <1>1, TextDropped
<1>3. es \in Seq(Blocks) /\ OnlyTextDiffers(cs, es)
  <2>1. Markdown("Live") \in Blocks /\ Markdown("Live").kind = "markdown"
    BY BlockTypes DEF Markdown
  <2> DEFINE one == <<Markdown("Live")>>
  <2>2. one \in Seq(Blocks) /\ \A i \in DOMAIN one : one[i].kind = "markdown"
    BY <2>1
  <2> HIDE DEF one
  <2>3. QED BY <1>2, <2>2, TextAppended DEF one
<1>4. es = Append(cs, Markdown("Live"))
  BY <1>2, BlockTypes, AppendAfterConcat
<1> HIDE DEF ds, cs, es
<1>5. OnlyTextDiffers(bs, cs) /\ OnlyTextDiffers(bs, es)
  BY <1>1, <1>2, <1>3 DEF OnlyTextDiffers
<1>6. QED BY <1>2, <1>3, <1>4, <1>5 DEF ds, cs

(* What Keep leaves of the blocks.                                         *)
LEMMA BlocksKept ==
  ASSUME NEW bs \in Seq(Blocks), NEW I \in SUBSET DOMAIN bs
  PROVE  LET cs == Keep(bs, I) IN
         /\ cs \in Seq(Blocks)
         /\ \E f \in [DOMAIN cs -> I] :
              /\ \A j \in DOMAIN cs : cs[j] = bs[f[j]]
              /\ \A j, k \in DOMAIN cs : f[j] = f[k] => j = k
              /\ \A i \in I : \E j \in DOMAIN cs : f[j] = i
<1> DEFINE cs == Keep(bs, I)
           n == Cardinality(I)
<1>1. n \in Nat /\ cs \in Seq(Blocks) /\ Len(cs) = n
  BY KeepProperties
<1>2. PICK f \in [1..n -> I] :
              /\ \A j \in 1..n : cs[j] = bs[f[j]]
              /\ \A j, k \in 1..n : j < k => f[j] < f[k]
              /\ \A i \in I : \E j \in 1..n : f[j] = i
  BY KeepProperties
<1>3. DOMAIN cs = 1..n
  BY <1>1, LenProperties
<1>4. I \subseteq Nat
  BY LenProperties
<1> HIDE DEF cs, n
<1>5. ASSUME NEW j \in 1..n, NEW k \in 1..n, f[j] = f[k] PROVE j = k
  <2>1. f[j] \in Nat /\ f[k] \in Nat /\ j \in Int /\ k \in Int
    BY <1>2, <1>4
  <2>2. ~(j < k) /\ ~(k < j)
    BY <1>2, <1>5, <2>1
  <2>3. QED BY <2>1, <2>2
<1>6. /\ f \in [DOMAIN cs -> I]
      /\ \A j \in DOMAIN cs : cs[j] = bs[f[j]]
      /\ \A j, k \in DOMAIN cs : f[j] = f[k] => j = k
      /\ \A i \in I : \E j \in DOMAIN cs : f[j] = i
  BY <1>2, <1>3, <1>5
<1>7. QED BY <1>1, <1>6 DEF cs

(* The blocks that are looked for are there.                               *)
LEMMA BlocksFound ==
  ASSUME blocks \in Seq(Blocks)
  PROVE  /\ Prompts # {} => FirstPrompt \in Prompts
         /\ RunningTools # {} => LastRunning \in RunningTools
         /\ DOMAIN blocks \subseteq Nat
<1>1. Len(blocks) \in Nat /\ DOMAIN blocks = 1..Len(blocks)
  BY LenProperties
<1>2. Prompts \subseteq Nat /\ RunningTools \subseteq 0..Len(blocks)
  BY <1>1 DEF Prompts, RunningTools
<1>3. ASSUME Prompts # {} PROVE FirstPrompt \in Prompts
  <2>1. \E i \in Prompts : \A j \in Prompts : i <= j
    BY <1>2, <1>3, SmallestElement
  <2>2. QED BY <2>1 DEF FirstPrompt
<1>4. ASSUME RunningTools # {} PROVE LastRunning \in RunningTools
  <2>1. \E i \in RunningTools : \A j \in RunningTools : j <= i
    BY <1>1, <1>2, <1>4, LargestElement
  <2>2. QED BY <2>1 DEF LastRunning
<1>5. QED BY <1>1, <1>3, <1>4

LEMMA BlockReplaced ==
  ASSUME NEW bs \in Seq(Blocks), NEW i \in DOMAIN bs, NEW b \in Blocks
  PROVE  LET cs == [bs EXCEPT ![i] = b] IN
         /\ cs \in Seq(Blocks) /\ DOMAIN cs = DOMAIN bs
         /\ cs[i] = b /\ \A j \in DOMAIN bs : j # i => cs[j] = bs[j]
<1> DEFINE cs == [bs EXCEPT ![i] = b]
<1>1. bs \in [1..Len(bs) -> Blocks] /\ Len(bs) \in Nat
  BY LenProperties
<1>2. cs \in [1..Len(bs) -> Blocks]
  BY <1>1
<1>3. cs \in Seq(Blocks)
  BY <1>1, <1>2
<1>4. QED BY <1>3

(* The block that is finished, and the menu that is moved.                 *)
Finished(use) == [blocks[LastRunning] EXCEPT !.result = use, !.state = "Committing"]
Moved(move) == [blocks[FirstPrompt] EXCEPT !.selected = move]

LEMMA BlockChanges ==
  ASSUME blocks \in Seq(Blocks)
  PROVE  /\ RunningTools # {} => \A use \in Nat :
              /\ Finished(use) \in Blocks
              /\ FinishLastRunning(use) = [blocks EXCEPT ![LastRunning] = Finished(use)]
         /\ Prompts # {} => \A move \in 0..2 :
              /\ Moved(move) \in Blocks
              /\ [blocks EXCEPT ![FirstPrompt].selected = move]
                   = [blocks EXCEPT ![FirstPrompt] = Moved(move)]
<1>1. ASSUME RunningTools # {}, NEW use \in Nat
      PROVE  /\ Finished(use) \in Blocks
             /\ FinishLastRunning(use) = [blocks EXCEPT ![LastRunning] = Finished(use)]
  <2>1. LastRunning \in DOMAIN blocks /\ blocks[LastRunning] \in Blocks
    BY <1>1, BlocksFound DEF RunningTools
  <2>2. Finished(use) \in Blocks
    BY <2>1 DEF Finished, Blocks
  <2>3. FinishLastRunning(use) = [blocks EXCEPT ![LastRunning] = Finished(use)]
    BY <1>1, <2>1 DEF FinishLastRunning, Finished
  <2>4. QED BY <2>2, <2>3
<1>2. ASSUME Prompts # {}, NEW move \in 0..2
      PROVE  /\ Moved(move) \in Blocks
             /\ [blocks EXCEPT ![FirstPrompt].selected = move]
                   = [blocks EXCEPT ![FirstPrompt] = Moved(move)]
  <2>1. FirstPrompt \in DOMAIN blocks /\ blocks[FirstPrompt] \in Blocks
    BY <1>2, BlocksFound DEF Prompts
  <2>2. QED BY <2>1 DEF Moved, Blocks
<1>3. QED BY <1>1, <1>2

(* tui/terminal.rs, session.rs, live_region.rs: every step of the UI keeps *)
(* its state well typed.                                                   *)
LEMMA BlocksStayTyped ==
  ASSUME LoopInv, blocks \in Seq(Blocks), UiNext PROVE blocks' \in Seq(Blocks)
<1>0. msgQ \in Seq(AgentMessages) /\ (msgQ # <<>> => Head(msgQ) \in AgentMessages)
  BY HeadTailProperties DEF LoopInv, LoopTypeOK, ChannelsTypeOK
<1>1. CASE OnTextChunk
  BY <1>1, TextReplaced DEF OnTextChunk
<1>2. CASE OnDone
  BY <1>2, TextReplaced DEF OnDone
<1>3. CASE OnToolStart
  <2>1. Head(msgQ).use \in Nat /\ blocks' = Append(blocks, ToolCall(Head(msgQ).use))
    BY <1>0, <1>3 DEF OnToolStart, Receive, AgentMessages
  <2>2. QED BY <2>1, BlockTypes, AppendProperties
<1>4. CASE OnToolResult
  <2>1. Head(msgQ).use \in Nat /\ blocks' = FinishLastRunning(Head(msgQ).use)
    BY <1>0, <1>4 DEF OnToolResult, Receive, AgentMessages
  <2>2. CASE RunningTools = {}
    BY <2>1, <2>2 DEF FinishLastRunning
  <2>3. CASE RunningTools # {}
    <3>1. LastRunning \in DOMAIN blocks
      BY <2>3, BlocksFound DEF RunningTools
    <3>2. QED BY <2>1, <2>3, <3>1, BlockChanges, BlockReplaced
  <2>4. QED BY <2>2, <2>3
<1>5. CASE OnPermissionRequest
  <2>1. Head(msgQ).tool \in Tools \cup {NoTool} /\ blocks' = Append(blocks, Prompt(Head(msgQ).tool))
    BY <1>0, <1>5 DEF OnPermissionRequest, Receive, AgentMessages
  <2>2. QED BY <2>1, BlockTypes, AppendProperties
<1>6. CASE RenderFrame
  BY <1>6, BlocksKept DEF RenderFrame
<1>7. CASE MenuMoves
  <2>1. Prompts # {} /\ FirstPrompt \in DOMAIN blocks /\ blocks[FirstPrompt] \in Blocks
    BY <1>7, BlocksFound DEF MenuMoves, Prompts
  <2>2. \A s \in 0..2 : MoveUp(s) \in 0..2 /\ MoveDown(s) \in 0..2
    BY DEF MoveUp, MoveDown, Options
  <2>3. PICK move \in 0..2 : blocks' = [blocks EXCEPT ![FirstPrompt].selected = move]
    BY <1>7, <2>1, <2>2 DEF MenuMoves, Blocks
  <2>4. QED BY <2>1, <2>3, BlockChanges, BlockReplaced
<1>8. CASE MenuEnter
  <2>1. blocks' = blocks \/ blocks' = WithoutPrompts
    BY <1>8 DEF MenuEnter
  <2>2. QED BY <2>1, BlocksKept DEF WithoutPrompts
<1>9. CASE OnThinking \/ OnStatus \/ OnError \/ OnEvolved \/ Disconnected \/ PollEnds
  BY <1>9 DEF OnThinking, OnStatus, OnError, OnEvolved, Disconnected, PollEnds
<1>10. CASE ForceExit \/ CtrlC \/ Submit \/ CtrlD \/ SubmitExit
  BY <1>10 DEF ForceExit, CtrlC, Submit, CtrlD, SubmitExit, Typing
<1>11. QED
  BY <1>1, <1>2, <1>3, <1>4, <1>5, <1>6, <1>7, <1>8, <1>9, <1>10 DEF UiNext, UiLoop, UiKey, UiReceives

LEMMA ParserStaysTyped ==
  ASSUME LoopInv, parser \in ParserStates, UiNext PROVE parser' \in ParserStates
<1>1. \A kind : Push(parser, kind) \in ParserStates
  <2>1. \A kind : Line(parser, kind) \in Lines
    BY DEF Line, Piece, Lines, ParserStates
  <2>2. \A line : CodeWith(parser, line) \in {"none", "blank", "some"}
    BY DEF CodeWith
  <2>3. QED BY <2>1, <2>2 DEF Push, ParserStates, Lines
<1>2. AfterFlush(parser) \in ParserStates
  BY DEF AfterFlush, EmptyParser, ParserStates, Lines
<1>3. parser' = parser \/ (\E kind : parser' = Push(parser, kind)) \/ parser' = AfterFlush(parser)
  BY DEF UiNext, UiLoop, UiKey, UiReceives, OnThinking, OnTextChunk, OnToolStart, OnToolResult,
     OnPermissionRequest, OnStatus, OnDone, OnError, OnEvolved, RenderFrame, Disconnected,
     PollEnds, ForceExit, MenuMoves, MenuEnter, CtrlC, Submit, CtrlD, SubmitExit, Typing
<1>4. QED BY <1>1, <1>2, <1>3

LEMMA UiTypeNext ==
  ASSUME LoopInv, UiTypeOK, [Next]_vars PROVE UiTypeOK'
<1>1. CASE UiNext
  <2>0. msgQ # <<>> => Head(msgQ).tool \in Tools \cup {NoTool}
    <3>1. msgQ # <<>> => Head(msgQ) \in AgentMessages
      BY HeadTailProperties DEF LoopInv, LoopTypeOK, ChannelsTypeOK
    <3>2. QED BY <3>1 DEF AgentMessages
  <2>1. uiPc' \in {"drain", "keys", "done"} /\ busy' \in BOOLEAN /\ quitting' \in BOOLEAN
    BY <1>1 DEF UiTypeOK, UiNext, UiLoop, UiKey, UiReceives, OnThinking, OnTextChunk, OnToolStart,
       OnToolResult, OnPermissionRequest, OnStatus, OnDone, OnError, OnEvolved, Receive, Took, Leave,
       RenderFrame, Disconnected, PollEnds, ForceExit, MenuMoves, MenuEnter, CtrlC, Submit, CtrlD,
       SubmitExit, Typing
  <2>2. pending' \in Tools \cup {NoTool}
    BY <1>1, <2>0 DEF UiTypeOK, UiNext, UiLoop, UiKey, UiReceives, OnThinking, OnTextChunk, OnToolStart,
       OnToolResult, OnPermissionRequest, OnStatus, OnDone, OnError, OnEvolved, Receive,
       RenderFrame, Disconnected, PollEnds, ForceExit, MenuMoves, MenuEnter, CtrlC, Submit, CtrlD,
       SubmitExit, Typing
  <2>3. answers' \subseteq Tools \X Answers
    BY <1>1 DEF UiTypeOK, UiNext, UiLoop, UiKey, UiReceives, OnThinking, OnTextChunk, OnToolStart,
       OnToolResult, OnPermissionRequest, OnStatus, OnDone, OnError, OnEvolved, Receive,
       RenderFrame, Disconnected, PollEnds, ForceExit, MenuMoves, MenuEnter, CtrlC, Submit, CtrlD,
       SubmitExit, Typing, history
  <2>4. interrupts' \in 0..MaxInterrupts
    BY <1>1, InterruptsAssumption DEF UiTypeOK, UiNext, UiLoop, UiKey, UiReceives, OnThinking,
       OnTextChunk, OnToolStart, OnToolResult, OnPermissionRequest, OnStatus, OnDone, OnError,
       OnEvolved, Receive, RenderFrame, Disconnected, PollEnds, ForceExit, MenuMoves, MenuEnter,
       CtrlC, Submit, CtrlD, SubmitExit, Typing, history
  <2>5. blocks' \in Seq(Blocks) /\ parser' \in ParserStates
    BY <1>1, BlocksStayTyped, ParserStaysTyped DEF UiTypeOK
  <2>6. QED BY <2>1, <2>2, <2>3, <2>4, <2>5 DEF UiTypeOK
<1>2. CASE UNCHANGED uiVars
  BY <1>2 DEF uiVars, history, UiTypeOK
<1>3. QED BY <1>1, <1>2 DEF Next, vars

LEMMA UiTypeInit == Init => UiTypeOK
<1>1. <<>> \in Seq(Blocks) /\ EmptyParser \in ParserStates /\ 0 \in 0..MaxInterrupts
  BY EmptySeq, InterruptsAssumption DEF EmptyParser, ParserStates, Lines
<1>2. QED BY <1>1 DEF Init, UiInit, UiTypeOK

(***************************************************************************)
(* The menu on the screen.  Prompts stay Live until they are answered, so  *)
(* there is one exactly while a permission is pending; before the first    *)
(* interrupt it is about the pending tool.                                 *)
(***************************************************************************)
RequestsNameTools == \A i \in DOMAIN msgQ : IsRequest(msgQ[i]) => msgQ[i].tool \in Tools
PromptsArePending ==
    /\ pending # NoTool <=> Prompts # {}
    /\ \A i \in Prompts : blocks[i].state = "Live"
PromptsAreAsked ==
    interrupts = 0 => \A i \in Prompts : blocks[i].tool = pending

LEMMA RequestsSent ==
  ASSUME LoopInv, AgentNext, RequestsNameTools PROVE RequestsNameTools'
<1>0. msgQ \in Seq(AgentMessages)
  BY DEF LoopInv, LoopTypeOK, ChannelsTypeOK
<1>1. ASSUME NEW ms \in Seq(AgentMessages), Send(ms),
             \A i \in DOMAIN ms : IsRequest(ms[i]) => ms[i].tool \in Tools
      PROVE  RequestsNameTools'
  BY <1>0, <1>1, ConcatAt DEF Send, RequestsNameTools
<1>2. ASSUME NEW m \in AgentMessages, Send(<<m>>), IsRequest(m) => m.tool \in Tools
      PROVE  RequestsNameTools'
  <2>1. <<m>> \in Seq(AgentMessages) /\ \A i \in DOMAIN <<m>> : <<m>>[i] = m
    OBVIOUS
  <2>2. QED BY <1>1, <1>2, <2>1
<1>3. CASE SendsNothing
  BY <1>3 DEF SendsNothing, RequestsNameTools
<1>4. CASE SendsStart
  BY <1>2, <1>4, MessageTypes DEF SendsStart, Plain, PlainTypes, IsRequest
<1>5. CASE SendsEnd
  <2>1. PICK ms : Plainly(ms) /\ Send(ms \o <<Plain("Done")>>)
    BY <1>5 DEF SendsEnd
  <2>2. Plainly(ms \o <<Plain("Done")>>)
    BY <2>1, PlainTexts, PlainConcat DEF PlainTypes
  <2>3. QED BY <1>1, <2>1, <2>2 DEF Plainly
<1>6. CASE SendsOne
  BY <1>2, <1>6 DEF SendsOne, Neutral
<1>7. ASSUME NEW i \in DOMAIN status, Ask(i) PROVE RequestsNameTools'
  <2>1. uses[i] \in Tools
    BY DEF LoopInv, LoopTypeOK, AgentTypeOK
  <2>2. QED BY <1>2, <1>7, <2>1, MessageTypes DEF Ask, Request
<1>8. QED BY <1>3, <1>4, <1>5, <1>6, <1>7, AgentSends

(* The blocks a prompt cannot come from or be lost in.                     *)
LEMMA OnlyTextKeepsPrompts ==
  ASSUME OnlyTextDiffers(blocks, blocks')
  PROVE  Prompts' = Prompts /\ \A i \in Prompts : blocks'[i] = blocks[i]
<1>1. Prompts \subseteq Others(blocks) /\ Prompts' \subseteq Others(blocks')
  BY DEF Prompts, Others
<1>2. QED BY <1>1 DEF OnlyTextDiffers, Prompts, Others

LEMMA AppendedBlock ==
  ASSUME NEW bs \in Seq(Blocks), NEW b \in Blocks
  PROVE  /\ DOMAIN Append(bs, b) = DOMAIN bs \cup {Len(bs) + 1} /\ Len(bs) + 1 \notin DOMAIN bs
         /\ \A i \in DOMAIN bs : Append(bs, b)[i] = bs[i]
         /\ Append(bs, b)[Len(bs) + 1] = b
<1>1. Len(bs) \in Nat /\ DOMAIN bs = 1..Len(bs)
  BY LenProperties
<1>2. /\ Len(Append(bs, b)) = Len(bs) + 1
      /\ Append(bs, b) \in Seq(Blocks)
      /\ \A i \in 1..Len(bs) : Append(bs, b)[i] = bs[i]
      /\ Append(bs, b)[Len(bs) + 1] = b
  BY AppendProperties
<1>3. DOMAIN Append(bs, b) = 1..(Len(bs) + 1)
  BY <1>2, LenProperties
<1>4. 1..(Len(bs) + 1) = 1..Len(bs) \cup {Len(bs) + 1} /\ Len(bs) + 1 \notin 1..Len(bs)
  BY <1>1
<1>5. QED BY <1>1, <1>2, <1>3, <1>4

(* A frame drops no prompt, an answer drops them all, and no other step of *)
(* the UI but the arrival of a request touches them.                       *)
PromptsStay ==
    /\ \A j \in Prompts' : \E i \in Prompts :
          blocks'[j].tool = blocks[i].tool /\ blocks'[j].state = blocks[i].state
    /\ Prompts' = {} => Prompts = {}

LEMMA UiKeepsPrompts ==
  ASSUME LoopInv, UiTypeOK, PromptsArePending, UiNext, ~OnPermissionRequest, ~MenuEnter
  PROVE  PromptsStay /\ pending' = pending
<1>0. blocks \in Seq(Blocks) /\ DOMAIN blocks \subseteq Nat
      /\ (msgQ # <<>> => Head(msgQ) \in AgentMessages)
  <2>1. blocks \in Seq(Blocks) /\ msgQ \in Seq(AgentMessages)
    BY DEF UiTypeOK, LoopInv, LoopTypeOK, ChannelsTypeOK
  <2>2. QED BY <2>1, LenProperties, HeadTailProperties
<1>1. ASSUME blocks' = blocks PROVE PromptsStay
  BY <1>1 DEF PromptsStay, Prompts
<1>2. ASSUME OnlyTextDiffers(blocks, blocks') PROVE PromptsStay
  BY <1>2, OnlyTextKeepsPrompts DEF PromptsStay
<1>3. CASE OnTextChunk
  BY <1>0, <1>2, <1>3, TextReplaced DEF OnTextChunk
<1>4. CASE OnDone
  BY <1>0, <1>2, <1>4, TextReplaced DEF OnDone
<1>5. CASE OnToolStart
  <2>1. ToolCall(Head(msgQ).use) \in Blocks /\ ToolCall(Head(msgQ).use).kind = "tool"
        /\ blocks' = Append(blocks, ToolCall(Head(msgQ).use))
    BY <1>0, <1>5, BlockTypes DEF OnToolStart, Receive, AgentMessages, ToolCall
  <2>2. Prompts' = Prompts /\ \A i \in Prompts : blocks'[i] = blocks[i]
    BY <1>0, <2>1, AppendedBlock DEF Prompts
  <2>3. QED BY <1>5, <2>2 DEF PromptsStay, OnToolStart
<1>6. CASE OnToolResult
  <2>1. Head(msgQ).use \in Nat /\ blocks' = FinishLastRunning(Head(msgQ).use)
    BY <1>0, <1>6 DEF OnToolResult, Receive, AgentMessages
  <2>2. CASE RunningTools = {}
    BY <1>1, <1>6, <2>1, <2>2 DEF FinishLastRunning, OnToolResult
  <2>3. CASE RunningTools # {}
    <3>1. LastRunning \in DOMAIN blocks /\ blocks[LastRunning].kind = "tool"
          /\ blocks[LastRunning] \in Blocks
      BY <1>0, <2>3, BlocksFound DEF RunningTools
    <3>2. Finished(Head(msgQ).use).kind = "tool" /\ Finished(Head(msgQ).use) \in Blocks
      BY <1>0, <2>1, <2>3, <3>1, BlockChanges DEF Finished, Blocks
    <3>3. /\ DOMAIN blocks' = DOMAIN blocks
          /\ blocks'[LastRunning].kind = "tool"
          /\ \A j \in DOMAIN blocks : j # LastRunning => blocks'[j] = blocks[j]
      BY <1>0, <2>1, <2>3, <3>1, <3>2, BlockChanges, BlockReplaced
    <3>4. Prompts' = Prompts /\ \A i \in Prompts : blocks'[i] = blocks[i]
      BY <3>1, <3>3 DEF Prompts
    <3>5. QED BY <1>6, <3>4 DEF PromptsStay, OnToolResult
  <2>4. QED BY <2>2, <2>3
<1>7. CASE RenderFrame
  <2> DEFINE I == {i \in DOMAIN blocks : blocks[i].state = "Live"}
  <2>1. blocks' = Keep(blocks, I) /\ pending' = pending
    BY <1>7 DEF RenderFrame
  <2>2. PICK f \in [DOMAIN blocks' -> I] :
              /\ \A j \in DOMAIN blocks' : blocks'[j] = blocks[f[j]]
              /\ \A i \in I : \E j \in DOMAIN blocks' : f[j] = i
    <3>1. I \in SUBSET DOMAIN blocks
      OBVIOUS
    <3> HIDE DEF I
    <3>2. QED BY <1>0, <2>1, <3>1, BlocksKept
  <2>3. ASSUME NEW j \in Prompts' PROVE f[j] \in Prompts /\ blocks'[j] = blocks[f[j]]
    BY <2>2, <2>3 DEF Prompts
  <2>4. ASSUME NEW i \in Prompts PROVE Prompts' # {}
    <3>1. i \in I
      BY <2>4 DEF PromptsArePending, Prompts
    <3>2. PICK j \in DOMAIN blocks' : f[j] = i
      BY <2>2, <3>1
    <3>3. QED BY <2>2, <2>4, <3>2 DEF Prompts
  <2>5. QED BY <2>1, <2>3, <2>4 DEF PromptsStay
<1>8. CASE MenuMoves
  <2>1. Prompts # {} /\ FirstPrompt \in DOMAIN blocks /\ blocks[FirstPrompt] \in Blocks
        /\ FirstPrompt \in Prompts
    BY <1>0, <1>8, BlocksFound DEF MenuMoves, Prompts
  <2>2. \A s \in 0..2 : MoveUp(s) \in 0..2 /\ MoveDown(s) \in 0..2
    BY DEF MoveUp, MoveDown, Options
  <2>3. PICK move \in 0..2 : blocks' = [blocks EXCEPT ![FirstPrompt].selected = move]
    BY <1>8, <2>1, <2>2 DEF MenuMoves, Blocks
  <2>4. /\ Moved(move) \in Blocks
        /\ Moved(move).kind = blocks[FirstPrompt].kind /\ Moved(move).tool = blocks[FirstPrompt].tool
        /\ Moved(move).state = blocks[FirstPrompt].state
    BY <1>0, <2>1, BlockChanges DEF Moved, Blocks
  <2>5. /\ DOMAIN blocks' = DOMAIN blocks
        /\ blocks'[FirstPrompt] = Moved(move)
        /\ \A j \in DOMAIN blocks : j # FirstPrompt => blocks'[j] = blocks[j]
    BY <1>0, <2>1, <2>3, <2>4, BlockChanges, BlockReplaced
  <2>6. Prompts' = Prompts
    BY <2>4, <2>5 DEF Prompts
  <2>7. \A i \in Prompts : blocks'[i].tool = blocks[i].tool /\ blocks'[i].state = blocks[i].state
    BY <2>4, <2>5 DEF Prompts
  <2>8. QED BY <1>8, <2>6, <2>7 DEF PromptsStay, MenuMoves
<1>9. CASE OnThinking \/ OnStatus \/ OnError \/ OnEvolved \/ Disconnected \/ PollEnds
  BY <1>1, <1>9 DEF OnThinking, OnStatus, OnError, OnEvolved, Disconnected, PollEnds
<1>10. CASE ForceExit \/ CtrlC \/ Submit \/ CtrlD \/ SubmitExit
  BY <1>1, <1>10 DEF ForceExit, CtrlC, Submit, CtrlD, SubmitExit, Typing
<1>11. pending' = pending
  BY DEF UiNext, UiLoop, UiKey, UiReceives, OnThinking, OnTextChunk, OnToolStart, OnToolResult,
     OnStatus, OnDone, OnError, OnEvolved, RenderFrame, Disconnected, PollEnds,
     ForceExit, MenuMoves, CtrlC, Submit, CtrlD, SubmitExit, Typing
<1>12. QED
  BY <1>3, <1>4, <1>5, <1>6, <1>7, <1>8, <1>9, <1>10, <1>11 DEF UiNext, UiLoop, UiKey, UiReceives

PromptInv == UiTypeOK /\ RequestsNameTools /\ PromptsArePending /\ PromptsAreAsked

(* Messages that are taken leave requests about tools.                     *)
LEMMA RequestsTaken ==
  ASSUME LoopInv, RequestsNameTools, UiNext PROVE RequestsNameTools'
<1>0. msgQ \in Seq(AgentMessages)
  BY DEF LoopInv, LoopTypeOK, ChannelsTypeOK
<1>1. CASE msgQ' = <<>>
  BY <1>1 DEF RequestsNameTools
<1>2. CASE UiLeavesQueue
  BY <1>2 DEF UiLeavesQueue, RequestsNameTools
<1>3. CASE UiTakes
  BY <1>0, <1>3, TailAt DEF UiTakes, RequestsNameTools
<1>4. ~uiOpen' => msgQ' = <<>> \/ UiLeavesQueue \/ UiTakes
  <2>1. CASE OnEvolved \/ Disconnected \/ ForceExit
    BY <2>1 DEF OnEvolved, Disconnected, ForceExit, Leave
  <2>2. CASE UiReceives /\ ~OnEvolved
    BY <2>2 DEF UiReceives, OnThinking, OnTextChunk, OnToolStart, OnToolResult, OnPermissionRequest,
       OnStatus, OnDone, OnError, Receive, Took, UiTakes
  <2>3. CASE RenderFrame \/ PollEnds \/ MenuMoves \/ MenuEnter
    BY <2>3 DEF RenderFrame, PollEnds, MenuMoves, MenuEnter, channelVars, UiLeavesQueue
  <2>4. CASE CtrlC \/ Submit \/ CtrlD \/ SubmitExit
    BY <2>4 DEF CtrlC, Submit, CtrlD, SubmitExit, Typing, UiLeavesQueue
  <2>5. QED BY <2>1, <2>2, <2>3, <2>4 DEF UiNext, UiLoop, UiKey, UiReceives
<1>5. QED BY <1>1, <1>2, <1>3, <1>4, UiSpinnerSteps

(* A request puts its tool's menu on the screen ...                        *)
LEMMA PromptShown ==
  ASSUME LoopInv, UiRunsInv, QuestionInv, PromptInv, OnPermissionRequest
  PROVE  PromptsArePending' /\ PromptsAreAsked'
<1> DEFINE tool == Head(msgQ).tool
<1>0. /\ blocks \in Seq(Blocks) /\ msgQ \in Seq(AgentMessages) /\ msgQ # <<>> /\ uiOpen
      /\ pending' = tool /\ blocks' = Append(blocks, Prompt(tool))
      /\ uiOpen' = uiOpen /\ interrupts' = interrupts
  BY DEF PromptInv, UiTypeOK, LoopInv, LoopTypeOK, ChannelsTypeOK, UiRunsInv, OnPermissionRequest,
         Receive, Took, history
<1>1. 1 \in DOMAIN msgQ /\ Head(msgQ) = msgQ[1] /\ IsRequest(msgQ[1])
  <2>1. 1 \in DOMAIN msgQ /\ Head(msgQ) = msgQ[1]
    BY <1>0, EmptySeq, LenProperties
  <2>2. QED BY <2>1 DEF OnPermissionRequest, Receive, IsRequest
<1>2. tool \in Tools /\ tool # NoTool
  BY <1>1, ProtocolAssumption DEF PromptInv, RequestsNameTools
<1>3. Prompt(tool) \in Blocks /\ Prompt(tool).kind = "prompt" /\ Prompt(tool).state = "Live"
      /\ Prompt(tool).tool = tool
  BY <1>2, BlockTypes DEF Prompt
<1> HIDE DEF tool
<1>4. /\ DOMAIN blocks' = DOMAIN blocks \cup {Len(blocks) + 1}
      /\ \A i \in DOMAIN blocks : blocks'[i] = blocks[i]
      /\ blocks'[Len(blocks) + 1] = Prompt(tool)
  BY <1>0, <1>3, AppendedBlock
<1>5. Prompts' = Prompts \cup {Len(blocks) + 1}
  BY <1>3, <1>4, AppendedBlock, <1>0 DEF Prompts
<1>6. PromptsArePending'
  <2>1. \A i \in Prompts : blocks'[i] = blocks[i]
    BY <1>4 DEF Prompts
  <2>2. \A i \in Prompts' : blocks'[i].state = "Live"
    BY <1>3, <1>4, <1>5, <2>1 DEF PromptInv, PromptsArePending
  <2>3. QED BY <1>0, <1>2, <1>5, <2>2 DEF PromptsArePending
<1>7. PromptsAreAsked'
  <2>1. SUFFICES ASSUME interrupts = 0 PROVE Prompts = {}
    BY <1>0, <1>3, <1>4, <1>5 DEF PromptsAreAsked
  <2>2. pending = NoTool
    BY <1>0, <1>1, <2>1 DEF QuestionInv, CalmInv, OneQuestion, Quiet, NoRequest, Requested, NoPrompt
  <2>3. QED BY <2>2 DEF PromptInv, PromptsArePending
<1>8. QED BY <1>6, <1>7

(* ... and an answer takes every menu off it.                              *)
LEMMA PromptsDropped ==
  ASSUME blocks \in Seq(Blocks), PromptsArePending, MenuEnter
  PROVE  Prompts' = {} /\ pending' = NoTool
<1>1. Prompts # {} /\ blocks' = WithoutPrompts /\ pending' = NoTool
  BY DEF MenuEnter, PromptsArePending
<1> DEFINE I == DOMAIN blocks \ Prompts
<1>2. I \in SUBSET DOMAIN blocks
  OBVIOUS
<1>3. PICK f \in [DOMAIN blocks' -> I] : \A j \in DOMAIN blocks' : blocks'[j] = blocks[f[j]]
  <2>1. blocks' = Keep(blocks, I)
    BY <1>1 DEF WithoutPrompts
  <2> HIDE DEF I
  <2>2. QED BY <1>2, <2>1, BlocksKept
<1>4. ASSUME NEW j \in DOMAIN blocks' PROVE blocks'[j].kind # "prompt"
  <2>1. f[j] \in DOMAIN blocks /\ f[j] \notin Prompts
    BY <1>3
  <2>2. QED BY <1>3, <2>1 DEF Prompts
<1>5. QED BY <1>1, <1>4 DEF Prompts

LEMMA PromptInvNext ==
  ASSUME LoopInv, UiRunsInv, QuestionInv, PromptInv, [Next]_vars PROVE PromptInv'
<1>1. UiTypeOK'
  BY UiTypeNext DEF PromptInv
<1>2. CASE AgentNext /\ UNCHANGED uiVars
  <2>1. RequestsNameTools' /\ uiOpen' = uiOpen
    BY <1>2, RequestsSent, AgentLeavesUiEnds DEF PromptInv
  <2>2. PromptsArePending' /\ PromptsAreAsked'
    BY <1>2, <2>1 DEF PromptInv, PromptsArePending, PromptsAreAsked, Prompts, uiVars, history
  <2>3. QED BY <1>1, <2>1, <2>2 DEF PromptInv
<1>3. CASE UiNext /\ UNCHANGED agentVars
  <2>0. RequestsNameTools' /\ blocks \in Seq(Blocks)
    BY <1>3, RequestsTaken DEF PromptInv, UiTypeOK
  <2>1. CASE OnPermissionRequest
    BY <1>1, <2>0, <2>1, PromptShown DEF PromptInv
  <2>2. CASE MenuEnter
    BY <1>1, <2>0, <2>2, PromptsDropped DEF PromptInv, PromptsArePending, PromptsAreAsked
  <2>3. CASE ~OnPermissionRequest /\ ~MenuEnter
    <3>1. PromptsStay /\ pending' = pending
      BY <1>3, <2>3, UiKeepsPrompts DEF PromptInv
    <3>2. \A j \in Prompts' : \E i \in Prompts :
            blocks'[j].tool = blocks[i].tool /\ blocks'[j].state = blocks[i].state
      BY <3>1 DEF PromptsStay
    <3>3. Prompts' = {} <=> Prompts = {}
      BY <3>1, <3>2 DEF PromptsStay
    <3>4. PromptsArePending'
      BY <3>1, <3>2, <3>3 DEF PromptInv, PromptsArePending
    <3>5. interrupts' = 0 => interrupts = 0
      BY InterruptsCount DEF QuestionInv
    <3>6. PromptsAreAsked'
      BY <3>1, <3>2, <3>5 DEF PromptInv, PromptsAreAsked
    <3>7. QED BY <1>1, <2>0, <3>4, <3>6 DEF PromptInv
  <2>4. QED BY <2>1, <2>2, <2>3
<1>4. CASE UNCHANGED vars
  BY <1>1, <1>4 DEF vars, uiVars, history, channelVars, PromptInv, RequestsNameTools,
     PromptsArePending, PromptsAreAsked, Prompts
<1>5. QED BY <1>2, <1>3, <1>4 DEF Next

LEMMA PromptInvInit == Init => PromptInv
<1>1. Init => blocks = <<>> /\ msgQ = <<>> /\ pending = NoTool
  BY DEF Init, ChannelsInit, UiInit
<1>2. ASSUME blocks = <<>>, msgQ = <<>>, pending = NoTool
      PROVE  RequestsNameTools /\ PromptsArePending /\ PromptsAreAsked
  <2>1. Prompts = {}
    BY <1>2 DEF Prompts
  <2>2. QED BY <1>2, <2>1 DEF RequestsNameTools, PromptsArePending, PromptsAreAsked
<1>3. QED BY <1>1, <1>2, UiTypeInit DEF PromptInv

(* The menu that is operated is the pending tool's.                        *)
LEMMA MenuIsPending ==
  ASSUME PromptInv
  PROVE  /\ pending # NoTool <=> Prompts # {}
         /\ pending # NoTool /\ interrupts = 0 => blocks[FirstPrompt].tool = pending
  BY BlocksFound DEF PromptInv, UiTypeOK, PromptsArePending, PromptsAreAsked

-----------------------------------------------------------------------------
(***************************************************************************)
(* The agent's ends are open while it runs, and a question is not lost,    *)
(* whether or not the user is quitting: wherever it was put it is still    *)
(* there, or an event that ends the wait is.                               *)
(***************************************************************************)
QuestionIsOut ==
  uiOpen /\ pc = "asking" =>
    RequestsQueued # {} \/ pending # NoTool \/ \E i \in DOMAIN eventQ : EndsTheWait(eventQ[i])
AnswerableInv == (agentOpen <=> pc # "exited") /\ QuestionIsOut

LEMMA AgentPc ==
  ASSUME AgentNext, agentOpen <=> pc # "exited"
  PROVE  /\ agentOpen' <=> pc' # "exited"
         /\ pc' = "asking" => AskSwallows \/ \E i \in DOMAIN status : Ask(i)
<1>1. CASE AgentReceives
  BY <1>1 DEF AgentReceives, RecvInput, RecvQuit, RecvIgnored, RecvClosed, Return, agentVars
<1>2. CASE RoundEnds \/ StreamText
  BY <1>2 DEF RoundEnds, Retrieve, Compact, TurnFails, StreamEnds, NextRound, StreamText, agentVars
<1>3. CASE AskEnds
  BY <1>3 DEF AskEnds, AnswerAllows, AnswerDenies, AskSwallows, AskClosed, Approve, Refuse, agentVars
<1>4. CASE ToolEnds \/ FinishRound
  BY <1>4 DEF ToolEnds, FinishRound, NextRound
<1>5. ASSUME NEW i \in DOMAIN status,
             \/ CheckAllowed(i) \/ CheckAuto(i) \/ Ask(i)
             \/ LaunchAgent(i) \/ AnswerRefused(i) \/ AgentEnds(i) \/ ReportAgent(i)
      PROVE  /\ agentOpen' <=> pc' # "exited"
             /\ pc' = "asking" => Ask(i)
  BY <1>5 DEF CheckAllowed, CheckAuto, Ask, Approve, LaunchAgent, AnswerRefused, AgentEnds,
              ReportAgent, channelVars
<1>6. CASE Shutdown
  BY <1>6 DEF Shutdown, EvolveEnds, EvolveFails, CloseMcp, CloseLsp, Return, channelVars
<1>7. QED BY <1>1, <1>2, <1>3, <1>4, <1>5, <1>6 DEF AgentNext, ToolStep

LEMMA AgentCanBeAnswered ==
  ASSUME LoopInv, AnswerableInv, AgentNext, UNCHANGED uiVars PROVE AnswerableInv'
<1>0. /\ msgQ \in Seq(AgentMessages) /\ eventQ \in Seq(AgentEvents)
      /\ uiOpen' = uiOpen /\ pending' = pending
  BY AgentLeavesUiEnds DEF LoopInv, LoopTypeOK, ChannelsTypeOK, uiVars
<1>1. CASE AskSwallows
  <2>1. /\ pc = "asking" /\ msgQ' = msgQ /\ eventQ # <<>> /\ eventQ' = Tail(eventQ)
        /\ ~EndsTheWait(Head(eventQ)) /\ agentOpen' = agentOpen /\ pc' = pc
    BY <1>1 DEF AskSwallows, EndsTheWait, agentVars
  <2>2. /\ DOMAIN eventQ = 1..Len(eventQ) /\ DOMAIN Tail(eventQ) = 1..(Len(eventQ) - 1)
        /\ Len(eventQ) \in Nat /\ Head(eventQ) = eventQ[1]
        /\ \A i \in 1..(Len(eventQ) - 1) : Tail(eventQ)[i] = eventQ[i + 1]
    BY <1>0, <2>1, EmptySeq, LenProperties, HeadTailProperties
  <2>3. ASSUME NEW i \in DOMAIN eventQ, EndsTheWait(eventQ[i])
        PROVE  i - 1 \in DOMAIN eventQ' /\ EndsTheWait(eventQ'[i - 1])
    <3>1. i \in 1..Len(eventQ) /\ i # 1
      BY <2>1, <2>2, <2>3
    <3>2. i - 1 \in 1..(Len(eventQ) - 1) /\ (i - 1) + 1 = i
      BY <2>2, <3>1
    <3>3. QED BY <2>1, <2>2, <2>3, <3>2
  <2>4. RequestsQueued' = RequestsQueued
    BY <2>1 DEF RequestsQueued
  <2>5. QED BY <1>0, <2>1, <2>3, <2>4 DEF AnswerableInv, QuestionIsOut
<1>2. ASSUME NEW i \in DOMAIN status, Ask(i) PROVE uiOpen => RequestsQueued' # {}
  <2>1. uses[i] \in Tools
    BY DEF LoopInv, LoopTypeOK, AgentTypeOK
  <2>2. Request(uses[i]) \in AgentMessages /\ Request(uses[i]).type = "PermissionRequest"
    BY <2>1, MessageTypes DEF Request
  <2>3. uiOpen => msgQ' = Append(msgQ, Request(uses[i]))
    BY <1>0, <1>2, <2>2, AppendAfterConcat DEF Ask, Send
  <2>4. uiOpen => Len(msgQ) + 1 \in DOMAIN msgQ' /\ msgQ'[Len(msgQ) + 1] = Request(uses[i])
    BY <1>0, <2>2, <2>3, AppendProperties, LenProperties
  <2>5. QED BY <2>2, <2>4 DEF RequestsQueued
<1>3. (agentOpen' <=> pc' # "exited") /\ (pc' = "asking" => AskSwallows \/ \E i \in DOMAIN status : Ask(i))
  BY AgentPc DEF AnswerableInv
<1>4. CASE ~AskSwallows
  BY <1>0, <1>2, <1>3, <1>4 DEF AnswerableInv, QuestionIsOut
<1>5. QED BY <1>1, <1>4

LEMMA UiCanBeAnswered ==
  ASSUME LoopInv, UiRunsInv, PromptInv, AnswerableInv, UiNext, UNCHANGED agentVars PROVE AnswerableInv'
<1>0. /\ msgQ \in Seq(AgentMessages) /\ eventQ \in Seq(AgentEvents) /\ pc' = pc
  BY DEF LoopInv, LoopTypeOK, ChannelsTypeOK, agentVars
<1>1. agentOpen' = agentOpen
  BY DEF UiNext, UiLoop, UiKey, UiReceives, OnThinking, OnTextChunk, OnToolStart, OnToolResult,
     OnPermissionRequest, OnStatus, OnDone, OnError, OnEvolved, Receive, RenderFrame, Disconnected,
     PollEnds, ForceExit, MenuMoves, MenuEnter, CtrlC, Submit, CtrlD, SubmitExit, Typing, channelVars
<1>2. SUFFICES ASSUME uiOpen', pc = "asking"
      PROVE RequestsQueued' # {} \/ pending' # NoTool \/ \E i \in DOMAIN eventQ' : EndsTheWait(eventQ'[i])
  BY <1>0, <1>1 DEF AnswerableInv, QuestionIsOut
<1>3. uiOpen /\ (UiTakes \/ UiLeavesQueue)
  BY <1>2, UiSpinnerSteps DEF UiTakes, UiLeavesQueue
<1>4. RequestsQueued # {} \/ pending # NoTool \/ \E i \in DOMAIN eventQ : EndsTheWait(eventQ[i])
  BY <1>2, <1>3 DEF AnswerableInv, QuestionIsOut
<1>5. CASE OnPermissionRequest
  <2>1. pending' = Head(msgQ).tool /\ msgQ # <<>> /\ IsRequest(Head(msgQ))
    BY <1>5 DEF OnPermissionRequest, Receive, IsRequest
  <2>2. 1 \in DOMAIN msgQ /\ Head(msgQ) = msgQ[1]
    BY <1>0, <2>1, EmptySeq, LenProperties
  <2>3. QED BY <2>1, <2>2, ProtocolAssumption DEF PromptInv, RequestsNameTools
<1>6. CASE MenuEnter
  <2>1. PICK answer \in Answers : SendEvent(Response(answer))
    BY <1>6 DEF MenuEnter, PromptInv, PromptsArePending
  <2>2. Response(answer) \in AgentEvents /\ EndsTheWait(Response(answer))
    BY DEF Response, AgentEvents, EventTypes, EndsTheWait
  <2>3. eventQ' = Append(eventQ, Response(answer))
    BY <1>2, <2>1 DEF SendEvent, AnswerableInv
  <2>4. Len(eventQ) + 1 \in DOMAIN eventQ' /\ eventQ'[Len(eventQ) + 1] = Response(answer)
    BY <1>0, <2>2, <2>3, AppendProperties, LenProperties
  <2>5. QED BY <2>2, <2>4
<1>7. CASE ~OnPermissionRequest /\ ~MenuEnter
  <2>1. pending' = pending
    BY <1>7, UiKeepsPrompts DEF PromptInv
  <2>2. eventQ' = eventQ \/ \E e \in AgentEvents : eventQ' = Append(eventQ, e)
    <3>1. \A type \in EventTypes : Event(type) \in AgentEvents
      BY DEF Event, AgentEvents, Answers
    <3>2. CASE CtrlC \/ Submit \/ CtrlD \/ SubmitExit
      BY <3>1, <3>2 DEF CtrlC, Submit, CtrlD, SubmitExit, Typing, SendEvent, EventTypes
    <3>3. CASE UiLoop \/ ForceExit \/ MenuMoves
      BY <1>7, <3>3 DEF UiLoop, UiReceives, OnThinking, OnTextChunk, OnToolStart, OnToolResult,
         OnStatus, OnDone, OnError, OnEvolved, Receive, RenderFrame, Disconnected, PollEnds,
         ForceExit, MenuMoves, channelVars
    <3>4. QED BY <1>7, <3>2, <3>3 DEF UiNext, UiKey
  <2>3. ASSUME NEW i \in DOMAIN eventQ, EndsTheWait(eventQ[i])
        PROVE  i \in DOMAIN eventQ' /\ EndsTheWait(eventQ'[i])
    BY <1>0, <2>2, <2>3, AppendProperties, LenProperties
  <2>4. ASSUME NEW i \in DOMAIN msgQ, msgQ[i].type = "PermissionRequest" PROVE RequestsQueued' # {}
    <3>1. CASE UiLeavesQueue
      BY <2>4, <3>1 DEF UiLeavesQueue, RequestsQueued
    <3>2. CASE UiTakes
      <4>1. /\ msgQ # <<>> /\ msgQ' = Tail(msgQ)
            /\ DOMAIN msgQ = 1..Len(msgQ) /\ DOMAIN Tail(msgQ) = 1..(Len(msgQ) - 1)
            /\ Len(msgQ) \in Nat /\ Head(msgQ) = msgQ[1] /\ Len(Tail(msgQ)) = Len(msgQ) - 1
            /\ \A k \in 1..(Len(msgQ) - 1) : Tail(msgQ)[k] = msgQ[k + 1]
        BY <1>0, <3>2, EmptySeq, LenProperties, HeadTailProperties DEF UiTakes
      <4>2. Head(msgQ).type # "PermissionRequest"
        <5>1. (UiReceives /\ ~OnEvolved) \/ msgQ' = msgQ \/ ~uiOpen'
          BY UiSpinnerSteps DEF UiNext, UiLoop, UiKey, UiReceives, RenderFrame, PollEnds, MenuMoves,
             MenuEnter, CtrlC, Submit, CtrlD, SubmitExit, Typing, channelVars, OnEvolved, Disconnected,
             ForceExit, Leave
        <5>2. msgQ' # msgQ
          <6>1. Len(msgQ) \in Nat /\ Len(Tail(msgQ)) = Len(msgQ) - 1 /\ msgQ' = Tail(msgQ)
            BY <4>1
          <6>2. Len(Tail(msgQ)) # Len(msgQ)
            BY <6>1
          <6>3. QED BY <6>1, <6>2
        <5>3. QED
          BY <1>2, <1>7, <5>1, <5>2 DEF UiReceives, OnThinking, OnTextChunk, OnToolStart,
             OnToolResult, OnStatus, OnDone, OnError, Receive
      <4>3. i \in 1..Len(msgQ) /\ i # 1
        BY <2>4, <4>1, <4>2
      <4>4. i - 1 \in 1..(Len(msgQ) - 1) /\ (i - 1) + 1 = i
        BY <4>1, <4>3
      <4>5. i - 1 \in RequestsQueued'
        BY <2>4, <4>1, <4>4 DEF RequestsQueued
      <4>6. QED BY <4>5
    <3>3. QED BY <1>3, <3>1, <3>2
  <2>5. QED BY <1>4, <2>1, <2>3, <2>4 DEF RequestsQueued
<1>8. QED BY <1>5, <1>6, <1>7

LEMMA AnswerableInvNext ==
  ASSUME LoopInv, UiRunsInv, PromptInv, AnswerableInv, [Next]_vars PROVE AnswerableInv'
<1>1. CASE UNCHANGED vars
  BY <1>1 DEF vars, uiVars, channelVars, agentVars, AnswerableInv, QuestionIsOut, RequestsQueued
<1>2. QED BY <1>1, AgentCanBeAnswered, UiCanBeAnswered DEF Next

LEMMA AnswerableInvInit == Init => AnswerableInv
  BY DEF Init, ChannelsInit, AgentInit, UiInit, AnswerableInv, QuestionIsOut

LEMMA OneQuestionCounted ==
  ASSUME QuestionInv, AnswerableInv, uiOpen, agentOpen, interrupts = 0
  PROVE  Cardinality(RequestsQueued) + Cardinality(ResponsesQueued)
           + (IF pending # NoTool THEN 1 ELSE 0)
         = (IF pc = "asking" THEN 1 ELSE 0)
<1>1. OneQuestion
  BY DEF QuestionInv, CalmInv
<1>2. CASE pc # "asking"
  <2>1. RequestsQueued = {} /\ ResponsesQueued = {} /\ pending = NoTool
    BY <1>1, <1>2 DEF OneQuestion, Quiet, NoRequest, NoResponse, NoPrompt, IsRequest, IsResponse,
                      RequestsQueued, ResponsesQueued
  <2>2. QED BY <1>2, <2>1, FS_EmptySet
<1>3. CASE pc = "asking"
  <2>1. Requested /\ Prompted /\ Answered /\ NoInterrupt
    BY <1>1, <1>3 DEF OneQuestion
  <2>2. /\ \A i, j \in RequestsQueued : i = j
        /\ \A i, j \in ResponsesQueued : i = j
    BY <2>1 DEF Requested, Answered, RequestsQueued, ResponsesQueued, IsRequest, IsResponse
  <2>3. /\ RequestsQueued # {} => pending = NoTool /\ ResponsesQueued = {}
        /\ pending # NoTool => ResponsesQueued = {}
    BY <2>1 DEF Requested, Prompted, NoPrompt, NoResponse, RequestsQueued, ResponsesQueued,
                IsRequest, IsResponse
  <2>4. RequestsQueued # {} \/ pending # NoTool \/ ResponsesQueued # {}
    BY <1>3, <2>1 DEF AnswerableInv, QuestionIsOut, EndsTheWait, NoInterrupt, ResponsesQueued
  <2>5. /\ Cardinality(RequestsQueued) = IF RequestsQueued = {} THEN 0 ELSE 1
        /\ Cardinality(ResponsesQueued) = IF ResponsesQueued = {} THEN 0 ELSE 1
    BY <2>2, CountAtMostOne
  <2>6. QED BY <1>3, <2>3, <2>4, <2>5
<1>4. QED BY <1>2, <1>3

LEMMA OneQuestionIsOut ==
  QuestionInv /\ AnswerableInv /\ PromptInv => OneQuestionOut
  BY OneQuestionCounted, MenuIsPending DEF OneQuestionOut

-----------------------------------------------------------------------------
(***************************************************************************)
(* The tools that run.  At most one does, if no reply uses Agent twice;    *)
(* its ToolStart and its ToolEnd or ToolError go out in turn, so the       *)
(* blocks are right once the last of them is taken.                        *)
(***************************************************************************)
(* A reply with several Agent uses has them run side by side.              *)
OneAgentUse ==
    \A reply \in Replies : \A i, j \in DOMAIN reply.uses :
        reply.uses[i] = AgentTool /\ reply.uses[j] = AgentTool => i = j

(* The uses that are started and not yet reported.                         *)
Active == With("running") \cup With("finished")

ActiveInv ==
    /\ \A i, j \in DOMAIN uses : uses[i] = AgentTool /\ uses[j] = AgentTool => i = j
    /\ pc \notin {"tools", "asking", "executing"} => status = <<>>
    /\ \A i \in DOMAIN status : status[i] \in {"approved", "refused"} => uses[i] = AgentTool
    /\ pc = "asking" => Active = {} /\ status[current] = "todo"
    /\ pc = "executing" => Active = {current} /\ uses[current] # AgentTool
    /\ pc = "tools" => \A i \in Active : \A j \in DOMAIN status : j # i => status[j] = "answered"

(* What a step of the agent lets the UI know of its tools.                 *)
Quietly(ms) == ms \in Seq(AgentMessages) /\ \A i \in DOMAIN ms : ms[i].type \notin ToolTypes
ShowsNothing == Active' = Active /\ (msgQ' = msgQ \/ \E ms : Quietly(ms) /\ Send(ms))
ShowsStart ==
    \E i \in Nat \ {0} : Active = {} /\ Active' = {i} /\ Send(<<ToolMsg("ToolStart", i)>>)
ShowsEnd ==
    \E i \in Nat \ {0} : \E type \in {"ToolEnd", "ToolError"} :
        Active' = {} /\ Send(<<ToolMsg(type, i)>>)
Shows == ShowsNothing \/ ShowsStart \/ ShowsEnd

LEMMA QuietOne ==
  ASSUME NEW m \in AgentMessages, m.type \notin ToolTypes PROVE Quietly(<<m>>)
<1>1. <<m>> \in Seq(AgentMessages) /\ DOMAIN <<m>> = {1} /\ <<m>>[1] = m
  OBVIOUS
<1>2. QED BY <1>1 DEF Quietly

LEMMA QuietConcat ==
  ASSUME NEW s, Quietly(s), NEW t, Quietly(t) PROVE Quietly(s \o t)
<1>1. s \in Seq(AgentMessages) /\ t \in Seq(AgentMessages)
  BY DEF Quietly
<1>2. s \o t \in Seq(AgentMessages)
  BY <1>1, ConcatProperties
<1>3. QED BY <1>1, <1>2, ConcatAt DEF Quietly

LEMMA QuietTexts ==
    /\ Quietly(<<>>)
    /\ \A type \in PlainTypes : Quietly(<<Plain(type)>>)
    /\ \A kind \in ChunkKinds : Quietly(<<Chunk(kind)>>)
    /\ \A tool \in Tools : Quietly(<<Request(tool)>>)
    /\ Quietly(TurnEnd)
    /\ Quietly(TurnFailed)
<1>1. Quietly(<<>>)
  BY EmptySeq DEF Quietly
<1>2. ASSUME NEW type \in PlainTypes PROVE Quietly(<<Plain(type)>>)
  BY QuietOne, MessageTypes DEF Plain, ToolTypes, PlainTypes
<1>3. ASSUME NEW kind \in ChunkKinds PROVE Quietly(<<Chunk(kind)>>)
  BY QuietOne, MessageTypes DEF Chunk, ToolTypes
<1>4. ASSUME NEW tool \in Tools PROVE Quietly(<<Request(tool)>>)
  BY QuietOne, MessageTypes DEF Request, ToolTypes
<1>5. Quietly(TurnEnd) /\ Quietly(TurnFailed)
  <2>1. Quietly(<<Plain("Tokens")>>) /\ Quietly(<<Plain("Error")>>) /\ Quietly(<<Plain("Done")>>)
    BY <1>2 DEF PlainTypes
  <2>2. /\ TurnEnd = <<Plain("Tokens")>> \o <<Plain("Done")>>
        /\ TurnFailed = <<Plain("Error")>> \o <<Plain("Done")>>
    BY DEF TurnEnd, TurnFailed
  <2>3. QED BY <2>1, <2>2, QuietConcat
<1>6. QED BY <1>1, <1>2, <1>3, <1>4, <1>5

LEMMA NextRoundQuietly ==
  ASSUME NEW ms, Quietly(ms), NextRound(ms)
  PROVE  (\E sent : Quietly(sent) /\ Send(sent)) /\ pc' \in {"streaming", "idle"}
<1>1. Quietly(ms \o TurnEnd)
  BY QuietConcat, QuietTexts
<1>2. QED BY <1>1 DEF NextRound

(* The end of a permission check, while no use is active.                  *)
LEMMA VerdictShows ==
  ASSUME LoopInv, ActiveInv, Active = {}, NEW i \in DOMAIN status, status[i] = "todo",
         Approve(i) \/ Refuse(i), uses' = uses
  PROVE  ActiveInv' /\ Shows
<1>0. /\ i \in Nat \ {0} /\ status \in [DOMAIN uses -> Statuses]
  <2>1. uses \in Seq(Tools) /\ status \in [DOMAIN uses -> Statuses]
    BY DEF LoopInv, LoopTypeOK, AgentTypeOK
  <2>2. QED BY <2>1, LenProperties
<1>1. \A s : status' = [status EXCEPT ![i] = s] =>
         /\ DOMAIN status' = DOMAIN status /\ status'[i] = s
         /\ \A j \in DOMAIN status : j # i => status'[j] = status[j]
         /\ Active' = IF s \in {"running", "finished"} THEN {i} ELSE {}
  BY <1>0 DEF Active, With
<1>2. CASE Refuse(i)
  <2>1. PICK s \in {"refused", "answered"} :
          status' = [status EXCEPT ![i] = s] /\ (s = "refused" => uses[i] = AgentTool)
    BY <1>2 DEF Refuse
  <2>2. Active' = {} /\ pc' = "tools"
    BY <1>1, <1>2, <2>1 DEF Refuse
  <2>3. ActiveInv'
    BY <1>1, <2>1, <2>2 DEF ActiveInv
  <2>4. Shows
    BY <1>0, <1>2, <2>2 DEF Refuse, Shows, ShowsNothing, ShowsEnd
  <2>5. QED BY <2>3, <2>4
<1>3. CASE Approve(i)
  <2>1. CASE uses[i] = AgentTool
    <3>1. status' = [status EXCEPT ![i] = "approved"] /\ pc' = "tools" /\ msgQ' = msgQ
      BY <1>3, <2>1 DEF Approve
    <3>2. Active' = {}
      BY <1>1, <3>1
    <3>3. ActiveInv'
      BY <1>1, <2>1, <3>1, <3>2 DEF ActiveInv
    <3>4. QED BY <3>1, <3>2, <3>3 DEF Shows, ShowsNothing
  <2>2. CASE uses[i] # AgentTool /\ uses[i] \in Registered
    <3>1. /\ status' = [status EXCEPT ![i] = "running"] /\ pc' = "executing" /\ current' = i
          /\ Send(<<ToolMsg("ToolStart", i)>>)
      BY <1>3, <2>2 DEF Approve
    <3>2. Active' = {i}
      BY <1>1, <3>1
    <3>3. ActiveInv'
      BY <1>1, <2>2, <3>1, <3>2 DEF ActiveInv
    <3>4. QED BY <1>0, <3>1, <3>2, <3>3 DEF Shows, ShowsStart
  <2>3. CASE uses[i] # AgentTool /\ uses[i] \notin Registered
    <3>1. /\ status' = [status EXCEPT ![i] = "answered"] /\ pc' = "tools"
          /\ Send(<<ToolMsg("ToolError", i)>>)
      BY <1>3, <2>3 DEF Approve
    <3>2. Active' = {}
      BY <1>1, <3>1
    <3>3. ActiveInv'
      BY <1>1, <3>1, <3>2 DEF ActiveInv
    <3>4. QED BY <1>0, <3>1, <3>2, <3>3 DEF Shows, ShowsEnd
  <2>4. QED BY <2>1, <2>2, <2>3
<1>4. QED BY <1>2, <1>3

(* A step between rounds has no uses in hand.                              *)
LEMMA RoundShows ==
  ASSUME LoopInv, ActiveInv, UNCHANGED <<uses, status>>, NEW ms, Quietly(ms),
         msgQ' = msgQ \/ Send(ms),
         pc \notin {"tools", "asking", "executing"}, pc' \notin {"tools", "asking", "executing"}
  PROVE  ActiveInv' /\ Shows
<1>1. Active' = Active
  BY DEF Active, With
<1>2. ActiveInv'
  BY DEF ActiveInv
<1>3. QED BY <1>1, <1>2 DEF Shows, ShowsNothing

(* Once every use is decided, the Agent use is launched, answered, ends or *)
(* is reported; all the others are answered by then.                       *)
LEMMA BatchShows ==
  ASSUME LoopInv, ActiveInv, NEW i \in DOMAIN status,
         LaunchAgent(i) \/ AnswerRefused(i) \/ AgentEnds(i) \/ ReportAgent(i)
  PROVE  ActiveInv' /\ Shows
<1>0. /\ i \in Nat \ {0} /\ status \in [DOMAIN uses -> Statuses]
      /\ pc = "tools" /\ pc' = pc /\ uses' = uses
  <2>1. uses \in Seq(Tools) /\ status \in [DOMAIN uses -> Statuses]
    BY DEF LoopInv, LoopTypeOK, AgentTypeOK
  <2>2. QED BY <2>1, LenProperties DEF LaunchAgent, AnswerRefused, AgentEnds, ReportAgent
<1>1. \A s : status' = [status EXCEPT ![i] = s] =>
         /\ DOMAIN status' = DOMAIN status /\ status'[i] = s
         /\ \A j \in DOMAIN status : j # i => status'[j] = status[j]
  BY <1>0
<1>2. \A j \in DOMAIN status :
         status[j] \in {"todo", "approved", "refused", "running", "finished", "answered"}
  BY <1>0 DEF Statuses
<1>3. \A k \in Active : \A j \in DOMAIN status : j # k => status[j] = "answered"
  BY <1>0 DEF ActiveInv
<1>4. CASE LaunchAgent(i)
  <2>1. status[i] = "approved" /\ \A j \in DOMAIN status : status[j] # "todo"
    BY <1>4 DEF LaunchAgent, First, With
  <2>2. Active = {}
    BY <1>3, <2>1 DEF Active, With
  <2>3. \A j \in DOMAIN status : j # i => status[j] = "answered"
    <3>1. \A j \in DOMAIN status : status[j] \in {"approved", "refused"} => j = i
      BY <1>0, <2>1 DEF ActiveInv
    <3>2. QED BY <1>2, <2>1, <2>2, <3>1 DEF Active, With
  <2>4. CASE AgentTool \in Registered
    <3>1. status' = [status EXCEPT ![i] = "running"] /\ Send(<<ToolMsg("ToolStart", i)>>)
      BY <1>4, <2>4 DEF LaunchAgent
    <3>2. Active' = {i}
      BY <1>1, <2>3, <3>1 DEF Active, With
    <3>3. ActiveInv'
      BY <1>0, <1>1, <2>3, <3>1, <3>2 DEF ActiveInv
    <3>4. QED BY <1>0, <2>2, <3>1, <3>2, <3>3 DEF Shows, ShowsStart
  <2>5. CASE AgentTool \notin Registered
    <3>1. status' = [status EXCEPT ![i] = "refused"] /\ msgQ' = msgQ
      BY <1>4, <2>5 DEF LaunchAgent
    <3>2. Active' = {}
      BY <1>1, <2>3, <3>1 DEF Active, With
    <3>3. ActiveInv'
      BY <1>0, <1>1, <2>1, <3>1, <3>2 DEF ActiveInv
    <3>4. QED BY <2>2, <3>1, <3>2, <3>3 DEF Shows, ShowsNothing
  <2>6. QED BY <2>4, <2>5
<1>5. CASE AnswerRefused(i)
  <2>1. status[i] = "refused"
    BY <1>5 DEF AnswerRefused, First, With
  <2>2. Active = {}
    BY <1>3, <2>1 DEF Active, With
  <2>3. status' = [status EXCEPT ![i] = "answered"] /\ Send(<<ToolMsg("ToolError", i)>>)
    BY <1>5 DEF AnswerRefused
  <2>4. Active' = {}
    BY <1>1, <2>2, <2>3 DEF Active, With
  <2>5. ActiveInv'
    BY <1>0, <1>1, <2>3, <2>4 DEF ActiveInv
  <2>6. QED BY <1>0, <2>3, <2>4, <2>5 DEF Shows, ShowsEnd
<1>6. CASE AgentEnds(i) \/ ReportAgent(i)
  <2>1. i \in Active
    BY <1>6 DEF AgentEnds, ReportAgent, First, Active
  <2>2. \A j \in DOMAIN status : j # i => status[j] = "answered"
    BY <1>3, <2>1
  <2>3. CASE AgentEnds(i)
    <3>1. status' = [status EXCEPT ![i] = "finished"] /\ msgQ' = msgQ
      BY <2>3 DEF AgentEnds, channelVars
    <3>2. Active' = {i} /\ Active = {i}
      BY <1>1, <2>1, <2>2, <3>1 DEF Active, With
    <3>3. ActiveInv'
      BY <1>0, <1>1, <2>2, <3>1, <3>2 DEF ActiveInv
    <3>4. QED BY <3>1, <3>2, <3>3 DEF Shows, ShowsNothing
  <2>4. CASE ReportAgent(i)
    <3>1. PICK type \in {"ToolEnd", "ToolError"} : Send(<<ToolMsg(type, i)>>)
      BY <2>4 DEF ReportAgent
    <3>2. status' = [status EXCEPT ![i] = "answered"]
      BY <2>4 DEF ReportAgent
    <3>3. Active' = {}
      BY <1>1, <2>2, <3>2 DEF Active, With
    <3>4. ActiveInv'
      BY <1>0, <1>1, <2>2, <3>2, <3>3 DEF ActiveInv
    <3>5. QED BY <1>0, <3>1, <3>3, <3>4 DEF Shows, ShowsEnd
  <2>5. QED BY <1>6, <2>3, <2>4
<1>7. QED BY <1>4, <1>5, <1>6

LEMMA AgentShows ==
  ASSUME OneAgentUse, LoopInv, ActiveInv, AgentNext PROVE ActiveInv' /\ Shows
<1>0. /\ uses \in Seq(Tools) /\ status \in [DOMAIN uses -> Statuses]
      /\ DOMAIN uses \subseteq Nat \ {0}
  <2>1. uses \in Seq(Tools) /\ status \in [DOMAIN uses -> Statuses]
    BY DEF LoopInv, LoopTypeOK, AgentTypeOK
  <2>2. QED BY <2>1, LenProperties
<1>n. \A i \in DOMAIN status : NextUse(i) => status[i] = "todo"
  BY DEF NextUse, First, Ordinary, With
<1>t. ASSUME pc = "tools", NEW i \in DOMAIN status, status[i] = "todo" PROVE Active = {}
  <2>1. \A k \in Active : i # k /\ k \in DOMAIN status
    BY <1>t DEF Active, With
  <2>2. QED BY <1>t, <2>1 DEF ActiveInv
<1>1. CASE AgentReceives
  BY <1>1, QuietTexts, RoundShows
  DEF AgentReceives, RecvInput, RecvQuit, RecvIgnored, RecvClosed, Return, agentVars, PlainTypes
<1>2. CASE Retrieve
  <2>1. PICK found \in BOOLEAN, overLimit \in BOOLEAN :
          LET sent == IF found THEN <<Plain("Status")>> ELSE <<>> IN
            IF overLimit /\ Len(messages') > 2 * KeepRecent
            THEN pc' = "compacting" /\ Send(sent)
            ELSE NextRound(sent)
    BY <1>2 DEF Retrieve
  <2> DEFINE sent == IF found THEN <<Plain("Status")>> ELSE <<>>
  <2>2. Quietly(sent)
    BY QuietTexts DEF PlainTypes
  <2> HIDE DEF sent
  <2>3. \/ pc' = "compacting" /\ Send(sent)
        \/ NextRound(sent)
    BY <2>1 DEF sent
  <2>4. (\E ms : Quietly(ms) /\ Send(ms)) /\ pc' \in {"compacting", "streaming", "idle"}
    BY <2>2, <2>3, NextRoundQuietly
  <2>5. QED BY <1>2, <2>4, RoundShows DEF Retrieve
<1>3. CASE Compact
  BY <1>3, NextRoundQuietly, QuietTexts, RoundShows DEF Compact
<1>4. CASE TurnFails
  BY <1>4, QuietTexts, RoundShows DEF TurnFails
<1>5. CASE StreamText
  <2>1. PICK kind \in ChunkKinds : Send(<<Chunk(kind)>>)
    BY <1>5 DEF StreamText
  <2>2. QED BY <1>5, <2>1, QuietTexts, RoundShows DEF StreamText, agentVars
<1>6. ASSUME NEW reply \in Replies, StreamEnds(reply) PROVE ActiveInv' /\ Shows
  <2>1. CASE EndsTurn(reply)
    BY <1>6, <2>1, QuietTexts, RoundShows DEF StreamEnds
  <2>2. CASE ~EndsTurn(reply)
    <3>1. /\ pc = "streaming" /\ pc' = "tools" /\ uses' = reply.uses /\ msgQ' = msgQ
          /\ status' = [i \in DOMAIN reply.uses |-> "todo"]
      BY <1>6, <2>2 DEF StreamEnds
    <3>2. status = <<>>
      BY <3>1 DEF ActiveInv
    <3>3. Active = {} /\ Active' = {}
      BY <3>1, <3>2 DEF Active, With
    <3>4. ActiveInv'
      BY <3>1, <3>3 DEF ActiveInv, OneAgentUse
    <3>5. QED BY <3>1, <3>3, <3>4 DEF Shows, ShowsNothing
  <2>3. QED BY <2>1, <2>2
<1>7. CASE AskEnds
  <2>0. pc = "asking" /\ Active = {} /\ status[current] = "todo" /\ current \in DOMAIN status
    BY <1>0, <1>7 DEF AskEnds, AnswerAllows, AnswerDenies, AskSwallows, AskClosed, ActiveInv, LoopInv
  <2>1. CASE AskSwallows
    <3>1. Active' = Active /\ ActiveInv' = ActiveInv /\ msgQ' = msgQ
      BY <2>1 DEF AskSwallows, agentVars, Active, With, ActiveInv
    <3>2. QED BY <3>1 DEF Shows, ShowsNothing
  <2>2. CASE ~AskSwallows
    <3>1. (Approve(current) \/ Refuse(current)) /\ uses' = uses
      BY <1>7, <2>2 DEF AskEnds, AnswerAllows, AnswerDenies, AskClosed
    <3>2. QED BY <2>0, <3>1, VerdictShows
  <2>3. QED BY <2>1, <2>2
<1>8. CASE ToolEnds
  <2>1. PICK type \in {"ToolEnd", "ToolError"} : Send(<<ToolMsg(type, current)>>)
    BY <1>8 DEF ToolEnds
  <2>2. /\ Active = {current} /\ current \in DOMAIN uses /\ uses' = uses /\ pc' = "tools"
        /\ status' = [status EXCEPT ![current] = "answered"]
    BY <1>8 DEF ToolEnds, ActiveInv, LoopInv
  <2>3. /\ DOMAIN status' = DOMAIN status /\ status'[current] = "answered"
        /\ \A j \in DOMAIN status : j # current => status'[j] = status[j]
    BY <1>0, <2>2
  <2>4. Active' = {}
    BY <2>2, <2>3 DEF Active, With
  <2>5. ActiveInv'
    BY <2>2, <2>3, <2>4 DEF ActiveInv
  <2>6. QED BY <1>0, <2>1, <2>2, <2>4, <2>5 DEF Shows, ShowsEnd
<1>9. ASSUME NEW i \in DOMAIN status, CheckAllowed(i) \/ CheckAuto(i) PROVE ActiveInv' /\ Shows
  <2>1. pc = "tools" /\ status[i] = "todo" /\ Approve(i) /\ uses' = uses
    BY <1>n, <1>9 DEF CheckAllowed, CheckAuto
  <2>2. QED BY <1>t, <2>1, VerdictShows
<1>10. ASSUME NEW i \in DOMAIN status, Ask(i) PROVE ActiveInv' /\ Shows
  <2>1. /\ pc = "tools" /\ status[i] = "todo" /\ pc' = "asking" /\ current' = i
        /\ uses' = uses /\ status' = status /\ Send(<<Request(uses[i])>>)
    BY <1>n, <1>10 DEF Ask
  <2>2. Active = {} /\ Active' = {}
    BY <1>t, <2>1 DEF Active, With
  <2>3. ActiveInv'
    BY <2>1, <2>2 DEF ActiveInv
  <2>4. uses[i] \in Tools
    BY <1>0, ElementOfSeq, LenProperties
  <2>5. QED BY <2>1, <2>2, <2>3, <2>4, QuietTexts DEF Shows, ShowsNothing
<1>11. CASE FinishRound
  <2>1. /\ status' = <<>> /\ uses' = <<>> /\ pc' \in {"streaming", "idle"}
        /\ \E ms : Quietly(ms) /\ Send(ms)
    BY <1>11, NextRoundQuietly, QuietTexts DEF FinishRound
  <2>2. Active = {}
    BY <1>11 DEF FinishRound, AllAnswered, Active, With
  <2>3. Active' = {}
    BY <2>1 DEF Active, With
  <2>4. ActiveInv'
    BY <2>1, <2>3 DEF ActiveInv
  <2>5. QED BY <2>1, <2>2, <2>3, <2>4 DEF Shows, ShowsNothing
<1>12. CASE Shutdown
  BY <1>12, QuietTexts, RoundShows
  DEF Shutdown, EvolveEnds, EvolveFails, CloseMcp, CloseLsp, Return, channelVars, PlainTypes
<1>13. QED
  BY <1>1, <1>2, <1>3, <1>4, <1>5, <1>6, <1>7, <1>8, <1>9, <1>10, <1>11, <1>12, BatchShows
  DEF AgentNext, RoundEnds, ToolStep

(***************************************************************************)
(* Once the messages q are taken, the blocks that now run the uses S will  *)
(* run the uses A.  A ToolStart comes only when nothing runs.              *)
(***************************************************************************)
ToolsAre(q, S, A) ==
    /\ \A n \in DOMAIN q : q[n].type \in ToolTypes => q[n].use # 0
    /\ \A n \in DOMAIN q : q[n].type = "ToolStart" =>
          /\ \A i \in DOMAIN q : IsLast(q, i, n, ToolTypes) => q[i].type # "ToolStart"
          /\ NoneBefore(q, n, ToolTypes) => S = {}
    /\ \A i \in DOMAIN q : IsLast(q, i, Len(q) + 1, ToolTypes) =>
          A = IF q[i].type = "ToolStart" THEN {q[i].use} ELSE {}
    /\ NoneBefore(q, Len(q) + 1, ToolTypes) => A = S

LEMMA ToolsQuiet ==
  ASSUME NEW q \in Seq(AgentMessages), NEW S, NEW A, ToolsAre(q, S, A), NEW ms, Quietly(ms)
  PROVE  ToolsAre(q \o ms, S, A)
<1> DEFINE r == q \o ms
<1>1. /\ Len(q) \in Nat /\ DOMAIN q = 1..Len(q)
      /\ Len(r) \in Nat /\ DOMAIN r = 1..Len(r) /\ Len(q) <= Len(r)
      /\ \A k \in DOMAIN q : k \in DOMAIN r /\ r[k] = q[k]
  BY ConcatProperties, LenProperties DEF Quietly
<1>2. \A k \in DOMAIN r : k \in DOMAIN q \/ r[k].type \notin ToolTypes
  BY ConcatAt DEF Quietly
<1> HIDE DEF r
<1>3. ASSUME NEW n \in DOMAIN q
      PROVE  /\ NoneBefore(r, n, ToolTypes) => NoneBefore(q, n, ToolTypes)
             /\ \A i \in DOMAIN r : IsLast(r, i, n, ToolTypes) => i \in DOMAIN q /\ IsLast(q, i, n, ToolTypes)
  BY <1>1, <1>2 DEF NoneBefore, IsLast
<1>4. /\ NoneBefore(r, Len(r) + 1, ToolTypes) => NoneBefore(q, Len(q) + 1, ToolTypes)
      /\ \A i \in DOMAIN r : IsLast(r, i, Len(r) + 1, ToolTypes) =>
            i \in DOMAIN q /\ IsLast(q, i, Len(q) + 1, ToolTypes)
  BY <1>1, <1>2 DEF NoneBefore, IsLast
<1>5. "ToolStart" \in ToolTypes
  BY DEF ToolTypes
<1>6. \A n \in DOMAIN r : r[n].type \in ToolTypes => r[n].use # 0
  BY <1>1, <1>2 DEF ToolsAre
<1>7. ASSUME NEW n \in DOMAIN r, r[n].type = "ToolStart"
      PROVE  /\ \A i \in DOMAIN r : IsLast(r, i, n, ToolTypes) => r[i].type # "ToolStart"
             /\ NoneBefore(r, n, ToolTypes) => S = {}
  <2>1. n \in DOMAIN q /\ q[n].type = "ToolStart"
    BY <1>1, <1>2, <1>5, <1>7
  <2>2. QED BY <1>1, <1>3, <2>1 DEF ToolsAre
<1>8. ASSUME NEW i \in DOMAIN r, IsLast(r, i, Len(r) + 1, ToolTypes)
      PROVE  A = IF r[i].type = "ToolStart" THEN {r[i].use} ELSE {}
  <2>1. i \in DOMAIN q /\ IsLast(q, i, Len(q) + 1, ToolTypes) /\ r[i] = q[i]
    BY <1>1, <1>4, <1>8
  <2>2. QED BY <2>1 DEF ToolsAre
<1>9. NoneBefore(r, Len(r) + 1, ToolTypes) => A = S
  BY <1>4 DEF ToolsAre
<1>10. QED BY <1>6, <1>7, <1>8, <1>9 DEF ToolsAre, r

LEMMA ToolsSent ==
  ASSUME NEW q \in Seq(AgentMessages), NEW S, NEW A, ToolsAre(q, S, A),
         NEW m \in AgentMessages, m.type \in ToolTypes, m.use # 0,
         m.type = "ToolStart" => A = {}
  PROVE  ToolsAre(Append(q, m), S, IF m.type = "ToolStart" THEN {m.use} ELSE {})
<1> DEFINE r == Append(q, m)
           B == IF m.type = "ToolStart" THEN {m.use} ELSE {}
           end == Len(q) + 1
<1>1. /\ Len(q) \in Nat /\ Len(r) = end
      /\ DOMAIN q = 1..Len(q) /\ DOMAIN r = 1..end
      /\ \A k \in DOMAIN q : r[k] = q[k]
      /\ r[end] = m
  BY AppendProperties, LenProperties
<1>2. /\ \A n \in 1..end : NoneBefore(r, n, ToolTypes) <=> NoneBefore(q, n, ToolTypes)
      /\ \A i \in Nat : \A n \in 1..end :
            IsLast(r, i, n, ToolTypes) <=> IsLast(q, i, n, ToolTypes)
      /\ ~NoneBefore(r, Len(r) + 1, ToolTypes)
      /\ \A i \in Nat : IsLast(r, i, Len(r) + 1, ToolTypes) => i = end
  BY LastOfAppend
<1> HIDE DEF r, B
<1>3. \A n \in DOMAIN r : n \in DOMAIN q \/ n = end
  BY <1>1
<1>4. \A n \in DOMAIN r : n \in 1..end /\ n \in Nat
  BY <1>1
<1>5. \A n \in DOMAIN r : r[n].type \in ToolTypes => r[n].use # 0
  BY <1>1, <1>3 DEF ToolsAre
<1>6. ASSUME NEW n \in DOMAIN r, r[n].type = "ToolStart",
             NEW i \in DOMAIN r, IsLast(r, i, n, ToolTypes)
      PROVE  r[i].type # "ToolStart"
  <2>1. IsLast(q, i, n, ToolTypes) /\ i \in DOMAIN q /\ r[i] = q[i]
    BY <1>1, <1>2, <1>4, <1>6 DEF IsLast
  <2>2. CASE n \in DOMAIN q
    BY <1>1, <1>6, <2>1, <2>2 DEF ToolsAre
  <2>3. CASE n = end
    BY <1>1, <1>6, <2>1, <2>3 DEF ToolsAre
  <2>4. QED BY <1>3, <2>2, <2>3
<1>7. ASSUME NEW n \in DOMAIN r, r[n].type = "ToolStart", NoneBefore(r, n, ToolTypes)
      PROVE  S = {}
  <2>1. NoneBefore(q, n, ToolTypes)
    BY <1>2, <1>4, <1>7
  <2>2. CASE n \in DOMAIN q
    BY <1>1, <1>7, <2>1, <2>2 DEF ToolsAre
  <2>3. CASE n = end
    BY <1>1, <1>7, <2>1, <2>3 DEF ToolsAre
  <2>4. QED BY <1>3, <2>2, <2>3
<1>8. ASSUME NEW i \in DOMAIN r, IsLast(r, i, Len(r) + 1, ToolTypes)
      PROVE  B = IF r[i].type = "ToolStart" THEN {r[i].use} ELSE {}
  BY <1>1, <1>2, <1>4, <1>8 DEF B
<1>9. QED BY <1>2, <1>5, <1>6, <1>7, <1>8 DEF ToolsAre, r, B

LEMMA ToolsTaken ==
  ASSUME NEW q \in Seq(AgentMessages), q # <<>>, NEW S, NEW A, ToolsAre(q, S, A)
  PROVE  /\ Head(q).type \notin ToolTypes => ToolsAre(Tail(q), S, A)
         /\ Head(q).type = "ToolStart" =>
              S = {} /\ Head(q).use # 0 /\ ToolsAre(Tail(q), {Head(q).use}, A)
         /\ Head(q).type \in {"ToolEnd", "ToolError"} =>
              Head(q).use # 0 /\ ToolsAre(Tail(q), {}, A)
<1> DEFINE t == Tail(q)
           T == IF Head(q).type \notin ToolTypes THEN S
                ELSE IF Head(q).type = "ToolStart" THEN {Head(q).use} ELSE {}
<1>1. /\ Len(q) \in Nat /\ Len(q) >= 1 /\ Len(t) + 1 = Len(q) /\ Head(q) = q[1]
      /\ DOMAIN q = 1..Len(q) /\ DOMAIN t = 1..(Len(q) - 1)
      /\ \A k \in 1..(Len(q) - 1) : t[k] = q[k + 1]
  BY HeadTailProperties, LenProperties, EmptySeq
<1>2. /\ \A n \in 1..Len(q) :
           /\ NoneBefore(t, n, ToolTypes) =>
                \/ Head(q).type \notin ToolTypes /\ NoneBefore(q, n + 1, ToolTypes)
                \/ Head(q).type \in ToolTypes /\ IsLast(q, 1, n + 1, ToolTypes)
           /\ \A i \in Nat : IsLast(t, i, n, ToolTypes) =>
                IsLast(q, i + 1, n + 1, ToolTypes) /\ q[i + 1] = t[i]
  BY LastOfTail
<1> HIDE DEF t, T
<1>3. /\ \A n \in DOMAIN t : n \in Nat /\ n \in 1..Len(q) /\ n + 1 \in DOMAIN q /\ t[n] = q[n + 1]
      /\ Len(q) \in 1..Len(q) /\ 1 \in DOMAIN q
  BY <1>1
<1>4. "ToolStart" \in ToolTypes
  BY DEF ToolTypes
<1>5. \A n \in DOMAIN t : t[n].type \in ToolTypes => t[n].use # 0
  BY <1>3 DEF ToolsAre
<1>6. ASSUME NEW n \in DOMAIN t, t[n].type = "ToolStart"
      PROVE  /\ \A i \in DOMAIN t : IsLast(t, i, n, ToolTypes) => t[i].type # "ToolStart"
             /\ NoneBefore(t, n, ToolTypes) => T = {}
  <2>1. n + 1 \in DOMAIN q /\ q[n + 1].type = "ToolStart"
    BY <1>3, <1>6
  <2>2. ASSUME NEW i \in DOMAIN t, IsLast(t, i, n, ToolTypes) PROVE t[i].type # "ToolStart"
    <3>1. IsLast(q, i + 1, n + 1, ToolTypes) /\ i + 1 \in DOMAIN q /\ q[i + 1] = t[i]
      BY <1>2, <1>3, <2>2
    <3>2. QED BY <2>1, <3>1 DEF ToolsAre
  <2>3. ASSUME NoneBefore(t, n, ToolTypes) PROVE T = {}
    <3>1. CASE Head(q).type \notin ToolTypes
      <4>1. NoneBefore(q, n + 1, ToolTypes)
        BY <1>2, <1>3, <2>3, <3>1
      <4>2. QED BY <2>1, <3>1, <4>1 DEF ToolsAre, T
    <3>2. CASE Head(q).type \in ToolTypes
      <4>1. IsLast(q, 1, n + 1, ToolTypes)
        BY <1>2, <1>3, <2>3, <3>2
      <4>2. q[1].type # "ToolStart"
        BY <1>3, <2>1, <4>1 DEF ToolsAre
      <4>3. QED BY <1>1, <3>2, <4>2 DEF T
    <3>3. QED BY <3>1, <3>2
  <2>4. QED BY <2>2, <2>3
<1>7. ASSUME NEW i \in DOMAIN t, IsLast(t, i, Len(t) + 1, ToolTypes)
      PROVE  A = IF t[i].type = "ToolStart" THEN {t[i].use} ELSE {}
  <2>1. IsLast(q, i + 1, Len(q) + 1, ToolTypes) /\ q[i + 1] = t[i] /\ i + 1 \in DOMAIN q
    BY <1>1, <1>2, <1>3, <1>7
  <2>2. QED BY <2>1 DEF ToolsAre
<1>8. ASSUME NoneBefore(t, Len(t) + 1, ToolTypes) PROVE A = T
  <2>1. CASE Head(q).type \notin ToolTypes
    BY <1>1, <1>2, <1>3, <1>8, <2>1 DEF ToolsAre, T
  <2>2. CASE Head(q).type \in ToolTypes
    <3>1. IsLast(q, 1, Len(q) + 1, ToolTypes)
      BY <1>1, <1>2, <1>3, <1>8, <2>2
    <3>2. QED BY <1>1, <1>3, <2>2, <3>1 DEF ToolsAre, T
  <2>3. QED BY <2>1, <2>2
<1>9. ToolsAre(t, T, A)
  BY <1>5, <1>6, <1>7, <1>8 DEF ToolsAre
<1>10. Head(q).type = "ToolStart" => S = {}
  <2>1. NoneBefore(q, 1, ToolTypes)
    BY <1>1 DEF NoneBefore
  <2>2. QED BY <1>1, <1>3, <2>1 DEF ToolsAre
<1>11. Head(q).type \in ToolTypes => Head(q).use # 0
  BY <1>1, <1>3 DEF ToolsAre
<1>12. "ToolEnd" \in ToolTypes /\ "ToolError" \in ToolTypes
  BY DEF ToolTypes
<1>13. QED
  <2>1. Head(q).type \notin ToolTypes => T = S
    BY DEF T
  <2>2. Head(q).type = "ToolStart" => T = {Head(q).use}
    BY <1>4 DEF T
  <2>3. Head(q).type \in {"ToolEnd", "ToolError"} => T = {}
    BY <1>12 DEF T
  <2>4. QED BY <1>4, <1>9, <1>10, <1>11, <1>12, <2>1, <2>2, <2>3 DEF t

(* The uses whose blocks run.                                              *)
Shown == {blocks[i].use : i \in RunningTools}

OneRuns ==
    /\ \A i, j \in RunningTools : i = j
    /\ \A i \in RunningTools : blocks[i].state = "Live"
RunningInv == OneRuns /\ (uiOpen => ToolsAre(msgQ, Shown, Active))

(* The blocks that run stay as they are where they are ...                 *)
LEMMA RunningUntouched ==
  ASSUME RunningTools' = RunningTools, \A i \in RunningTools : blocks'[i] = blocks[i], OneRuns
  PROVE  OneRuns' /\ Shown' = Shown
<1>1. OneRuns'
  BY DEF OneRuns
<1>2. Shown' \subseteq Shown /\ Shown \subseteq Shown'
  BY DEF Shown
<1>3. QED BY <1>1, <1>2

(* ... or move up when others are removed.                                 *)
LEMMA RunningKept ==
  ASSUME blocks \in Seq(Blocks), NEW I \in SUBSET DOMAIN blocks, RunningTools \subseteq I,
         blocks' = Keep(blocks, I), OneRuns
  PROVE  OneRuns' /\ Shown' = Shown
<1>1. PICK f \in [DOMAIN blocks' -> I] :
              /\ \A j \in DOMAIN blocks' : blocks'[j] = blocks[f[j]]
              /\ \A j, k \in DOMAIN blocks' : f[j] = f[k] => j = k
              /\ \A i \in I : \E j \in DOMAIN blocks' : f[j] = i
  BY BlocksKept
<1>2. ASSUME NEW j \in RunningTools' PROVE j \in DOMAIN blocks' /\ f[j] \in RunningTools
  <2>1. j \in DOMAIN blocks' /\ blocks'[j].kind = "tool" /\ blocks'[j].result = 0
    BY <1>2 DEF RunningTools
  <2>2. f[j] \in DOMAIN blocks /\ blocks'[j] = blocks[f[j]]
    BY <1>1, <2>1
  <2>3. QED BY <2>1, <2>2 DEF RunningTools
<1>3. ASSUME NEW i \in RunningTools PROVE \E j \in RunningTools' : f[j] = i
  <2>1. PICK j \in DOMAIN blocks' : f[j] = i
    BY <1>1
  <2>2. j \in RunningTools'
    BY <1>1, <1>3, <2>1 DEF RunningTools
  <2>3. QED BY <2>1, <2>2
<1>4. \A j \in RunningTools' : blocks'[j] = blocks[f[j]]
  BY <1>1, <1>2
<1>5. OneRuns'
  <2>1. \A j, k \in RunningTools' : j = k
    BY <1>1, <1>2 DEF OneRuns
  <2>2. \A j \in RunningTools' : blocks'[j].state = "Live"
    BY <1>2, <1>4 DEF OneRuns
  <2>3. QED BY <2>1, <2>2 DEF OneRuns
<1>6. Shown' \subseteq Shown
  BY <1>2, <1>4 DEF Shown
<1>7. Shown \subseteq Shown'
  BY <1>3, <1>4 DEF Shown
<1>8. QED BY <1>5, <1>6, <1>7

(* What a step of the UI does to the blocks that run.                      *)
ShownStays == OneRuns' /\ Shown' = Shown

LEMMA UiShowsText ==
  ASSUME blocks \in Seq(Blocks), OneRuns, OnlyTextDiffers(blocks, blocks') PROVE ShownStays
<1>1. RunningTools \subseteq Others(blocks) /\ RunningTools' \subseteq Others(blocks')
  BY DEF RunningTools, Others
<1>2. RunningTools' = RunningTools /\ \A i \in RunningTools : blocks'[i] = blocks[i]
  BY <1>1 DEF OnlyTextDiffers, RunningTools, Others
<1>3. QED BY <1>2, RunningUntouched DEF ShownStays

LEMMA UiKeepsRunning ==
  ASSUME LoopInv, PromptInv, OneRuns, UiNext, ~OnToolStart, ~OnToolResult PROVE ShownStays
<1>0. blocks \in Seq(Blocks) /\ (msgQ # <<>> => Head(msgQ) \in AgentMessages)
  <2>1. blocks \in Seq(Blocks) /\ msgQ \in Seq(AgentMessages)
    BY DEF PromptInv, UiTypeOK, LoopInv, LoopTypeOK, ChannelsTypeOK
  <2>2. QED BY <2>1, HeadTailProperties
<1>1. ASSUME blocks' = blocks PROVE ShownStays
  <2>1. RunningTools' = RunningTools
    BY <1>1 DEF RunningTools
  <2>2. QED BY <1>1, <2>1, RunningUntouched DEF ShownStays
<1>2. CASE OnTextChunk
  BY <1>0, <1>2, TextReplaced, UiShowsText DEF OnTextChunk
<1>3. CASE OnDone
  BY <1>0, <1>3, TextReplaced, UiShowsText DEF OnDone
<1>4. CASE OnPermissionRequest
  <2> DEFINE b == Prompt(Head(msgQ).tool)
  <2>1. b \in Blocks /\ b.kind = "prompt" /\ blocks' = Append(blocks, b)
    BY <1>0, <1>4, BlockTypes DEF OnPermissionRequest, Receive, AgentMessages, Prompt
  <2> HIDE DEF b
  <2>2. /\ DOMAIN blocks' = DOMAIN blocks \cup {Len(blocks) + 1}
        /\ \A i \in DOMAIN blocks : blocks'[i] = blocks[i]
        /\ blocks'[Len(blocks) + 1] = b
    BY <1>0, <2>1, AppendedBlock
  <2>3. RunningTools' = RunningTools /\ \A i \in RunningTools : blocks'[i] = blocks[i]
    BY <2>1, <2>2 DEF RunningTools
  <2>4. QED BY <2>3, RunningUntouched DEF ShownStays
<1>5. CASE RenderFrame
  <2> DEFINE I == {i \in DOMAIN blocks : blocks[i].state = "Live"}
  <2>1. I \in SUBSET DOMAIN blocks /\ RunningTools \subseteq I
    BY DEF OneRuns, RunningTools
  <2>2. blocks' = Keep(blocks, I)
    BY <1>5 DEF RenderFrame
  <2> HIDE DEF I
  <2>3. QED BY <1>0, <2>1, <2>2, RunningKept DEF ShownStays
<1>6. CASE MenuEnter
  <2> DEFINE I == DOMAIN blocks \ Prompts
  <2>1. I \in SUBSET DOMAIN blocks /\ RunningTools \subseteq I
    BY DEF RunningTools, Prompts
  <2>2. blocks' = Keep(blocks, I) \/ blocks' = blocks
    BY <1>6 DEF MenuEnter, WithoutPrompts
  <2> HIDE DEF I
  <2>3. QED BY <1>0, <1>1, <2>1, <2>2, RunningKept DEF ShownStays
<1>7. CASE MenuMoves
  <2>1. Prompts # {} /\ FirstPrompt \in DOMAIN blocks /\ blocks[FirstPrompt] \in Blocks
        /\ blocks[FirstPrompt].kind = "prompt"
    BY <1>0, <1>7, BlocksFound DEF MenuMoves, Prompts
  <2>2. \A s \in 0..2 : MoveUp(s) \in 0..2 /\ MoveDown(s) \in 0..2
    BY DEF MoveUp, MoveDown, Options
  <2>3. PICK move \in 0..2 : blocks' = [blocks EXCEPT ![FirstPrompt].selected = move]
    BY <1>7, <2>1, <2>2 DEF MenuMoves, Blocks
  <2>4. Moved(move) \in Blocks /\ Moved(move).kind = "prompt"
    BY <1>0, <2>1, BlockChanges DEF Moved, Blocks
  <2>5. /\ DOMAIN blocks' = DOMAIN blocks
        /\ blocks'[FirstPrompt] = Moved(move)
        /\ \A j \in DOMAIN blocks : j # FirstPrompt => blocks'[j] = blocks[j]
    BY <1>0, <2>1, <2>3, <2>4, BlockChanges, BlockReplaced
  <2>6. RunningTools' = RunningTools /\ \A i \in RunningTools : blocks'[i] = blocks[i]
    BY <2>1, <2>4, <2>5 DEF RunningTools
  <2>7. QED BY <2>6, RunningUntouched DEF ShownStays
<1>8. CASE OnThinking \/ OnStatus \/ OnError \/ OnEvolved \/ Disconnected \/ PollEnds
  BY <1>1, <1>8 DEF OnThinking, OnStatus, OnError, OnEvolved, Disconnected, PollEnds
<1>9. CASE ForceExit \/ CtrlC \/ Submit \/ CtrlD \/ SubmitExit
  BY <1>1, <1>9 DEF ForceExit, CtrlC, Submit, CtrlD, SubmitExit, Typing
<1>10. QED
  BY <1>2, <1>3, <1>4, <1>5, <1>6, <1>7, <1>8, <1>9 DEF UiNext, UiLoop, UiKey, UiReceives

(* A ToolStart adds the one block that runs ...                            *)
LEMMA UiStartsTool ==
  ASSUME LoopInv, PromptInv, Shown = {}, OnToolStart
  PROVE  OneRuns' /\ Shown' = {Head(msgQ).use}
<1> DEFINE b == ToolCall(Head(msgQ).use)
<1>0. blocks \in Seq(Blocks) /\ Head(msgQ) \in AgentMessages
  <2>1. blocks \in Seq(Blocks) /\ msgQ \in Seq(AgentMessages) /\ msgQ # <<>>
    BY DEF PromptInv, UiTypeOK, LoopInv, LoopTypeOK, ChannelsTypeOK, OnToolStart, Receive
  <2>2. QED BY <2>1, HeadTailProperties
<1>1. /\ b \in Blocks /\ b.kind = "tool" /\ b.result = 0 /\ b.state = "Live"
      /\ b.use = Head(msgQ).use /\ blocks' = Append(blocks, b)
  BY <1>0, BlockTypes DEF OnToolStart, AgentMessages, ToolCall
<1> HIDE DEF b
<1>2. /\ DOMAIN blocks' = DOMAIN blocks \cup {Len(blocks) + 1}
      /\ \A i \in DOMAIN blocks : blocks'[i] = blocks[i]
      /\ blocks'[Len(blocks) + 1] = b
  BY <1>0, <1>1, AppendedBlock
<1>3. RunningTools = {}
  BY DEF Shown
<1>4. RunningTools' = {Len(blocks) + 1}
  BY <1>1, <1>2, <1>3 DEF RunningTools
<1>5. QED BY <1>1, <1>2, <1>4 DEF OneRuns, Shown

(* ... and a ToolEnd or ToolError finishes it.                             *)
LEMMA UiEndsTool ==
  ASSUME LoopInv, PromptInv, OneRuns, OnToolResult, Head(msgQ).use # 0
  PROVE  OneRuns' /\ Shown' = {}
<1>0. blocks \in Seq(Blocks) /\ Head(msgQ).use \in Nat
  <2>1. blocks \in Seq(Blocks) /\ msgQ \in Seq(AgentMessages) /\ msgQ # <<>>
    BY DEF PromptInv, UiTypeOK, LoopInv, LoopTypeOK, ChannelsTypeOK, OnToolResult, Receive
  <2>2. Head(msgQ) \in AgentMessages
    BY <2>1, HeadTailProperties
  <2>3. QED BY <2>1, <2>2 DEF AgentMessages
<1>1. CASE RunningTools = {}
  <2>1. blocks' = blocks
    BY <1>1 DEF OnToolResult, FinishLastRunning
  <2>2. RunningTools' = {}
    BY <1>1, <2>1 DEF RunningTools
  <2>3. QED BY <2>2 DEF OneRuns, Shown
<1>2. CASE RunningTools # {}
  <2> DEFINE b == Finished(Head(msgQ).use)
  <2>1. LastRunning \in RunningTools /\ LastRunning \in DOMAIN blocks
        /\ blocks[LastRunning] \in Blocks
    BY <1>0, <1>2, BlocksFound DEF RunningTools
  <2>2. b \in Blocks /\ b.result # 0 /\ blocks' = [blocks EXCEPT ![LastRunning] = b]
    BY <1>0, <1>2, <2>1, BlockChanges DEF Finished, Blocks, OnToolResult
  <2> HIDE DEF b
  <2>3. /\ DOMAIN blocks' = DOMAIN blocks
        /\ blocks'[LastRunning] = b
        /\ \A j \in DOMAIN blocks : j # LastRunning => blocks'[j] = blocks[j]
    BY <1>0, <2>1, <2>2, BlockReplaced
  <2>4. RunningTools' = {}
    BY <2>1, <2>2, <2>3 DEF RunningTools, OneRuns
  <2>5. QED BY <2>4 DEF OneRuns, Shown
<1>3. QED BY <1>1, <1>2

LEMMA AgentShowsRunning ==
  ASSUME LoopInv, RunningInv, Shows, AgentNext, UNCHANGED uiVars PROVE RunningInv'
<1>0. /\ msgQ \in Seq(AgentMessages) /\ uiOpen' = uiOpen
      /\ OneRuns' /\ Shown' = Shown
  BY AgentLeavesUiEnds
  DEF LoopInv, LoopTypeOK, ChannelsTypeOK, uiVars, RunningInv, OneRuns, Shown, RunningTools
<1> SUFFICES ASSUME uiOpen PROVE ToolsAre(msgQ', Shown, Active')
  BY <1>0 DEF RunningInv
<1>1. ToolsAre(msgQ, Shown, Active)
  BY DEF RunningInv
<1>2. CASE ShowsNothing
  <2>1. CASE msgQ' = msgQ
    BY <1>1, <1>2, <2>1 DEF ShowsNothing
  <2>2. ASSUME NEW ms, Quietly(ms), Send(ms) PROVE ToolsAre(msgQ', Shown, Active')
    BY <1>0, <1>1, <1>2, <2>2, ToolsQuiet DEF ShowsNothing, Send
  <2>3. QED BY <1>2, <2>1, <2>2 DEF ShowsNothing
<1>3. ASSUME NEW i \in Nat \ {0}, NEW type \in ToolTypes, Send(<<ToolMsg(type, i)>>),
             type = "ToolStart" => Active = {},
             Active' = IF type = "ToolStart" THEN {i} ELSE {}
      PROVE  ToolsAre(msgQ', Shown, Active')
  <2> DEFINE m == ToolMsg(type, i)
  <2>1. m \in AgentMessages /\ m.type = type /\ m.use = i
    BY MessageTypes DEF ToolMsg
  <2>2. msgQ' = msgQ \o <<m>>
    BY <1>3 DEF Send
  <2> HIDE DEF m
  <2>3. msgQ' = Append(msgQ, m)
    BY <1>0, <2>1, <2>2, AppendAfterConcat
  <2>4. QED BY <1>0, <1>1, <1>3, <2>1, <2>3, ToolsSent
<1>4. CASE ShowsStart
  BY <1>3, <1>4 DEF ShowsStart, ToolTypes
<1>5. CASE ShowsEnd
  BY <1>3, <1>5 DEF ShowsEnd, ToolTypes
<1>6. QED BY <1>2, <1>4, <1>5 DEF Shows

LEMMA UiShowsRunning ==
  ASSUME LoopInv, UiRunsInv, PromptInv, RunningInv, UiNext, UNCHANGED agentVars PROVE RunningInv'
<1>0. msgQ \in Seq(AgentMessages) /\ Active' = Active /\ OneRuns
  BY DEF LoopInv, LoopTypeOK, ChannelsTypeOK, agentVars, Active, With, RunningInv
<1>1. CASE OnToolStart \/ OnToolResult
  <2>1. /\ msgQ # <<>> /\ msgQ' = Tail(msgQ) /\ uiOpen /\ uiOpen' = uiOpen
        /\ OnToolStart => Head(msgQ).type = "ToolStart"
        /\ OnToolResult => Head(msgQ).type \in {"ToolEnd", "ToolError"}
    BY <1>1 DEF OnToolStart, OnToolResult, Receive, Took, UiRunsInv
  <2>2. ToolsAre(msgQ, Shown, Active)
    BY <2>1 DEF RunningInv
  <2>3. CASE OnToolStart
    <3>1. Shown = {} /\ ToolsAre(Tail(msgQ), {Head(msgQ).use}, Active)
      BY <1>0, <2>1, <2>2, <2>3, ToolsTaken
    <3>2. OneRuns' /\ Shown' = {Head(msgQ).use}
      BY <2>3, <3>1, UiStartsTool
    <3>3. QED BY <1>0, <2>1, <3>1, <3>2 DEF RunningInv
  <2>4. CASE OnToolResult
    <3>1. Head(msgQ).use # 0 /\ ToolsAre(Tail(msgQ), {}, Active)
      BY <1>0, <2>1, <2>2, <2>4, ToolsTaken
    <3>2. OneRuns' /\ Shown' = {}
      BY <1>0, <2>4, <3>1, UiEndsTool
    <3>3. QED BY <1>0, <2>1, <3>1, <3>2 DEF RunningInv
  <2>5. QED BY <1>1, <2>3, <2>4
<1>2. CASE ~OnToolStart /\ ~OnToolResult
  <2>1. OneRuns' /\ Shown' = Shown
    BY <1>0, <1>2, UiKeepsRunning DEF ShownStays
  <2>2. SUFFICES ASSUME uiOpen' PROVE ToolsAre(msgQ', Shown, Active)
    BY <1>0, <2>1 DEF RunningInv
  <2>3. uiOpen /\ (UiTakes \/ UiLeavesQueue)
    BY <2>2, UiSpinnerSteps DEF UiTakes, UiLeavesQueue
  <2>4. ToolsAre(msgQ, Shown, Active)
    BY <2>3 DEF RunningInv
  <2>5. CASE msgQ' = msgQ
    BY <2>4, <2>5
  <2>6. CASE msgQ' # msgQ
    <3>1. UiTakes
      BY <2>3, <2>6 DEF UiLeavesQueue
    <3>2. UiReceives /\ ~OnEvolved
      BY <2>2, <2>6 DEF UiNext, UiLoop, UiKey, UiReceives, RenderFrame, PollEnds, MenuMoves,
         MenuEnter, CtrlC, Submit, CtrlD, SubmitExit, Typing, channelVars, OnEvolved, Disconnected,
         ForceExit, Leave
    <3>3. Head(msgQ).type \notin ToolTypes
      BY <1>2, <3>2 DEF UiReceives, OnThinking, OnTextChunk, OnPermissionRequest, OnStatus, OnDone,
         OnError, Receive, ToolTypes
    <3>4. QED BY <1>0, <2>4, <3>1, <3>3, ToolsTaken DEF UiTakes
  <2>7. QED BY <2>5, <2>6
<1>3. QED BY <1>1, <1>2

LEMMA RunningInvNext ==
  ASSUME OneAgentUse, LoopInv, UiRunsInv, PromptInv, ActiveInv, RunningInv, [Next]_vars
  PROVE  ActiveInv' /\ RunningInv'
<1>1. CASE AgentNext /\ UNCHANGED uiVars
  BY <1>1, AgentShows, AgentShowsRunning
<1>2. CASE UiNext /\ UNCHANGED agentVars
  <2>1. ActiveInv' = ActiveInv
    BY <1>2 DEF agentVars, ActiveInv, Active, With
  <2>2. QED BY <1>2, <2>1, UiShowsRunning
<1>3. CASE UNCHANGED vars
  BY <1>3 DEF vars, uiVars, channelVars, agentVars, ActiveInv, RunningInv, OneRuns, Shown,
              RunningTools, Active, With
<1>4. QED BY <1>1, <1>2, <1>3 DEF Next

LEMMA RunningInvInit == Init => ActiveInv /\ RunningInv
<1> SUFFICES ASSUME Init PROVE ActiveInv /\ RunningInv
  OBVIOUS
<1>1. /\ pc = "idle" /\ uses = <<>> /\ status = <<>> /\ blocks = <<>> /\ msgQ = <<>>
  BY DEF Init, ChannelsInit, AgentInit, UiInit
<1>2. RunningTools = {} /\ Active = {}
  BY <1>1 DEF RunningTools, Active, With
<1>3. ActiveInv
  BY <1>1, <1>2 DEF ActiveInv
<1>4. ToolsAre(<<>>, {}, {})
  BY DEF ToolsAre
<1>5. Shown = {}
  BY <1>2 DEF Shown
<1>6. QED BY <1>1, <1>2, <1>3, <1>4, <1>5 DEF RunningInv, OneRuns

LEMMA RunningIsShown == RunningInv => RunningBlocksMatchAgent
<1> SUFFICES ASSUME RunningInv, uiOpen, msgQ = <<>> PROVE Shown = Active
  BY DEF RunningBlocksMatchAgent, Shown, Active
<1>1. NoneBefore(<<>>, Len(<<>>) + 1, ToolTypes)
  BY DEF NoneBefore
<1>2. QED BY <1>1 DEF RunningInv, ToolsAre

-----------------------------------------------------------------------------
LEMMA ScreenInvariants ==
  Spec => [](LoopInv /\ UiRunsInv /\ QuestionInv /\ PromptInv /\ AnswerableInv /\ SpinnerInv)
<1>1. Spec => []LoopInv
  BY VivIsAgentLoop, LoopInvInit, LoopInvNext, PTL DEF IsAgentLoop, LoopSpec
<1>2. Spec => []UiRunsInv
  BY InitIsLoopInit, StepIsLoopStep, PTL DEF Spec
<1>3. Spec => []QuestionInv
  BY <1>1, <1>2, QuestionInvInit, QuestionInvNext, PTL DEF Spec
<1>4. Spec => []PromptInv
  BY <1>1, <1>2, <1>3, PromptInvInit, PromptInvNext, PTL DEF Spec
<1>5. Spec => []AnswerableInv
  BY <1>1, <1>2, <1>4, AnswerableInvInit, AnswerableInvNext, PTL DEF Spec
<1>6. Spec => []SpinnerInv
  BY <1>1, <1>2, SpinnerInvInit, SpinnerInvNext, PTL DEF Spec
<1>7. QED BY <1>1, <1>2, <1>3, <1>4, <1>5, <1>6, PTL

(* terminal.rs, session.rs: every variable of the program keeps its type.  *)
THEOREM VivTypeCorrect == Spec => []TypeOK
<1>1. LoopInv /\ PromptInv => TypeOK
  BY DEF LoopInv, LoopTypeOK, PromptInv, TypeOK
<1>2. QED BY <1>1, ScreenInvariants, PTL

(* check_permission and the permission menu, in any program: at most one   *)
(* question is out until the first interrupt, exactly one while the agent  *)
(* waits; until the user quits, a waiting agent can still be answered; and *)
(* a UI that has taken every message shows a busy spinner exactly during a *)
(* turn.                                                                   *)
THEOREM VivQuestionsAndSpinner ==
  Spec => [](OneQuestionOut /\ QuestionIsAnswerable /\ BusyMatchesTurn)
<1>1. AnswerableInv => QuestionIsAnswerable
  BY DEF AnswerableInv, QuestionIsOut, QuestionIsAnswerable
<1>2. QED BY <1>1, OneQuestionIsOut, SpinnerTellsTheTruth, ScreenInvariants, PTL

(* on_agent_message: what the screen shows of the agent is so, the tools   *)
(* shown as running included, for a model whose replies use Agent at most  *)
(* once.  With two of them finish_last_running_tool takes one result for   *)
(* the other's (ResultOnItsOwnCall), and this is not so.                   *)
THEOREM VivScreenMatchesAgent ==
  ASSUME OneAgentUse PROVE Spec => []ScreenMatchesAgent
<1>1. LoopInv /\ UiRunsInv /\ PromptInv /\ ActiveInv /\ RunningInv /\ [Next]_vars
        => ActiveInv' /\ RunningInv'
  BY RunningInvNext
<1>2. Spec => [](ActiveInv /\ RunningInv)
  BY <1>1, RunningInvInit, ScreenInvariants, PTL DEF Spec
<1>3. QED BY <1>2, RunningIsShown, VivQuestionsAndSpinner, PTL DEF ScreenMatchesAgent

-----------------------------------------------------------------------------
(***************************************************************************)
(* Streamed text: what the parser holds back is in a Live block, which no  *)
(* step but one that replaces it removes.                                  *)
(***************************************************************************)
TextInv == UiTypeOK /\ HeldTextIsShown

(* A Live text block that is not replaced stays, where it was or further   *)
(* up.                                                                     *)
LEMMA LiveTextStays ==
  ASSUME LoopInv, UiTypeOK, UiNext, ~OnTextChunk, ~OnDone, LiveMarkdown # {}
  PROVE  LiveMarkdown' # {}
<1>0. blocks \in Seq(Blocks) /\ (msgQ # <<>> => Head(msgQ) \in AgentMessages)
  <2>1. blocks \in Seq(Blocks) /\ msgQ \in Seq(AgentMessages)
    BY DEF UiTypeOK, LoopInv, LoopTypeOK, ChannelsTypeOK
  <2>2. QED BY <2>1, HeadTailProperties
<1>1. PICK i \in LiveMarkdown : TRUE
  OBVIOUS
<1>i. i \in DOMAIN blocks /\ blocks[i].kind = "markdown" /\ blocks[i].state = "Live"
  BY <1>1 DEF LiveMarkdown
<1>2. ASSUME i \in DOMAIN blocks', blocks'[i] = blocks[i] PROVE LiveMarkdown' # {}
  BY <1>i, <1>2 DEF LiveMarkdown
<1>3. ASSUME NEW b \in Blocks, blocks' = Append(blocks, b) PROVE LiveMarkdown' # {}
  <2>1. DOMAIN blocks' = DOMAIN blocks \cup {Len(blocks) + 1} /\ blocks'[i] = blocks[i]
    BY <1>0, <1>i, <1>3, AppendedBlock
  <2>2. QED BY <1>2, <1>i, <2>1
<1>4. ASSUME NEW k \in DOMAIN blocks, NEW b \in Blocks, blocks' = [blocks EXCEPT ![k] = b], k # i
      PROVE  LiveMarkdown' # {}
  BY <1>0, <1>2, <1>i, <1>4, BlockReplaced
<1>5. ASSUME NEW I \in SUBSET DOMAIN blocks, i \in I, blocks' = Keep(blocks, I)
      PROVE  LiveMarkdown' # {}
  <2>1. PICK f \in [DOMAIN blocks' -> I] :
              /\ \A j \in DOMAIN blocks' : blocks'[j] = blocks[f[j]]
              /\ \A k \in I : \E j \in DOMAIN blocks' : f[j] = k
    BY <1>0, <1>5, BlocksKept
  <2>2. PICK j \in DOMAIN blocks' : f[j] = i
    BY <1>5, <2>1
  <2>3. QED BY <1>i, <2>1, <2>2 DEF LiveMarkdown
<1>6. CASE OnToolStart
  <2>1. ToolCall(Head(msgQ).use) \in Blocks
    BY <1>0, <1>6, BlockTypes DEF OnToolStart, Receive, AgentMessages
  <2>2. QED BY <1>3, <1>6, <2>1 DEF OnToolStart
<1>7. CASE OnPermissionRequest
  <2>1. Prompt(Head(msgQ).tool) \in Blocks
    BY <1>0, <1>7, BlockTypes DEF OnPermissionRequest, Receive, AgentMessages
  <2>2. QED BY <1>3, <1>7, <2>1 DEF OnPermissionRequest
<1>8. CASE OnToolResult
  <2>1. Head(msgQ).use \in Nat /\ blocks' = FinishLastRunning(Head(msgQ).use)
    BY <1>0, <1>8 DEF OnToolResult, Receive, AgentMessages
  <2>2. CASE RunningTools = {}
    BY <1>2, <1>i, <2>1, <2>2 DEF FinishLastRunning
  <2>3. CASE RunningTools # {}
    <3>1. LastRunning \in DOMAIN blocks /\ LastRunning # i
      BY <1>0, <1>i, <2>3, BlocksFound DEF RunningTools
    <3>2. QED BY <1>0, <1>4, <2>1, <2>3, <3>1, BlockChanges
  <2>4. QED BY <2>2, <2>3
<1>9. CASE RenderFrame
  <2> DEFINE I == {k \in DOMAIN blocks : blocks[k].state = "Live"}
  <2>1. I \in SUBSET DOMAIN blocks /\ i \in I /\ blocks' = Keep(blocks, I)
    BY <1>9, <1>i DEF RenderFrame
  <2> HIDE DEF I
  <2>2. QED BY <1>5, <2>1
<1>10. CASE MenuEnter
  <2> DEFINE I == DOMAIN blocks \ Prompts
  <2>1. I \in SUBSET DOMAIN blocks /\ i \in I
    BY <1>i DEF Prompts
  <2>2. blocks' = Keep(blocks, I) \/ blocks' = blocks
    BY <1>10 DEF MenuEnter, WithoutPrompts
  <2> HIDE DEF I
  <2>3. QED BY <1>2, <1>5, <1>i, <2>1, <2>2
<1>11. CASE MenuMoves
  <2>1. Prompts # {} /\ FirstPrompt \in DOMAIN blocks /\ blocks[FirstPrompt] \in Blocks
        /\ FirstPrompt # i
    BY <1>0, <1>11, <1>i, BlocksFound DEF MenuMoves, Prompts
  <2>2. \A s \in 0..2 : MoveUp(s) \in 0..2 /\ MoveDown(s) \in 0..2
    BY DEF MoveUp, MoveDown, Options
  <2>3. PICK move \in 0..2 : blocks' = [blocks EXCEPT ![FirstPrompt].selected = move]
    BY <1>11, <2>1, <2>2 DEF MenuMoves, Blocks
  <2>4. QED BY <1>0, <1>4, <2>1, <2>3, BlockChanges
<1>12. CASE OnThinking \/ OnStatus \/ OnError \/ OnEvolved \/ Disconnected \/ PollEnds
  BY <1>2, <1>i, <1>12 DEF OnThinking, OnStatus, OnError, OnEvolved, Disconnected, PollEnds
<1>13. CASE ForceExit \/ CtrlC \/ Submit \/ CtrlD \/ SubmitExit
  BY <1>2, <1>i, <1>13 DEF ForceExit, CtrlC, Submit, CtrlD, SubmitExit, Typing
<1>14. QED
  BY <1>6, <1>7, <1>8, <1>9, <1>10, <1>11, <1>12, <1>13 DEF UiNext, UiLoop, UiKey, UiReceives

LEMMA UiStaysDone == ASSUME UiNext, uiPc' # "done" PROVE uiPc # "done"
  BY DEF UiNext, UiLoop, UiKey, UiReceives, OnThinking, OnTextChunk, OnToolStart, OnToolResult,
     OnPermissionRequest, OnStatus, OnDone, OnError, OnEvolved, Receive, RenderFrame, Disconnected,
     PollEnds, ForceExit, MenuMoves, MenuEnter, CtrlC, Submit, CtrlD, SubmitExit, Typing, Leave

LEMMA ParserMoves == ASSUME UiNext, ~OnTextChunk, ~OnDone PROVE parser' = parser
  BY DEF UiNext, UiLoop, UiKey, UiReceives, OnThinking, OnToolStart, OnToolResult,
     OnPermissionRequest, OnStatus, OnError, OnEvolved, RenderFrame, Disconnected,
     PollEnds, ForceExit, MenuMoves, MenuEnter, CtrlC, Submit, CtrlD, SubmitExit, Typing

LEMMA TextInvNext == ASSUME LoopInv, TextInv, [Next]_vars PROVE TextInv'
<1>0. UiTypeOK' /\ blocks \in Seq(Blocks)
  BY UiTypeNext DEF TextInv, UiTypeOK
<1>1. CASE OnTextChunk
  <2>1. SUFFICES ASSUME PeekPending(parser') PROVE LiveMarkdown' # {}
    BY <1>0 DEF TextInv, HeldTextIsShown
  <2> DEFINE kept == DropTrailingLive(blocks \o CommitBlocks(Completed(parser, Head(msgQ).chunk)))
  <2>2. blocks' = Append(kept, Markdown("Live"))
    BY <1>1, <2>1 DEF OnTextChunk
  <2>3. kept \in Seq(Blocks) /\ Markdown("Live") \in Blocks
    BY <1>0, TextReplaced, BlockTypes
  <2> HIDE DEF kept
  <2>4. Len(kept) + 1 \in DOMAIN blocks' /\ blocks'[Len(kept) + 1] = Markdown("Live")
    BY <2>2, <2>3, AppendedBlock
  <2>5. QED BY <2>4 DEF LiveMarkdown, Markdown
<1>2. CASE OnDone
  <2>1. ~PeekPending(parser')
    BY <1>2 DEF OnDone, AfterFlush, EmptyParser, PeekPending
  <2>2. QED BY <1>0, <2>1 DEF TextInv, HeldTextIsShown
<1>3. CASE UiNext /\ ~OnTextChunk /\ ~OnDone
  <2>1. parser' = parser /\ (uiPc' # "done" => uiPc # "done")
    BY <1>3, ParserMoves, UiStaysDone
  <2>2. LiveMarkdown # {} => LiveMarkdown' # {}
    BY <1>3, LiveTextStays DEF TextInv
  <2>3. QED BY <1>0, <2>1, <2>2 DEF TextInv, HeldTextIsShown
<1>4. CASE UNCHANGED uiVars
  BY <1>0, <1>4 DEF uiVars, TextInv, HeldTextIsShown, LiveMarkdown
<1>5. QED BY <1>1, <1>2, <1>3, <1>4 DEF Next, vars

LEMMA TextInvInit == Init => TextInv
  BY UiTypeInit DEF Init, UiInit, TextInv, HeldTextIsShown, PeekPending, EmptyParser

(* A block that is committed and not Live is not dropped with the text     *)
(* that is shown.                                                          *)
LEMMA CommittedStays ==
  ASSUME NEW bs \in Seq(Blocks)
  PROVE  LET cs == DropTrailingLive(bs \o CommitBlocks("markdown"))
             i  == Len(bs) + 1
         IN  i \in DOMAIN cs /\ cs[i].kind = "markdown" /\ cs[i].state = "Committing"
<1> DEFINE b == Markdown("Committing")
           ds == Append(bs, b)
<1>1. b \in Blocks /\ b.kind = "markdown" /\ b.state = "Committing"
  BY BlockTypes DEF Markdown
<1>2. bs \o CommitBlocks("markdown") = ds
  BY <1>1, AppendAfterConcat DEF CommitBlocks
<1> HIDE DEF b
<1>3. ds \in Seq(Blocks) /\ Len(ds) = Len(bs) + 1 /\ ds[Len(bs) + 1] = b /\ Len(bs) + 1 \in DOMAIN ds
  BY <1>1, AppendProperties, LenProperties
<1> HIDE DEF ds
<1>4. DropTrailingLive(ds) = ds
  BY <1>1, <1>3 DEF DropTrailingLive
<1>5. QED BY <1>1, <1>2, <1>3, <1>4

(* A held line of text is completed as text or taken for a fence.          *)
LEMMA HeldLineIsCompleted ==
  ASSUME NEW kind, parser \in ParserStates, HoldsText, EndsLine(kind), Line(parser, kind) # "fence"
  PROVE  Completed(parser, kind) = "markdown"
<1>1. Line(parser, kind) \in {"ticks", "text"}
  BY DEF Line, Piece, HoldsText
<1>2. QED BY <1>1 DEF Completed, HoldsText

LEMMA HeldLineIsFlushed ==
  ASSUME parser \in ParserStates, HoldsText PROVE Flushed(parser) = "markdown"
<1>1. EndsLine("newline") /\ Line(parser, "newline") # "fence"
  BY DEF EndsLine, Line, Piece, HoldsText
<1>2. Completed(parser, "newline") = "markdown"
  BY <1>1, HeldLineIsCompleted
<1>3. QED BY <1>2 DEF Flushed, HoldsText

LEMMA TextIsCommitted ==
  ASSUME TextInv, [Next]_vars, uiPc = "drain", HoldsText, LetsGo
  PROVE  CommittingMarkdown' \ DOMAIN blocks # {}
<1>0. blocks \in Seq(Blocks) /\ Len(blocks) + 1 \notin DOMAIN blocks /\ parser \in ParserStates
  BY LenProperties DEF TextInv, UiTypeOK
<1>1. ASSUME blocks' = DropTrailingLive(blocks \o CommitBlocks("markdown"))
      PROVE  CommittingMarkdown' \ DOMAIN blocks # {}
  <2>1. Len(blocks) + 1 \in CommittingMarkdown'
    BY <1>0, <1>1, CommittedStays DEF CommittingMarkdown
  <2>2. QED BY <1>0, <2>1
<1>2. CASE OnTextChunk
  <2> DEFINE kind == Head(msgQ).chunk
  <2>1. parser' = Push(parser, kind)
    BY <1>2 DEF OnTextChunk
  <2>2. EndsLine(kind)
    <3>1. SUFFICES ASSUME ~EndsLine(kind) PROVE parser'.buffer # "none"
      BY DEF LetsGo
    <3>2. parser'.buffer = Line(parser, kind)
      <4>1. parser' = [parser EXCEPT !.buffer = Line(parser, kind)]
        BY <2>1, <3>1, Zenon DEF Push
      <4>2. QED BY <1>0, <4>1 DEF ParserStates
    <3>3. QED BY <3>2 DEF Line, Piece, HoldsText
  <2>3. Line(parser, kind) # "fence"
    BY <2>1, <2>2 DEF Push, HoldsText, LetsGo
  <2>4. Completed(parser, kind) = "markdown"
    BY <1>0, <2>2, <2>3, HeldLineIsCompleted
  <2>5. parser'.buffer = "none" /\ ~parser'.fence /\ ~PeekPending(parser')
    BY DEF LetsGo, PeekPending
  <2>6. blocks' = DropTrailingLive(blocks \o CommitBlocks("markdown"))
    BY <1>2, <2>4, <2>5 DEF OnTextChunk
  <2>7. QED BY <1>1, <2>6
<1>3. CASE OnDone
  <2>1. Flushed(parser) = "markdown"
    BY <1>0, HeldLineIsFlushed
  <2>2. blocks' = DropTrailingLive(blocks \o CommitBlocks("markdown"))
    BY <1>3, <2>1 DEF OnDone
  <2>3. QED BY <1>1, <2>2
<1>4. parser' # parser
  BY DEF HoldsText, LetsGo
<1>5. ~(UiNext /\ ~OnTextChunk /\ ~OnDone)
  BY <1>4, ParserMoves
<1>6. ~(UNCHANGED uiVars)
  BY <1>4 DEF uiVars
<1>7. QED BY <1>2, <1>3, <1>5, <1>6 DEF Next, vars

(* on_agent_message and MarkdownParseBuffer: text that the parser holds    *)
(* back is on the screen until it is let go of, and outside a code fence   *)
(* it is let go of only with a new block that commits it, unless its line  *)
(* turned out to open a fence.                                             *)
THEOREM VivHeldTextIsKept == Spec => HeldTextIsKept
<1>1. Spec => []TextInv
  BY ScreenInvariants, TextInvInit, TextInvNext, PTL DEF Spec
<1>2. TextInv => HeldTextIsShown
  BY DEF TextInv
<1>3. TextInv /\ [Next]_vars
        => [uiPc = "drain" /\ HoldsText /\ LetsGo => CommittingMarkdown' \ DOMAIN blocks # {}]_vars
  BY TextIsCommitted
<1>4. QED BY <1>1, <1>2, <1>3, PTL DEF Spec, HeldTextIsKept, HeldTextIsCommitted

=============================================================================
