----------------------------- MODULE SubAgent -----------------------------
(***************************************************************************)
(* run_sub_agent (src/tools/sub_agent.rs): the Agent tool runs a second    *)
(* agent loop, the child, and a monitor that plays its UI, as the two      *)
(* futures of one Join (src/core/runtime/join.rs) on the one thread of the *)
(* parent's executor.                                                      *)
(*                                                                         *)
(* A poll of the Join polls the child until it is Pending or returns, then *)
(* the monitor.  The monitor's loop has no await in it: its poll ends only *)
(* when the loop breaks.  The child is an AgentLoop in Auto mode without   *)
(* the Agent tool; the monitor is its peer, which owns the other ends of   *)
(* the channels until the Join is over.                                    *)
(***************************************************************************)
EXTENDS AgentLoop

CONSTANT IoPends  \* whether the child's I/O may be Pending when polled

SubAgentAssumption ==
    /\ IoPends \in BOOLEAN
    /\ Mode = "Auto"
    /\ AgentTool \notin Registered
    /\ EventCap > 0 /\ MaxInputs > 0

VARIABLES
    poll,      \* what runs: "new", "child", "monitor", "waiting", "joined"
    watching,  \* the monitor's loop has not broken yet
    collected  \* chunks appended to the monitor's text

subVars == <<poll, watching, collected>>
joinVars == <<loopVars, subVars>>

JoinInit ==
    /\ LoopInit
    /\ servers = {}
    /\ poll = "new"
    /\ watching = TRUE
    /\ collected = 0

(* The prompt is sent before the Join is polled for the first time.        *)
SendPrompt ==
    /\ poll = "new"
    /\ poll' = "child"
    /\ SendEvent(Event("Input"))
    /\ inputs' = inputs + 1
    /\ UNCHANGED <<msgQ, uiOpen, agentOpen, agentVars, streamed, watching, collected>>

-----------------------------------------------------------------------------
(* Join::poll: the child first, then the monitor unless it is done.        *)
ChildRuns ==
    /\ poll = "child"
    /\ AgentNext
    /\ UNCHANGED subVars

AwaitsIo ==
    \/ pc = "idle" /\ eventQ = <<>>
    \/ IoPends /\ pc \in {"retrieving", "compacting", "streaming", "executing", "evolving"}

ChildPends ==
    /\ poll = "child"
    /\ AwaitsIo
    /\ poll' = IF watching THEN "monitor" ELSE "waiting"
    /\ UNCHANGED <<loopVars, watching, collected>>

ChildReturned ==
    /\ poll = "child"
    /\ pc = "exited"
    /\ poll' = IF watching THEN "monitor" ELSE "joined"
    /\ UNCHANGED <<loopVars, watching, collected>>

(* A waker of the child's I/O or of its event channel polls the Join anew. *)
WakeJoin ==
    /\ poll = "waiting"
    /\ poll' = "child"
    /\ UNCHANGED <<loopVars, watching, collected>>

-----------------------------------------------------------------------------
(* The break ends the monitor's poll and with it the poll of the Join.     *)
MonitorBreaks ==
    /\ watching' = FALSE
    /\ poll' = IF pc = "exited" THEN "joined" ELSE "waiting"

(* What the monitor sends to the child on a message.  Mutants: it quits on *)
(* an Error too, or not at all.                                            *)
MonitorQuitsOnError(type) ==
    CASE type \in {"Done", "Error"}     -> SendEvent(Event("Quit"))
      [] type = "PermissionRequest"     -> SendEvent(Response("Allow"))
      [] OTHER                          -> UNCHANGED eventQ
MonitorNeverQuits(type) ==
    IF type = "PermissionRequest" THEN SendEvent(Response("Allow")) ELSE UNCHANGED eventQ
MonitorAnswers(type) ==
    CASE type = "Done"              -> SendEvent(Event("Quit"))
      [] type = "PermissionRequest" -> SendEvent(Response("Allow"))
      [] OTHER                      -> UNCHANGED eventQ

(* The monitor's loop: try_recv() of a message ...                         *)
MonitorTakes ==
    /\ poll = "monitor"
    /\ msgQ # <<>>
    /\ msgQ' = Tail(msgQ)
    /\ LET type == Head(msgQ).type IN
         /\ collected' = IF type = "TextChunk" THEN collected + 1 ELSE collected
         /\ MonitorAnswers(type)
         /\ IF type = "Done" THEN MonitorBreaks ELSE UNCHANGED <<poll, watching>>
    /\ UNCHANGED <<uiOpen, agentOpen, agentVars, bounds>>

(* ... or none: yield_now() gives up the processor but not the poll, only  *)
(* a disconnected channel breaks.                                          *)
MonitorFindsNone ==
    /\ poll = "monitor"
    /\ msgQ = <<>>
    /\ IF MessagesClosed THEN MonitorBreaks ELSE UNCHANGED <<poll, watching>>
    /\ UNCHANGED <<loopVars, collected>>

MonitorRuns == MonitorTakes \/ MonitorFindsNone

Joined == poll = "joined" /\ UNCHANGED joinVars

JoinNext ==
    \/ SendPrompt \/ ChildRuns \/ ChildPends \/ ChildReturned \/ WakeJoin \/ MonitorRuns
    \/ Joined

(***************************************************************************)
(* Fairness: a poll that can go on goes on (the child's stream is not      *)
(* extended for ever: AgentProgress), and a woken Join is polled.          *)
(***************************************************************************)
ChildProgress == AgentReceives \/ RoundEnds \/ AskEnds \/ ToolStep \/ Shutdown

JoinSpec == JoinInit /\ [][JoinNext]_joinVars

JoinFairSpec ==
    /\ JoinSpec
    /\ WF_joinVars(SendPrompt)
    /\ SF_joinVars(poll = "child" /\ ChildProgress /\ UNCHANGED subVars)
    /\ WF_joinVars(ChildPends \/ ChildReturned)
    /\ WF_joinVars(WakeJoin)
    /\ WF_joinVars(MonitorRuns)

(* The monitor is one of the peers AgentLoop allows.                       *)
IsAgentLoop == LoopSpec

-----------------------------------------------------------------------------
(***************************************************************************)
(* When the monitor stops watching it has the child's whole answer: every  *)
(* chunk that the child's turn streamed, and the turn streams no more.     *)
(***************************************************************************)
AnswerIsWhole == ~watching => collected = streamed /\ ~InTurn

(***************************************************************************)
(* The monitor tells the child to quit exactly once, after its turn: the   *)
(* child is leaving, or the one Quit is still on its way to it.            *)
(***************************************************************************)
QuitOnce ==
    LET quits == Cardinality({i \in DOMAIN eventQ : eventQ[i].type = "Quit"}) IN
      IF watching THEN quits = 0 /\ pc \notin ExitStates
      ELSE quits + (IF pc \in ExitStates THEN 1 ELSE 0) = 1

(***************************************************************************)
(* The monitor collects the whole answer and then sends one Quit.          *)
(***************************************************************************)
MonitorKeepsItsWord == AnswerIsWhole /\ QuitOnce

(***************************************************************************)
(* The sub-agent's call returns.  The comment at the Empty branch: "Yield  *)
(* to let the agent future make progress".                                 *)
(***************************************************************************)
SubAgentReturns == <>(poll = "joined")

(***************************************************************************)
(* What is left of it: the call returns unless the monitor is once polled  *)
(* while the child awaits I/O and has told it nothing; then the monitor    *)
(* spins, and the child is never polled again.                             *)
(***************************************************************************)
MonitorSpins ==
    poll = "monitor" /\ msgQ = <<>> /\ agentOpen /\ pc # "idle"
SubAgentReturnsOrSpins == <>(poll = "joined" \/ MonitorSpins)

=============================================================================
