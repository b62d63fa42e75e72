------------------------------- MODULE MCAsync -------------------------------
(***************************************************************************)
(* The async runtime for TLC: the channel, the io_uring reactor, the       *)
(* drivers and the sub-agent's Join, of which a behaviour runs one.  Under *)
(* Runtime a socket and a pipe share a task and a sleep has one of its     *)
(* own; the other drivers join all three.                                  *)
(***************************************************************************)
EXTENDS AsyncChannel, IoUring, Runtime, SubAgent

VARIABLE machine

ASSUME IoUringAssumption /\ RuntimeAssumption /\ SubAgentAssumption

mcVars == <<machine, vars, uringVars, runtimeVars, joinVars>>

InChannel(step) ==
  machine = "channel" /\ step /\ UNCHANGED <<machine, uringVars, runtimeVars, joinVars>>
InUring(step) ==
  machine = "uring" /\ step /\ UNCHANGED <<machine, vars, runtimeVars, joinVars>>
InRuntime(step) ==
  machine = "runtime" /\ step /\ UNCHANGED <<machine, vars, uringVars, joinVars>>
InJoin(step) ==
  machine = "join" /\ step /\ UNCHANGED <<machine, vars, uringVars, runtimeVars>>

MCInit ==
  /\ machine \in {"channel", "uring", "runtime", "join"}
  /\ Init /\ UringInit /\ RuntimeInit /\ JoinInit
  /\ machine # "channel" => handle[CHOOSE s \in Senders : TRUE] = "open"
  /\ machine # "runtime" => driver = "block_on"

MCNext == InChannel(Next) \/ InUring(UringNext) \/ InRuntime(RuntimeNext) \/ InJoin(JoinNext)

(* The fairness of each machine, as its module states it.                  *)
MCFairness ==
  /\ \A s \in Senders : WF_mcVars(InChannel(SenderStep(s)))
  /\ WF_mcVars(InChannel(PollStep)) /\ WF_mcVars(InChannel(Wake)) /\ WF_mcVars(InChannel(PollAnyway))
  /\ WF_mcVars(InUring(TimerFires)) /\ WF_mcVars(InUring(Enter)) /\ WF_mcVars(InUring(Reap))
  /\ WF_mcVars(InRuntime(LoopStep)) /\ WF_mcVars(InRuntime(IoCompletes \/ TimeoutFires))
  /\ WF_mcVars(InJoin(SendPrompt)) /\ WF_mcVars(InJoin(ChildPends \/ ChildReturned))
  /\ SF_mcVars(InJoin(poll = "child" /\ ChildProgress /\ UNCHANGED subVars))
  /\ WF_mcVars(InJoin(WakeJoin)) /\ WF_mcVars(InJoin(MonitorRuns))

MCSpec == MCInit /\ [][MCNext]_mcVars /\ MCFairness

ReadyLeafEnds == machine = "runtime" => ReadyIsFinished
CallReturnsOrSpins == machine = "join" => SubAgentReturnsOrSpins

JoinedKinds == <<"read", "wait", "sleep">>
JoinedOwner == <<1, 1, 2>>
ChildReplies ==
  {[uses |-> <<>>, endTurn |-> TRUE],
   [uses |-> <<"Bash", "Read">>, endTurn |-> FALSE],
   [uses |-> <<"Agent", "Nothing">>, endTurn |-> FALSE]}
=============================================================================
