------------------------------ MODULE Runtime ------------------------------
(***************************************************************************)
(* One thread of the asynchronous runtime (src/core/runtime): a driver     *)
(* that polls tasks, the leaf futures the tasks wait on, and the reactor   *)
(* whose registrations wake them.                                          *)
(*                                                                         *)
(* A leaf is a future that waits for one handle: a "read" of a socket      *)
(* (net/tcp.rs), a "wait" for a server's pipe (mcp/transport/stdio.rs) or  *)
(* a "sleep" (timer.rs).  The leaves of a task are joined, so each poll of *)
(* the task polls those that are not finished, in order (join.rs).  The    *)
(* drivers are block_on_local, which runs the program's agent thread,      *)
(* block_on and the Runtime thread.                                        *)
(*                                                                         *)
(* The reactor is seen as its users see it: how many one-shot              *)
(* registrations each leaf has left armed and how many submissions fit     *)
(* before the next poll (IoUring has the inside of it).                    *)
(***************************************************************************)
EXTENDS Integers, Sequences, FiniteSets, SequencesExt

CONSTANTS
    Kinds,       \* the kind of each leaf, in the order they are joined
    Owner,       \* under Runtime: the task each leaf belongs to
    Drivers,     \* drivers to consider
    SqRoom,      \* submissions that fit between two polls of the reactor
    MaxRegs,     \* bound: more registrations of one leaf count as this many
    MaxTimeouts  \* bound: more running TIMEOUTs count as this many

Leaves == DOMAIN Kinds

RuntimeAssumption ==
    /\ Kinds \in Seq({"read", "wait", "sleep"})
    /\ Owner \in [Leaves -> Nat \ {0}]
    /\ Drivers \subseteq {"block_on_local", "block_on", "Runtime"}
    /\ SqRoom \in Nat \ {0} /\ MaxRegs \in Nat \ {0} /\ MaxTimeouts \in Nat \ {0}

VARIABLES
    driver,     \* the driver of this thread
    loop,       \* where its loop stands
    readyQ,     \* task ids in the executor's ready channel
    inbox,      \* Runtime: tasks submitted and not picked up
    submitted,  \* tasks that were ever spawned or submitted
    closed,     \* the Runtime handle is dropped
    didWork,    \* run_ready() polled something in this pass
    task,       \* the task being polled
    rest,       \* its leaves still to be polled
    leaf,       \* state of each leaf
    held,       \* leaves that hold the token of a registration
    regs,       \* reactor: armed registrations of each leaf's handle
    ready,      \* kernel: handles that are readable
    queued,     \* submissions since the reactor was last polled
    timers      \* kernel: TIMEOUTs running

execVars == <<driver, inbox, submitted, closed>>
leafVars == <<leaf, held>>
reactorVars == <<regs, queued, timers>>
runtimeVars == <<execVars, loop, readyQ, didWork, task, rest, leafVars, reactorVars, ready>>

TaskOf(f) == IF driver = "Runtime" THEN Owner[f] ELSE 1
Finished(f) == leaf[f] \in {"done", "failed"}
Unfinished(t) == {f \in Leaves : TaskOf(f) = t /\ ~Finished(f)}
Tasks == {TaskOf(f) : f \in Leaves}
Least(a, b) == IF a <= b THEN a ELSE b

RuntimeInit ==
    /\ driver \in Drivers
    /\ loop = "run"
    /\ readyQ = IF driver = "block_on" THEN <<1>> ELSE <<>>
    /\ inbox = <<>>
    /\ submitted = IF driver = "Runtime" THEN {} ELSE {1}
    /\ closed = FALSE
    /\ didWork = FALSE
    /\ task = 0 /\ rest = {}
    /\ leaf = [f \in Leaves |-> "new"]
    /\ held = {}
    /\ regs = [f \in Leaves |-> 0]
    /\ ready = {}
    /\ queued = 0 /\ timers = 0

-----------------------------------------------------------------------------
(* Runtime::spawn from another thread, and the drop of its handle.         *)
Submit(t) ==
    /\ driver = "Runtime" /\ ~closed
    /\ t \in Tasks \ submitted
    /\ inbox' = Append(inbox, t)
    /\ submitted' = submitted \cup {t}
    /\ UNCHANGED <<driver, closed, loop, readyQ, didWork, task, rest, leafVars, reactorVars, ready>>

DropRuntime ==
    /\ driver = "Runtime" /\ ~closed
    /\ closed' = TRUE
    /\ UNCHANGED <<driver, inbox, submitted, loop, readyQ, didWork, task, rest, leafVars,
                   reactorVars, ready>>

(* The head of Runtime's loop: submitted tasks are spawned, each with its  *)
(* id in the ready channel, until there are none or the handle is gone.    *)
AtHead == loop = "run" /\ driver = "Runtime" /\ task = 0 /\ ~didWork

PickUp ==
    /\ AtHead
    /\ inbox # <<>>
    /\ readyQ' = Append(readyQ, Head(inbox))
    /\ inbox' = Tail(inbox)
    /\ UNCHANGED <<driver, submitted, closed, loop, didWork, task, rest, leafVars, reactorVars, ready>>

SeeClosed ==
    /\ AtHead
    /\ inbox = <<>> /\ closed
    /\ loop' = "returned"
    /\ UNCHANGED <<execVars, readyQ, didWork, task, rest, leafVars, reactorVars, ready>>

-----------------------------------------------------------------------------
(* run_ready: ids are taken until there is none; the id of a task that has *)
(* finished is ignored.                                                    *)
TakeReady ==
    /\ loop = "run" /\ task = 0
    /\ readyQ # <<>>
    /\ AtHead => inbox = <<>> /\ ~closed
    /\ readyQ' = Tail(readyQ)
    /\ didWork' = TRUE
    /\ IF Unfinished(Head(readyQ)) = {}
       THEN UNCHANGED <<task, rest>>
       ELSE task' = Head(readyQ) /\ rest' = Unfinished(Head(readyQ))
    /\ UNCHANGED <<execVars, loop, leafVars, reactorVars, ready>>

(* Nothing is ready: the driver polls the future it blocks on, if it has   *)
(* one.  block_on's is the JoinHandle, whose value is there when the task  *)
(* has finished; block_on_local's is the whole future.                     *)
NoneReady ==
    /\ loop = "run" /\ task = 0
    /\ readyQ = <<>>
    /\ AtHead => inbox = <<>> /\ ~closed
    /\ CASE driver = "block_on_local" ->
              loop' = "main" /\ task' = 1 /\ rest' = Unfinished(1)
         [] driver = "block_on" /\ Unfinished(1) = {} ->
              loop' = "returned" /\ UNCHANGED <<task, rest>>
         [] OTHER ->
              loop' = (IF didWork THEN "run" ELSE "wait") /\ UNCHANGED <<task, rest>>
    /\ didWork' = FALSE
    /\ UNCHANGED <<execVars, readyQ, leafVars, reactorVars, ready>>

(* The poll of a task ends: it is Pending, or it is done and dropped.      *)
PollEnds ==
    /\ task # 0 /\ rest = {}
    /\ task' = 0
    /\ loop' = IF loop = "run" THEN "run"
               ELSE IF Unfinished(1) = {} THEN "returned" ELSE "wait"
    /\ UNCHANGED <<execVars, readyQ, didWork, rest, leafVars, reactorVars, ready>>

-----------------------------------------------------------------------------
(* The reactor's side of a leaf's poll.  When a token is given back its    *)
(* waker is forgotten at once, and a POLL_REMOVE takes a submission if one *)
(* fits.                                                                   *)
GiveBack(f) == [regs EXCEPT ![f] = IF @ = 0 THEN 0 ELSE @ - 1]
GivenBack(f) == IF regs[f] > 0 THEN Least(queued + 1, SqRoom) ELSE queued

Fits(used) == used < SqRoom

(* Registers and returns Pending, with the token.                          *)
Arm(f, left, used) ==
    /\ leaf' = [leaf EXCEPT ![f] = "pending"]
    /\ held' = held \cup {f}
    /\ regs' = [left EXCEPT ![f] = Least(@ + 1, MaxRegs)]
    /\ queued' = used + 1

(* Completes, holding no token.                                            *)
Complete(f, result, left, used) ==
    /\ leaf' = [leaf EXCEPT ![f] = result]
    /\ held' = held \ {f}
    /\ regs' = left
    /\ queued' = used

Polls(f, kind) ==
    /\ task # 0 /\ rest # {} /\ f = Min(rest)
    /\ Kinds[f] = kind
    /\ rest' = rest \ {f}
    /\ UNCHANGED <<execVars, loop, didWork, task, timers, ready>>

(* ReadFuture::poll: the token is given back, then the handle is read, and *)
(* only if that would block it is registered anew.                         *)
(* Mutant: the token is given back only when the bytes are there.          *)
ReadKeepsItsToken(f) ==
    /\ Polls(f, "read")
    /\ IF f \in ready THEN Complete(f, "done", regs, queued)
       ELSE IF Fits(queued) THEN Arm(f, regs, queued)
       ELSE Complete(f, "failed", regs, queued)
    /\ UNCHANGED readyQ

PollRead(f) ==
    /\ Polls(f, "read")
    /\ LET left == IF f \in held THEN GiveBack(f) ELSE regs
           used == IF f \in held THEN GivenBack(f) ELSE queued
       IN  IF f \in ready THEN Complete(f, "done", left, used)
           ELSE IF Fits(used) THEN Arm(f, left, used)
           ELSE Complete(f, "failed", left, used)
    /\ UNCHANGED readyQ

(* WaitReadable::poll in StdioTransport::recv: a held token is taken for   *)
(* the sign that the handle is readable and forgotten, not given back;     *)
(* when the read then finds nothing a new WaitReadable registers at once.  *)
PollWait(f) ==
    /\ Polls(f, "wait")
    /\ IF f \in held /\ f \in ready THEN Complete(f, "done", regs, queued)
       ELSE IF Fits(queued) THEN Arm(f, regs, queued)
       ELSE Complete(f, "failed", regs, queued)
    /\ UNCHANGED readyQ

(* Sleep::poll: a held token is taken for the sign that the time is up.    *)
(* If registering fails the task wakes itself.                             *)
(* Mutant: a sleep that found no room does not wake itself.                *)
SleepDoesNotWakeItself(f) ==
    /\ Polls(f, "sleep")
    /\ IF f \in held
       THEN Complete(f, "done", GiveBack(f), GivenBack(f))
       ELSE IF Fits(queued) THEN Arm(f, regs, queued)
       ELSE leaf' = [leaf EXCEPT ![f] = "pending"] /\ UNCHANGED <<held, regs, queued>>
    /\ UNCHANGED readyQ

PollSleep(f) ==
    /\ Polls(f, "sleep")
    /\ IF f \in held
       THEN Complete(f, "done", GiveBack(f), GivenBack(f)) /\ UNCHANGED readyQ
       ELSE IF Fits(queued) THEN Arm(f, regs, queued) /\ UNCHANGED readyQ
       ELSE /\ leaf' = [leaf EXCEPT ![f] = "pending"]
            /\ readyQ' = IF driver = "block_on_local" THEN readyQ ELSE Append(readyQ, task)
            /\ UNCHANGED <<held, regs, queued>>

PollLeaf == \E f \in Leaves : PollRead(f) \/ PollWait(f) \/ PollSleep(f)

-----------------------------------------------------------------------------
(* wait_for_io: the TIMEOUT needs a submission too; entering the ring      *)
(* hands over all of them.                                                 *)
EnterReactor ==
    /\ loop = "wait"
    /\ loop' = "inReactor"
    /\ timers' = IF Fits(queued) THEN Least(timers + 1, MaxTimeouts) ELSE timers
    /\ queued' = 0
    /\ UNCHANGED <<execVars, readyQ, didWork, task, rest, leafVars, regs, ready>>

(* Registrations whose handle is readable complete, and each completion    *)
(* wakes its task, in the order the completions came: block_on_local's     *)
(* waker does nothing.                                                     *)
Firing == {f \in ready : regs[f] > 0}
Completions == {c \in Firing \X (1..MaxRegs) : c[2] <= regs[c[1]]}
(* Mutant: every registered waker fires, whatever completed.               *)
EveryWakerFires(order) ==
    FlattenSeq([f \in Leaves |-> [n \in 1..regs[f] |-> TaskOf(f)]])
Wakes(order) == [i \in DOMAIN order |-> TaskOf(order[i][1])]

Fire ==
    /\ regs' = [f \in Leaves |-> IF f \in Firing THEN 0 ELSE regs[f]]
    /\ IF driver = "block_on_local" THEN UNCHANGED readyQ
       ELSE \E order \in SetToSeqs(Completions) : readyQ' = readyQ \o Wakes(order)

LeaveReactor ==
    /\ loop = "inReactor"
    /\ loop' = "run"
    /\ Fire
    /\ UNCHANGED <<execVars, didWork, task, rest, leafVars, queued, ready>>

(* The wait ends by a completion: of a registration, or of a TIMEOUT.      *)
IoCompletes == Firing # {} /\ LeaveReactor /\ UNCHANGED timers
(* Mutant: a TIMEOUT ends the wait before the drain.                       *)
TimeoutSkipsTheDrain ==
    /\ timers > 0 /\ loop = "inReactor"
    /\ loop' = "run" /\ timers' = timers - 1
    /\ UNCHANGED <<execVars, readyQ, didWork, task, rest, leafVars, regs, queued, ready>>
TimeoutFires == timers > 0 /\ LeaveReactor /\ timers' = timers - 1

(* ... or, while none is there, by a signal: nothing is reaped.            *)
Signalled ==
    /\ loop = "inReactor" /\ Firing = {}
    /\ loop' = "run"
    /\ UNCHANGED <<execVars, readyQ, didWork, task, rest, leafVars, reactorVars, ready>>

(* The outside: a socket or a pipe gets data, a timer that was set expires.*)
BecomesReady(f) ==
    /\ f \notin ready /\ ~Finished(f)
    /\ Kinds[f] = "sleep" => f \in held
    /\ ready' = ready \cup {f}
    /\ UNCHANGED <<execVars, loop, readyQ, didWork, task, rest, leafVars, reactorVars>>

LoopStep == PickUp \/ SeeClosed \/ TakeReady \/ NoneReady \/ PollEnds \/ PollLeaf \/ EnterReactor

Returned == loop = "returned" /\ UNCHANGED runtimeVars

RuntimeNext ==
    \/ LoopStep \/ IoCompletes \/ TimeoutFires \/ Signalled
    \/ DropRuntime \/ Returned
    \/ \E t \in Tasks : Submit(t)
    \/ \E f \in Leaves : BecomesReady(f)

RuntimeSpec == RuntimeInit /\ [][RuntimeNext]_runtimeVars

(* Fairness: the thread keeps running its loop, and a completion ends the  *)
(* wait in the reactor.  No handle has to become ready.                    *)
RuntimeFairSpec == RuntimeSpec /\ WF_runtimeVars(LoopStep) /\ WF_runtimeVars(IoCompletes \/ TimeoutFires)

-----------------------------------------------------------------------------
(***************************************************************************)
(* No pending leaf is forgotten: a registration is armed for it, or its    *)
(* task is about to be polled; a task is polled again only when a waker    *)
(* fires (block_on_local polls everything after each wait).                *)
(***************************************************************************)
AboutToBePolled(f) == (task = TaskOf(f) /\ f \in rest) \/ TaskOf(f) \in ToSet(readyQ)
PendingIsWatched ==
    driver # "block_on_local" =>
        \A f \in Leaves : leaf[f] = "pending" => regs[f] > 0 \/ AboutToBePolled(f)

(***************************************************************************)
(* A leaf leaves no registration behind, and holds at most one: so no      *)
(* waker fires for a future that is gone.  A "wait" that is polled while   *)
(* its handle is not readable - by block_on_local, or because of another   *)
(* leaf of its task - forgets one each time, and is excepted.              *)
(***************************************************************************)
Alone(f) == driver # "block_on_local" /\ \A g \in Leaves : TaskOf(g) = TaskOf(f) => g = f
NoRegistrationIsLeft ==
    \A f \in Leaves : Kinds[f] # "wait" \/ Alone(f) =>
        regs[f] <= 1 /\ (regs[f] = 1 => f \in held /\ leaf[f] = "pending")

(***************************************************************************)
(* "sleep waits at least its duration" (tests/core/runtime/timer_test.rs): *)
(* a sleep that is polled only when its own timer wakes it ends after the  *)
(* timer.  Any other poll - block_on_local's next one, or one for another  *)
(* leaf of its task - ends it at once.                                     *)
(***************************************************************************)
SleepsLongEnough ==
    \A f \in Leaves : Kinds[f] = "sleep" /\ Alone(f) /\ leaf[f] = "done" => f \in ready

(***************************************************************************)
(* A future is polled again for as long as it is pending and neither       *)
(* sooner than it should nor after its end.                                *)
(***************************************************************************)
LeavesAreServed == PendingIsWatched /\ NoRegistrationIsLeft /\ SleepsLongEnough

(***************************************************************************)
(* A leaf whose handle is readable is finished in the end.  One thing      *)
(* stands in the way: a sleep that found no room to register.  It keeps    *)
(* its task in the ready channel, so the reactor, which would make room,   *)
(* is never polled; or, under block_on_local, the wait in the reactor has  *)
(* no TIMEOUT.                                                             *)
(***************************************************************************)
SleepFoundNoRoom == \E f \in Leaves : Kinds[f] = "sleep" /\ leaf[f] = "pending" /\ f \notin held
ReadyIsFinished ==
    \A f \in Leaves :
        leaf[f] = "pending" /\ f \in ready ~> Finished(f) \/ SleepFoundNoRoom \/ loop = "returned"

=============================================================================
