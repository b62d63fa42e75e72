------------------------------ MODULE IoUring ------------------------------
(***************************************************************************)
(* IoUringReactor (src/core/platform/unix/io_uring.rs): one-shot readiness *)
(* registrations over an io_uring, driven by one thread that alternates    *)
(* between running tasks (register, deregister) and poll(timeout).         *)
(*                                                                         *)
(* The kernel's side is modelled from how the code uses it: entering the   *)
(* ring consumes every submission and waits for a completion; a POLL_ADD   *)
(* completes when its handle is ready, a POLL_REMOVE at once, cancelling   *)
(* its target, a TIMEOUT some time after it was consumed.                  *)
(***************************************************************************)
EXTENDS Integers, Sequences, FiniteSets, SequencesExt

CONSTANTS
    SqEntries,  \* entries of the submission queue (32 in the code)
    MaxToken,   \* bound: tokens given out are 2..MaxToken
    MaxTimers   \* bound: poll() is entered while fewer TIMEOUTs are running

IoUringAssumption ==
    /\ SqEntries \in Nat \ {0}
    /\ MaxToken \in Nat
    /\ MaxTimers \in Nat

VARIABLES
    sq,         \* submissions the kernel has not consumed
    wakers,     \* tokens with a registered waker
    nextToken,  \* the token of the next registration
    inPoll,     \* the thread is inside io_uring_enter
    polling,    \* kernel: tokens of the POLL_ADDs that have not completed
    timeouts,   \* kernel: TIMEOUTs that have not fired
    cq,         \* kernel: user_data of the completions not yet reaped
    readied,    \* history: tokens whose handle became ready while polled
    woken       \* history: tokens whose waker was fired

uringVars == <<sq, wakers, nextToken, inPoll, polling, timeouts, cq, readied, woken>>

Tokens == 2..MaxToken
TimeoutData == 0   \* reserved user_data of a TIMEOUT
RemoveData == 1    \* reserved user_data of a POLL_REMOVE

PollAdd(token) == [op |-> "POLL_ADD", token |-> token]
PollRemove(token) == [op |-> "POLL_REMOVE", token |-> token]
Timeout == [op |-> "TIMEOUT", token |-> TimeoutData]
Submissions == [op : {"POLL_ADD", "POLL_REMOVE", "TIMEOUT"}, token : Tokens \cup {TimeoutData}]

Full == Len(sq) >= SqEntries

UringInit ==
    /\ sq = <<>>
    /\ wakers = {}
    /\ nextToken = 2
    /\ inPoll = FALSE
    /\ polling = {}
    /\ timeouts = 0
    /\ cq = <<>>
    /\ readied = {}
    /\ woken = {}

-----------------------------------------------------------------------------
(* Mutant: the waker is stored before the submission is tried.             *)
RegisterWakerFirst ==
    /\ ~inPoll
    /\ nextToken \in Tokens
    /\ nextToken' = nextToken + 1
    /\ sq' = IF Full THEN sq ELSE Append(sq, PollAdd(nextToken))
    /\ wakers' = wakers \cup {nextToken}
    /\ UNCHANGED <<inPoll, polling, timeouts, cq, readied, woken>>

(* register_read, register_write: the token is used up even if the queue   *)
(* is full, but then nothing is registered.                                *)
UringRegister ==
    /\ ~inPoll
    /\ nextToken \in Tokens
    /\ nextToken' = nextToken + 1
    /\ IF Full
       THEN UNCHANGED <<sq, wakers>>
       ELSE /\ sq' = Append(sq, PollAdd(nextToken))
            /\ wakers' = wakers \cup {nextToken}
    /\ UNCHANGED <<inPoll, polling, timeouts, cq, readied, woken>>

(* Mutant: the waker of a removed registration stays.                      *)
DeregisterKeepsWaker(token) ==
    /\ ~inPoll
    /\ token \in wakers
    /\ sq' = IF Full THEN sq ELSE Append(sq, PollRemove(token))
    /\ UNCHANGED <<wakers, nextToken, inPoll, polling, timeouts, cq, readied, woken>>

(* deregister of a registration whose waker has not fired: the POLL_REMOVE *)
(* is lost if the queue is full.                                           *)
Deregister(token) ==
    /\ ~inPoll
    /\ token \in wakers
    /\ wakers' = wakers \ {token}
    /\ sq' = IF Full THEN sq ELSE Append(sq, PollRemove(token))
    /\ UNCHANGED <<nextToken, inPoll, polling, timeouts, cq, readied, woken>>

(***************************************************************************)
(* poll(): the TIMEOUT is submitted unless the queue is full, and entering *)
(* the ring consumes the queue in order.                                   *)
(***************************************************************************)
Enter ==
    /\ ~inPoll
    /\ timeouts < MaxTimers
    /\ LET ops     == IF Full THEN sq ELSE Append(sq, Timeout)
           added   == {ops[i].token : i \in {j \in DOMAIN ops : ops[j].op = "POLL_ADD"}}
           removed == {ops[i].token : i \in {j \in DOMAIN ops : ops[j].op = "POLL_REMOVE"}}
           ended   == (polling \cup added) \cap removed
       IN  /\ polling' = (polling \cup added) \ removed
           /\ cq' = cq \o SetToSeq(ended) \o [t \in 1..Cardinality(removed) |-> RemoveData]
           /\ timeouts' = IF Full THEN timeouts ELSE timeouts + 1
    /\ sq' = <<>>
    /\ inPoll' = TRUE
    /\ UNCHANGED <<wakers, nextToken, readied, woken>>

(* The kernel: a polled handle becomes ready, a TIMEOUT fires.             *)
HandleReady(token) ==
    /\ token \in polling
    /\ polling' = polling \ {token}
    /\ cq' = Append(cq, token)
    /\ readied' = readied \cup {token}
    /\ UNCHANGED <<sq, wakers, nextToken, inPoll, timeouts, woken>>

TimerFires ==
    /\ timeouts > 0
    /\ timeouts' = timeouts - 1
    /\ cq' = Append(cq, TimeoutData)
    /\ UNCHANGED <<sq, wakers, nextToken, inPoll, polling, readied, woken>>

(* The wakers poll() fires.  Mutant: only the first completion's.          *)
FiredByFirst == wakers \cap {Head(cq)}
Fired == wakers \cap ToSet(cq)

(* Mutant: poll() goes on waiting until a waker has fired.                 *)
ReapUntilOneFires ==
    /\ inPoll
    /\ cq # <<>>
    /\ wakers' = wakers \ Fired
    /\ woken' = woken \cup Fired
    /\ cq' = <<>>
    /\ inPoll' = (Fired = {})
    /\ UNCHANGED <<sq, nextToken, polling, timeouts, readied>>

(* A completion is there: the queue is drained and the wakers of its       *)
(* tokens, the ones still registered, are fired once.                      *)
Reap ==
    /\ inPoll
    /\ cq # <<>>
    /\ wakers' = wakers \ Fired
    /\ woken' = woken \cup Fired
    /\ cq' = <<>>
    /\ inPoll' = FALSE
    /\ UNCHANGED <<sq, nextToken, polling, timeouts, readied>>

(* A signal ends the wait; the submissions were consumed before it.        *)
Interrupted ==
    /\ inPoll
    /\ cq = <<>>
    /\ inPoll' = FALSE
    /\ UNCHANGED <<sq, wakers, nextToken, polling, timeouts, cq, readied, woken>>

Kernel == (\E token \in polling : HandleReady(token)) \/ TimerFires

UringNext ==
    \/ UringRegister \/ (\E token \in wakers : Deregister(token))
    \/ Enter \/ Reap \/ Interrupted \/ Kernel

UringSpec == UringInit /\ [][UringNext]_uringVars

(***************************************************************************)
(* Fairness: a TIMEOUT fires, the thread keeps calling poll(), and a wait  *)
(* with a completion returns.  No handle is obliged to become ready and no *)
(* signal to come.                                                         *)
(***************************************************************************)
UringFairSpec == UringSpec /\ WF_uringVars(TimerFires) /\ WF_uringVars(Enter) /\ WF_uringVars(Reap)

-----------------------------------------------------------------------------
(***************************************************************************)
(* A registered waker is never forgotten: its POLL_ADD is still to be      *)
(* submitted, or pending in the kernel, or its completion waits.           *)
(***************************************************************************)
Submitted(op) == {sq[i].token : i \in {j \in DOMAIN sq : sq[j].op = op}}
WakersAreCovered == wakers \subseteq Submitted("POLL_ADD") \cup polling \cup ToSet(cq)

(***************************************************************************)
(* A waker fires only because its handle became ready, never by the        *)
(* completion of a cancelled or of another registration.                   *)
(***************************************************************************)
WokenWereReady == woken \subseteq readied

(***************************************************************************)
(* A task that registered is woken by its own handle, neither too rarely   *)
(* nor by another.                                                         *)
(***************************************************************************)
WakersFitPolls == WakersAreCovered /\ WokenWereReady

(***************************************************************************)
(* Every handle that becomes ready wakes its task, unless the task has     *)
(* given the registration up.                                              *)
(***************************************************************************)
ReadyIsWoken == \A token \in Tokens : token \in readied \cap wakers ~> token \notin wakers

(***************************************************************************)
(* "The TIMEOUT CQE counts, so we will always return within `timeout`."    *)
(* What is left of it: poll() returns if a TIMEOUT is running or has       *)
(* completed, its own or that of an earlier poll().  When the queue was    *)
(* full and no TIMEOUT got in, it waits for a handle or a signal.          *)
(***************************************************************************)
TimedPollReturns == inPoll /\ (timeouts > 0 \/ TimeoutData \in ToSet(cq)) ~> ~inPoll

(***************************************************************************)
(* poll() returns when its timeout is over and wakes whom it should.       *)
(***************************************************************************)
PollWakesAndReturns == ReadyIsWoken /\ TimedPollReturns

=============================================================================
