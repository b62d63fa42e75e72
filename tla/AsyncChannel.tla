---------------------------- MODULE AsyncChannel ----------------------------
(***************************************************************************)
(* async_channel (src/core/runtime/channel.rs): an mpsc queue, a pipe that *)
(* wakes the receiver's reactor, and a count of the NotifySender handles.  *)
(*                                                                         *)
(* Senders live on other threads; send() and drop() of one are several     *)
(* steps each, and so is RecvFuture::poll.  Consumer says who polls the    *)
(* receiver: "task", a future spawned on an Executor, which is polled      *)
(* again only when its waker fires; or "local", a future under             *)
(* block_on_local, which is polled again after every wait_for_io().        *)
(***************************************************************************)
EXTENDS Integers, Sequences, FiniteSets

CONSTANTS
    Senders, Values, MaxSends,  \* as in Channel
    Consumer                    \* "task" or "local"

ASSUME AsyncChannelAssumption ==
    /\ IsFiniteSet(Senders)
    /\ MaxSends \in Nat
    /\ Consumer \in {"task", "local"}

VARIABLES
    queue,     \* values in the mpsc channel
    handle,    \* where each sender handle stands
    refs,      \* NotifierHandle::ref_count
    pipe,      \* whether the pipe holds a byte
    armed,     \* whether the reactor polls the pipe with the task's waker
    rx,        \* where the receiver stands
    received,  \* values received, in order
    sent       \* number of values sent

vars == <<queue, handle, refs, pipe, armed, rx, received, sent>>

(* "pushed": send() is between tx.send and notify; "last" and "closing":   *)
(* drop() has still to notify, has still to drop the mpsc sender.          *)
HandleStates == {"none", "open", "pushed", "last", "closing"}

(* "polled": poll() is about to drain; "drained": about to try_recv;       *)
(* "empty": about to register with the reactor; "pending": it returned;    *)
(* "closed" and "failed": it returned Err, for a channel without senders   *)
(* and for a reactor that refused.                                         *)
Polling == {"polled", "drained", "empty"}
RxStates == Polling \cup {"idle", "pending", "closed", "failed", "dropped"}

Disconnected == \A s \in Senders : handle[s] = "none"

Init ==
    /\ queue = <<>>
    /\ \E s \in Senders :
         handle = [t \in Senders |-> IF t = s THEN "open" ELSE "none"]
    /\ refs = 1
    /\ pipe = FALSE
    /\ armed = FALSE
    /\ rx = "idle"
    /\ received = <<>>
    /\ sent = 0

-----------------------------------------------------------------------------
(* Mutant: the new handle is not counted.                                  *)
CloneUncounted(s, t) ==
    /\ handle[s] = "open" /\ handle[t] = "none"
    /\ handle' = [handle EXCEPT ![t] = "open"]
    /\ UNCHANGED <<queue, refs, pipe, armed, rx, received, sent>>

(* NotifySender::clone counts the new handle before it exists.             *)
Clone(s, t) ==
    /\ handle[s] = "open" /\ handle[t] = "none"
    /\ handle' = [handle EXCEPT ![t] = "open"]
    /\ refs' = refs + 1
    /\ UNCHANGED <<queue, pipe, armed, rx, received, sent>>

(* NotifySender::send: Err at once if the receiver is dropped ...          *)
Push(s, v) ==
    /\ handle[s] = "open" /\ sent < MaxSends
    /\ rx # "dropped"
    /\ queue' = Append(queue, v)
    /\ sent' = sent + 1
    /\ handle' = [handle EXCEPT ![s] = "pushed"]
    /\ UNCHANGED <<refs, pipe, armed, rx, received>>

(* ... otherwise a byte for the receiver.                                  *)
Notify(s) ==
    /\ handle[s] = "pushed"
    /\ pipe' = TRUE
    /\ handle' = [handle EXCEPT ![s] = "open"]
    /\ UNCHANGED <<queue, refs, armed, rx, received, sent>>

(* NotifySender::drop: fetch_sub; the handle that takes the count to zero  *)
(* notifies ...                                                            *)
Release(s) ==
    /\ handle[s] = "open"
    /\ refs' = refs - 1
    /\ handle' = [handle EXCEPT ![s] = IF refs = 1 THEN "last" ELSE "closing"]
    /\ UNCHANGED <<queue, pipe, armed, rx, received, sent>>

NotifyLast(s) ==
    /\ handle[s] = "last"
    /\ pipe' = TRUE
    /\ handle' = [handle EXCEPT ![s] = "closing"]
    /\ UNCHANGED <<queue, refs, armed, rx, received, sent>>

(* ... and after drop() has returned the field tx is dropped.              *)
DropTx(s) ==
    /\ handle[s] = "closing"
    /\ handle' = [handle EXCEPT ![s] = "none"]
    /\ UNCHANGED <<queue, refs, pipe, armed, rx, received, sent>>

-----------------------------------------------------------------------------
(* The consumer calls recv() and polls it; after an Err it may do so again.*)
Recv ==
    /\ rx \in {"idle", "failed"}
    /\ rx' = "polled"
    /\ UNCHANGED <<queue, handle, refs, pipe, armed, received, sent>>

Drain ==
    /\ rx = "polled"
    /\ pipe' = FALSE
    /\ rx' = "drained"
    /\ UNCHANGED <<queue, handle, refs, armed, received, sent>>

(* try_recv: a value, Disconnected, or Empty.                              *)
TakeValue ==
    /\ rx = "drained" /\ queue # <<>>
    /\ received' = Append(received, Head(queue))
    /\ queue' = Tail(queue)
    /\ rx' = "idle"
    /\ UNCHANGED <<handle, refs, pipe, armed, sent>>

(* Mutant: the count of handles decides that the channel is closed.        *)
FindUnreferenced ==
    /\ rx = "drained" /\ refs = 0
    /\ rx' = "closed"
    /\ UNCHANGED <<queue, handle, refs, pipe, armed, received, sent>>

FindClosed ==
    /\ rx = "drained" /\ queue = <<>> /\ Disconnected
    /\ rx' = "closed"
    /\ UNCHANGED <<queue, handle, refs, pipe, armed, received, sent>>

FindEmpty ==
    /\ rx = "drained" /\ queue = <<>> /\ ~Disconnected
    /\ rx' = "empty"
    /\ UNCHANGED <<queue, handle, refs, pipe, armed, received, sent>>

(* Mutant: the pipe is drained after try_recv, when it is registered.      *)
DrainAndRegister ==
    /\ rx = "empty"
    /\ armed' = TRUE /\ pipe' = FALSE
    /\ rx' = "pending"
    /\ UNCHANGED <<queue, handle, refs, received, sent>>

(* The old registration is removed, the pipe registered with this waker.   *)
Register ==
    /\ rx = "empty"
    /\ armed' = TRUE
    /\ rx' = "pending"
    /\ UNCHANGED <<queue, handle, refs, pipe, received, sent>>

(* Mutant: the error of the registration is let fall.                      *)
RegisterFailsUnseen ==
    /\ rx = "empty"
    /\ armed' = FALSE
    /\ rx' = "pending"
    /\ UNCHANGED <<queue, handle, refs, pipe, received, sent>>

(* ... or the reactor refuses - there is none, it is borrowed, its         *)
(* submission queue is full: the future is Ready with that error, the old  *)
(* registration is gone, and the channel is as open as before.             *)
RegisterFails ==
    /\ rx = "empty"
    /\ armed' = FALSE
    /\ rx' = "failed"
    /\ UNCHANGED <<queue, handle, refs, pipe, received, sent>>

(* The reactor finds the pipe readable and wakes the task.                 *)
Wake ==
    /\ rx = "pending" /\ armed /\ pipe
    /\ armed' = FALSE
    /\ rx' = "polled"
    /\ UNCHANGED <<queue, handle, refs, pipe, received, sent>>

(* block_on_local polls again when wait_for_io() has timed out.  Mutant:   *)
(* it waits without a timeout.                                             *)
PollWhenReadable == Consumer = "local" /\ Wake
PollAnyway ==
    /\ Consumer = "local"
    /\ rx = "pending"
    /\ rx' = "polled"
    /\ UNCHANGED <<queue, handle, refs, pipe, armed, received, sent>>

(* The future and the receiver are dropped outside a poll.                 *)
DropReceiver ==
    /\ rx \notin Polling \cup {"dropped"}
    /\ rx' = "dropped"
    /\ queue' = <<>>
    /\ armed' = FALSE
    /\ UNCHANGED <<handle, refs, pipe, received, sent>>

SenderStep(s) == Notify(s) \/ NotifyLast(s) \/ DropTx(s)

PollStep == Drain \/ TakeValue \/ FindClosed \/ FindEmpty \/ Register \/ RegisterFails

Over == rx \in {"closed", "dropped"} /\ Disconnected /\ UNCHANGED vars

Next ==
    \/ \E s, t \in Senders : Clone(s, t)
    \/ \E s \in Senders, v \in Values : Push(s, v)
    \/ \E s \in Senders : Release(s) \/ SenderStep(s)
    \/ Recv \/ PollStep \/ Wake \/ PollAnyway \/ DropReceiver
    \/ Over

Spec == Init /\ [][Next]_vars

(***************************************************************************)
(* Fairness: a send() or drop() that has begun goes on, a poll goes on,    *)
(* the reactor's thread keeps waiting for I/O, block_on_local keeps        *)
(* polling.  Nobody is obliged to begin anything.                          *)
(***************************************************************************)
FairSpec ==
    /\ Spec
    /\ \A s \in Senders : WF_vars(SenderStep(s))
    /\ WF_vars(PollStep)
    /\ WF_vars(Wake)
    /\ WF_vars(PollAnyway)

-----------------------------------------------------------------------------
(* The refinement mapping: a handle is closed when its tx is dropped.      *)
OpenHandles == {s \in Senders : handle[s] # "none"}
Receiver == IF rx \in Polling \cup {"pending"} THEN "waiting" ELSE rx

Promise == INSTANCE Channel WITH
    buffer <- queue, open <- OpenHandles, receiver <- Receiver,
    received <- received, sent <- sent

IsChannel == Promise!Spec
KeepsPromise == Promise!FairSpec

TypeOK ==
    /\ queue \in Seq(Values)
    /\ handle \in [Senders -> HandleStates]
    /\ refs \in Nat
    /\ pipe \in BOOLEAN
    /\ armed \in BOOLEAN
    /\ rx \in RxStates
    /\ received \in Seq(Values)
    /\ sent \in 0..MaxSends

(***************************************************************************)
(* ref_count is the number of handles that have not begun to be dropped,   *)
(* so exactly one drop - the last to begin - notifies.                     *)
(***************************************************************************)
LiveHandles == {s \in Senders : handle[s] \in {"open", "pushed"}}
RefsCountHandles == refs = Cardinality(LiveHandles)

(***************************************************************************)
(* No lost wake-up for values: a receiver whose poll is about to return or *)
(* has returned Pending while a value waits will be woken - the byte is in *)
(* the pipe or still to be written - and one that has returned Pending has *)
(* its pipe with the reactor.                                              *)
(***************************************************************************)
ByteComing == pipe \/ \E s \in Senders : handle[s] = "pushed"
NoLostValue ==
    /\ rx \in {"empty", "pending"} /\ queue # <<>> => ByteComing
    /\ rx = "pending" => armed

(***************************************************************************)
(* The same for the end of the channel: a recv() that is pending when the  *)
(* last sender is gone completes.  "recv should return Err after sender is *)
(* dropped" (tests/core/runtime/channel_test.rs).                          *)
(***************************************************************************)
PendingRecvEnds == rx = "pending" /\ Disconnected ~> rx # "pending"

=============================================================================
