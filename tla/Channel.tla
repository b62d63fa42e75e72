------------------------------ MODULE Channel ------------------------------
(***************************************************************************)
(* What async_channel promises (src/core/runtime/channel.rs, as its users  *)
(* and tests take it): senders put values in a queue, the receiver takes   *)
(* them in order, a pending recv() completes when there is a value or when *)
(* the last sender is gone.  It may also end with an error though senders  *)
(* and values are there, which leaves both as they are; a caller that does *)
(* not take that error for the end of the channel can call recv() again.   *)
(***************************************************************************)
EXTENDS Integers, Sequences, FiniteSets

CONSTANTS
    Senders,  \* the NotifySender handles
    Values,   \* values that are sent
    MaxSends  \* bound: values sent in all

VARIABLES
    buffer,    \* values sent and not received
    open,      \* senders that exist
    receiver,  \* "idle", "waiting" (in recv()), "closed" (no sender is left),
               \* "failed" (an Err on an open channel), "dropped"
    received,  \* values received, in order
    sent       \* number of values sent

vars == <<buffer, open, receiver, received, sent>>

Init ==
    /\ buffer = <<>>
    /\ open \in {{s} : s \in Senders}
    /\ receiver = "idle"
    /\ received = <<>>
    /\ sent = 0

Clone(s, t) ==
    /\ s \in open /\ t \notin open
    /\ open' = open \cup {t}
    /\ UNCHANGED <<buffer, receiver, received, sent>>

SendValue(s, v) ==
    /\ s \in open /\ sent < MaxSends
    /\ receiver # "dropped"
    /\ buffer' = Append(buffer, v)
    /\ sent' = sent + 1
    /\ UNCHANGED <<open, receiver, received>>

Close(s) ==
    /\ s \in open
    /\ open' = open \ {s}
    /\ UNCHANGED <<buffer, receiver, received, sent>>

Recv ==
    /\ receiver \in {"idle", "failed"}
    /\ receiver' = "waiting"
    /\ UNCHANGED <<buffer, open, received, sent>>

Deliver ==
    /\ receiver = "waiting" /\ buffer # <<>>
    /\ received' = Append(received, Head(buffer))
    /\ buffer' = Tail(buffer)
    /\ receiver' = "idle"
    /\ UNCHANGED <<open, sent>>

SeeClosed ==
    /\ receiver = "waiting" /\ buffer = <<>> /\ open = {}
    /\ receiver' = "closed"
    /\ UNCHANGED <<buffer, open, received, sent>>

Fail ==
    /\ receiver = "waiting"
    /\ receiver' = "failed"
    /\ UNCHANGED <<buffer, open, received, sent>>

DropReceiver ==
    /\ receiver # "dropped"
    /\ receiver' = "dropped" /\ buffer' = <<>>
    /\ UNCHANGED <<open, received, sent>>

Next ==
    \/ \E s \in Senders : \E t \in Senders : Clone(s, t)
    \/ \E s \in Senders, v \in Values : SendValue(s, v)
    \/ \E s \in Senders : Close(s)
    \/ Recv \/ Deliver \/ SeeClosed \/ Fail \/ DropReceiver

Spec == Init /\ [][Next]_vars

(* A pending recv() ends; no caller is obliged to call, send or drop.      *)
FairSpec == Spec /\ WF_vars(Deliver) /\ WF_vars(SeeClosed)

=============================================================================
