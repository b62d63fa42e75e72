---------------------------- MODULE Reactor_proofs ----------------------------
(***************************************************************************)
(* The runtime, inside and outside: the channel its parts are joined by,   *)
(* for every set of handles and values (AsyncChannel); wake-ups of the     *)
(* io_uring reactor, for every size of the submission queue and any number *)
(* of registrations and timers (IoUring); and what the drivers and the     *)
(* leaf futures make of them, for any number of tasks and leaves (Runtime).*)
(***************************************************************************)
EXTENDS AsyncChannel, IoUring, Runtime, SequenceLemmas, FiniteSetTheorems, TLAPS

-----------------------------------------------------------------------------
(* AsyncChannel: handles are counted, the channel is the one it promises.  *)

(* At the start the one handle is counted.                                 *)
LEMMA RefsInit == Init => RefsCountHandles
<1> USE DEF HandleStates
<1> SUFFICES ASSUME Init PROVE RefsCountHandles
  OBVIOUS
<1>1. PICK s \in Senders : handle = [t \in Senders |-> IF t = s THEN "open" ELSE "none"]
  BY DEF Init
<1>2. LiveHandles = {s}
  BY <1>1 DEF LiveHandles
<1>3. QED BY <1>2, FS_Singleton DEF Init, RefsCountHandles

(* A clone counts the handle it makes, a drop uncounts the one it ends.    *)
LEMMA RefsStep == TypeOK /\ RefsCountHandles /\ [Next]_vars => RefsCountHandles'
<1> USE DEF HandleStates
<1> SUFFICES ASSUME TypeOK, RefsCountHandles, [Next]_vars PROVE RefsCountHandles'
  OBVIOUS
<1>0. IsFiniteSet(LiveHandles)
  BY AsyncChannelAssumption, FS_Subset DEF LiveHandles
<1>1. ASSUME NEW s \in Senders, NEW t \in Senders, Clone(s, t) PROVE RefsCountHandles'
  <2>1. LiveHandles' = LiveHandles \cup {t} /\ t \notin LiveHandles
    BY <1>1 DEF Clone, LiveHandles, TypeOK
  <2>2. Cardinality(LiveHandles') = Cardinality(LiveHandles) + 1
    BY <1>0, <2>1, FS_AddElement
  <2>3. QED BY <1>1, <2>2 DEF Clone, RefsCountHandles
<1>2. ASSUME NEW s \in Senders, Release(s) PROVE RefsCountHandles'
  <2>1. LiveHandles' = LiveHandles \ {s} /\ s \in LiveHandles
    BY <1>2 DEF Release, LiveHandles, TypeOK
  <2>2. Cardinality(LiveHandles') = Cardinality(LiveHandles) - 1
    BY <1>0, <2>1, FS_RemoveElement
  <2>3. QED BY <1>2, <2>2 DEF Release, RefsCountHandles
<1>3. ASSUME NEW s \in Senders, (\E v \in Values : Push(s, v)) \/ SenderStep(s)
      PROVE RefsCountHandles'
  <2>1. LiveHandles' = LiveHandles /\ refs' = refs
    BY <1>3 DEF Push, SenderStep, Notify, NotifyLast, DropTx, LiveHandles, TypeOK
  <2>2. QED BY <2>1 DEF RefsCountHandles
<1>4. CASE Recv \/ PollStep \/ Wake \/ PollAnyway \/ DropReceiver \/ Over \/ UNCHANGED vars
  <2>1. UNCHANGED <<handle, refs>>
    BY <1>4 DEF Recv, PollStep, Drain, TakeValue, FindClosed, FindEmpty, Register, RegisterFails, Wake,
                PollAnyway, DropReceiver, Over, vars
  <2>2. QED BY <2>1 DEF RefsCountHandles, LiveHandles
<1>5. QED BY <1>1, <1>2, <1>3, <1>4 DEF Next

(* Every state of the asynchronous channel has the declared types; in      *)
(* particular ref_count, an unsigned number, is never decremented at zero. *)
THEOREM ChannelTypeCorrect == Spec => []TypeOK
<1>1. Init => TypeOK
  <2> SUFFICES ASSUME Init PROVE TypeOK
    OBVIOUS
  <2>1. PICK s \in Senders : handle = [t \in Senders |-> IF t = s THEN "open" ELSE "none"]
    BY DEF Init
  <2>2. handle \in [Senders -> HandleStates]
    BY <2>1 DEF HandleStates
  <2>3. queue \in Seq(Values) /\ received \in Seq(Values)
    BY EmptySeq DEF Init
  <2>4. pipe \in BOOLEAN /\ armed \in BOOLEAN /\ rx \in RxStates
    BY DEF Init, RxStates
  <2>5. refs \in Nat /\ sent \in 0..MaxSends
    BY AsyncChannelAssumption DEF Init
  <2>6. QED BY <2>2, <2>3, <2>4, <2>5 DEF TypeOK
<1>2. TypeOK /\ RefsCountHandles /\ [Next]_vars => TypeOK'
  <2> SUFFICES ASSUME TypeOK, RefsCountHandles, [Next]_vars PROVE TypeOK'
    OBVIOUS
  <2>0. RefsCountHandles'
    BY RefsStep
  <2> USE AsyncChannelAssumption DEF TypeOK, HandleStates, RxStates, Polling
  <2>1. ASSUME NEW s \in Senders, NEW t \in Senders, Clone(s, t) PROVE TypeOK'
    BY <2>1 DEF Clone
  <2>2. ASSUME NEW s \in Senders, NEW v \in Values, Push(s, v) PROVE TypeOK'
    BY <2>2 DEF Push
  <2>3. ASSUME NEW s \in Senders, Release(s) PROVE TypeOK'
    <3>1. LiveHandles' \subseteq Senders
      BY DEF LiveHandles
    <3>2. Cardinality(LiveHandles') \in Nat
      BY <3>1, FS_Subset, FS_CardinalityType
    <3>3. refs' \in Nat
      BY <2>0, <3>2 DEF RefsCountHandles
    <3>4. QED BY <2>3, <3>3 DEF Release
  <2>4. ASSUME NEW s \in Senders, SenderStep(s) PROVE TypeOK'
    BY <2>4 DEF SenderStep, Notify, NotifyLast, DropTx
  <2>5. CASE Recv BY <2>5 DEF Recv
  <2>6. CASE PollStep
    <3>1. CASE TakeValue
      <4>1. Head(queue) \in Values /\ Tail(queue) \in Seq(Values)
        BY <3>1, HeadTailProperties DEF TakeValue
      <4>2. QED BY <3>1, <4>1 DEF TakeValue
    <3>2. CASE Drain \/ FindClosed \/ FindEmpty \/ Register \/ RegisterFails
      BY <3>2 DEF Drain, FindClosed, FindEmpty, Register, RegisterFails
    <3>3. QED BY <2>6, <3>1, <3>2 DEF PollStep
  <2>7. CASE Wake BY <2>7 DEF Wake
  <2>8. CASE PollAnyway BY <2>8 DEF PollAnyway
  <2>9. CASE DropReceiver BY <2>9, EmptySeq DEF DropReceiver
  <2>10. CASE Over BY <2>10 DEF Over, vars
  <2>11. CASE UNCHANGED vars BY <2>11 DEF vars
  <2>12. QED
    BY <2>1, <2>2, <2>3, <2>4, <2>5, <2>6, <2>7, <2>8, <2>9, <2>10, <2>11 DEF Next
<1>3. QED BY <1>1, <1>2, RefsInit, RefsStep, PTL DEF Spec

-----------------------------------------------------------------------------
(***************************************************************************)
(* The reference count never miscounts, so that of all the drops of a      *)
(* channel's handles exactly one notifies (NotifySender::clone and drop).  *)
(***************************************************************************)
THEOREM RefsAreRight == Spec => []RefsCountHandles
  BY RefsInit, RefsStep, ChannelTypeCorrect, PTL DEF Spec

-----------------------------------------------------------------------------
(***************************************************************************)
(* No wake-up for a value is lost, whatever the senders' threads do        *)
(* between a push and its notification.                                    *)
(***************************************************************************)
THEOREM NoValueIsLost == Spec => []NoLostValue
<1>1. Init => NoLostValue
  BY DEF Init, NoLostValue
<1>2. TypeOK /\ NoLostValue /\ [Next]_vars => NoLostValue'
  <2> SUFFICES ASSUME TypeOK, NoLostValue, [Next]_vars PROVE NoLostValue'
    OBVIOUS
  <2> USE DEF TypeOK, NoLostValue, ByteComing, HandleStates, RxStates, Polling
  <2>1. ASSUME NEW s \in Senders, NEW t \in Senders, Clone(s, t) PROVE NoLostValue'
    BY <2>1 DEF Clone
  <2>2. ASSUME NEW s \in Senders, NEW v \in Values, Push(s, v) PROVE NoLostValue'
    <3>1. handle'[s] = "pushed"
      BY <2>2 DEF Push
    <3>2. QED BY <2>2, <3>1 DEF Push
  <2>3. ASSUME NEW s \in Senders, Release(s) PROVE NoLostValue'
    BY <2>3 DEF Release
  <2>4. ASSUME NEW s \in Senders, SenderStep(s) PROVE NoLostValue'
    BY <2>4 DEF SenderStep, Notify, NotifyLast, DropTx
  <2>5. CASE Recv BY <2>5 DEF Recv
  <2>6. CASE PollStep
    BY <2>6 DEF PollStep, Drain, TakeValue, FindClosed, FindEmpty, Register, RegisterFails
  <2>7. CASE Wake BY <2>7 DEF Wake
  <2>8. CASE PollAnyway BY <2>8 DEF PollAnyway
  <2>9. CASE DropReceiver BY <2>9 DEF DropReceiver
  <2>10. CASE Over BY <2>10 DEF Over, vars
  <2>11. CASE UNCHANGED vars BY <2>11 DEF vars
  <2>12. QED
    BY <2>1, <2>2, <2>3, <2>4, <2>5, <2>6, <2>7, <2>8, <2>9, <2>10, <2>11 DEF Next
<1>3. QED BY <1>1, <1>2, ChannelTypeCorrect, PTL DEF Spec

-----------------------------------------------------------------------------
(***************************************************************************)
(* The asynchronous channel implements Channel: every step of a sender or  *)
(* of a poll is a step of the promised channel or invisible to it, the     *)
(* error of a reactor that refuses the registration included.              *)
(***************************************************************************)
THEOREM ImplementsChannel == Spec => IsChannel
<1> USE DEF HandleStates, RxStates, Polling
<1>1. Init => Promise!Init
  <2> SUFFICES ASSUME Init PROVE Promise!Init
    OBVIOUS
  <2>1. PICK s \in Senders : handle = [t \in Senders |-> IF t = s THEN "open" ELSE "none"]
    BY DEF Init
  <2>2. OpenHandles = {s}
    BY <2>1 DEF OpenHandles
  <2>3. QED BY <2>2 DEF Init, Promise!Init, Receiver
<1>2. TypeOK /\ [Next]_vars => [Promise!Next]_(Promise!vars)
  <2> SUFFICES ASSUME TypeOK, [Next]_vars
               PROVE Promise!Next \/ UNCHANGED Promise!vars
    OBVIOUS
  <2> USE DEF TypeOK
  <2>1. ASSUME NEW s \in Senders, NEW t \in Senders, Clone(s, t)
        PROVE Promise!Clone(s, t)
    <3>1. OpenHandles' = OpenHandles \cup {t}
      BY <2>1 DEF Clone, OpenHandles
    <3>2. QED BY <2>1, <3>1 DEF Clone, Promise!Clone, OpenHandles, Receiver
  <2>2. ASSUME NEW s \in Senders, NEW v \in Values, Push(s, v)
        PROVE Promise!SendValue(s, v)
    <3>1. OpenHandles' = OpenHandles
      BY <2>2 DEF Push, OpenHandles
    <3>2. QED BY <2>2, <3>1 DEF Push, Promise!SendValue, OpenHandles, Receiver
  <2>3. ASSUME NEW s \in Senders, Release(s) \/ Notify(s) \/ NotifyLast(s)
        PROVE UNCHANGED Promise!vars
    <3>1. OpenHandles' = OpenHandles
      BY <2>3 DEF Release, Notify, NotifyLast, OpenHandles
    <3>2. QED BY <2>3, <3>1 DEF Release, Notify, NotifyLast, Promise!vars, Receiver
  <2>4. ASSUME NEW s \in Senders, DropTx(s) PROVE Promise!Close(s)
    <3>1. OpenHandles' = OpenHandles \ {s}
      BY <2>4 DEF DropTx, OpenHandles
    <3>2. QED BY <2>4, <3>1 DEF DropTx, Promise!Close, OpenHandles, Receiver
  <2>5. CASE Recv
    BY <2>5 DEF Recv, Promise!Next, Promise!Recv, OpenHandles, Receiver
  <2>6. CASE PollStep
    <3>1. CASE Drain \/ FindEmpty \/ Register
      BY <3>1 DEF Drain, FindEmpty, Register, Promise!vars, OpenHandles, Receiver
    <3>2. CASE TakeValue
      BY <3>2 DEF TakeValue, Promise!Next, Promise!Deliver, OpenHandles, Receiver
    <3>3. CASE FindClosed
      <4>1. OpenHandles = {}
        BY <3>3 DEF FindClosed, Disconnected, OpenHandles
      <4>2. QED
        BY <3>3, <4>1 DEF FindClosed, Promise!Next, Promise!SeeClosed, OpenHandles, Receiver
    <3>4. CASE RegisterFails
      BY <3>4 DEF RegisterFails, Promise!Next, Promise!Fail, OpenHandles, Receiver
    <3>5. QED BY <2>6, <3>1, <3>2, <3>3, <3>4 DEF PollStep
  <2>7. CASE Wake
    BY <2>7 DEF Wake, Promise!vars, OpenHandles, Receiver
  <2>8. CASE PollAnyway
    BY <2>8 DEF PollAnyway, Promise!vars, OpenHandles, Receiver
  <2>9. CASE DropReceiver
    BY <2>9 DEF DropReceiver, Promise!Next, Promise!DropReceiver, OpenHandles, Receiver
  <2>10. CASE Over \/ UNCHANGED vars
    BY <2>10 DEF Over, vars, Promise!vars, OpenHandles, Receiver
  <2>11. QED
    BY <2>1, <2>2, <2>3, <2>4, <2>5, <2>6, <2>7, <2>8, <2>9, <2>10
    DEF Next, SenderStep, Promise!Next
<1>3. QED
  BY <1>1, <1>2, ChannelTypeCorrect, PTL DEF Spec, IsChannel, Promise!Spec

-----------------------------------------------------------------------------
(* IoUring: no waker is forgotten, none fires but for its own handle.      *)

(***************************************************************************)
(* The elements of SetToSeq(S) are those of S.                             *)
(***************************************************************************)
LEMMA SetToSeqHasAll ==
  ASSUME NEW T, NEW S \in SUBSET T, IsFiniteSet(S)
  PROVE  SetToSeq(S) \in Seq(T) /\ ToSet(SetToSeq(S)) = S
  <1> DEFINE n == Cardinality(S)
  <1>1. n \in Nat /\ ExistsBijection(1..n, S) BY FS_CardinalityType
  <1>2. PICK g \in [1..n -> S] : IsInjective(g)
    BY <1>1 DEF ExistsBijection, Bijection, Injection
  <1>3. SetToSeq(S) \in [1..n -> S] /\ IsInjective(SetToSeq(S)) BY <1>2 DEF SetToSeq
  <1>4. SetToSeq(S) \in Injection(1..n, S) BY <1>3 DEF Injection
  <1>5. IsFiniteSet(1..n) /\ Cardinality(1..n) = n BY <1>1, FS_Interval
  <1>6. SetToSeq(S) \in Surjection(1..n, S) BY <1>4, <1>5, FS_Injection
  <1>7. SetToSeq(S) \in Seq(T) /\ DOMAIN SetToSeq(S) = 1..n BY <1>1, <1>3
  <1>8. \A x \in S : \E i \in 1..n : SetToSeq(S)[i] = x BY <1>6 DEF Surjection
  <1>9. QED BY <1>3, <1>7, <1>8 DEF ToSet

TokensOf(s, op) == {s[i].token : i \in {j \in DOMAIN s : s[j].op = op}}

LEMMA TokensOfAppend ==
  ASSUME NEW s \in Seq(Submissions), NEW e \in Submissions, NEW op
  PROVE  TokensOf(Append(s, e), op) = TokensOf(s, op) \cup (IF e.op = op THEN {e.token} ELSE {})
  <1>1. \A i \in DOMAIN s : i \in DOMAIN Append(s, e) /\ Append(s, e)[i] = s[i] OBVIOUS
  <1>2. Len(s) + 1 \in DOMAIN Append(s, e) /\ Append(s, e)[Len(s) + 1] = e OBVIOUS
  <1>3. \A i \in DOMAIN Append(s, e) : i \in DOMAIN s \/ i = Len(s) + 1 OBVIOUS
  <1>4. QED BY <1>1, <1>2, <1>3 DEF TokensOf

UringTypeOK ==
  /\ sq \in Seq(Submissions)
  /\ wakers \subseteq Tokens /\ polling \subseteq Tokens
  /\ nextToken \in Nat /\ timeouts \in Nat
  /\ cq \in Seq(Nat)

(***************************************************************************)
(* Tokens are given out once: none the ring knows of is given out later.   *)
(***************************************************************************)
TokensAreOld ==
  /\ \A t \in wakers \cup polling \cup ToSet(cq) : t < nextToken
  /\ \A t \in TokensOf(sq, "POLL_ADD") \cup TokensOf(sq, "POLL_REMOVE") :
       t \in Tokens /\ t < nextToken
  /\ nextToken >= 2

(***************************************************************************)
(* A registration being removed has no waker any more, and a completion    *)
(* that finds a waker is that of a ready handle.                           *)
(***************************************************************************)
FiresForReady ==
  /\ TokensOf(sq, "POLL_REMOVE") \cap wakers = {}
  /\ ToSet(cq) \cap wakers \subseteq readied
  /\ woken \subseteq readied

Covered == wakers \subseteq TokensOf(sq, "POLL_ADD") \cup polling \cup ToSet(cq)

UringInv == UringTypeOK /\ TokensAreOld /\ FiresForReady /\ Covered

LEMMA UringInitInv == ASSUME IoUringAssumption PROVE UringInit => UringInv
  BY DEF IoUringAssumption, UringInit, UringInv, UringTypeOK, TokensAreOld, FiresForReady, Covered,
         TokensOf, ToSet

LEMMA RegisterInv == ASSUME IoUringAssumption, UringInv, UringRegister PROVE UringInv'
  <1> USE DEF UringInv, UringTypeOK, TokensAreOld, FiresForReady, Covered, IoUringAssumption, Tokens
  <1>1. nextToken' = nextToken + 1 /\ nextToken \in 2..MaxToken
        /\ UNCHANGED <<polling, timeouts, cq, readied, woken>>
    BY DEF UringRegister
  <1>2. CASE Full
    <2>1. UNCHANGED <<sq, wakers>> BY <1>2 DEF UringRegister
    <2>2. QED BY <1>1, <2>1
  <1>3. CASE ~Full
    <2> DEFINE e == PollAdd(nextToken)
    <2>1. sq' = Append(sq, e) /\ wakers' = wakers \cup {nextToken} BY <1>3 DEF UringRegister
    <2>2. e \in Submissions /\ e.op = "POLL_ADD" /\ e.token = nextToken
      BY <1>1 DEF PollAdd, Submissions
    <2>3. /\ TokensOf(sq', "POLL_ADD") = TokensOf(sq, "POLL_ADD") \cup {nextToken}
          /\ TokensOf(sq', "POLL_REMOVE") = TokensOf(sq, "POLL_REMOVE")
      <3>1. \A op : TokensOf(Append(sq, e), op) = TokensOf(sq, op) \cup (IF e.op = op THEN {e.token} ELSE {})
        BY <2>2, TokensOfAppend
      <3>2. QED BY <2>1, <2>2, <3>1
    <2>4. UringTypeOK' BY <1>1, <2>1, <2>2
    <2>5. TokensAreOld' BY <1>1, <2>1, <2>3
    <2>6. FiresForReady' BY <1>1, <2>1, <2>3
    <2>7. Covered' BY <1>1, <2>1, <2>3
    <2>8. QED BY <2>4, <2>5, <2>6, <2>7
  <1>4. QED BY <1>2, <1>3

LEMMA DeregisterInv ==
  ASSUME IoUringAssumption, UringInv, NEW token \in wakers, Deregister(token) PROVE UringInv'
  <1> USE DEF UringInv, UringTypeOK, TokensAreOld, FiresForReady, Covered, IoUringAssumption, Tokens
  <1>1. wakers' = wakers \ {token} /\ UNCHANGED <<nextToken, polling, timeouts, cq, readied, woken>>
    BY DEF Deregister
  <1>2. CASE Full
    <2>1. sq' = sq BY <1>2 DEF Deregister
    <2>2. QED BY <1>1, <2>1
  <1>3. CASE ~Full
    <2> DEFINE e == PollRemove(token)
    <2>1. sq' = Append(sq, e) BY <1>3 DEF Deregister
    <2>2. e \in Submissions /\ e.op = "POLL_REMOVE" /\ e.token = token
      BY DEF PollRemove, Submissions
    <2>3. /\ TokensOf(sq', "POLL_ADD") = TokensOf(sq, "POLL_ADD")
          /\ TokensOf(sq', "POLL_REMOVE") = TokensOf(sq, "POLL_REMOVE") \cup {token}
      <3>1. \A op : TokensOf(Append(sq, e), op) = TokensOf(sq, op) \cup (IF e.op = op THEN {e.token} ELSE {})
        BY <2>2, TokensOfAppend
      <3>2. QED BY <2>1, <2>2, <3>1
    <2>4. UringTypeOK' BY <1>1, <2>1, <2>2
    <2>5. TokensAreOld' BY <1>1, <2>3
    <2>6. FiresForReady' BY <1>1, <2>3
    <2>7. Covered' BY <1>1, <2>3
    <2>8. QED BY <2>4, <2>5, <2>6, <2>7
  <1>4. QED BY <1>2, <1>3

(***************************************************************************)
(* Entering the ring: what was to be polled is polled or, removed in the   *)
(* same batch, completes; and what completes that way has no waker.        *)
(***************************************************************************)
LEMMA EnterInv == ASSUME IoUringAssumption, UringInv, Enter PROVE UringInv'
  <1> USE DEF UringInv, UringTypeOK, TokensAreOld, FiresForReady, Covered, IoUringAssumption, Tokens
  <1> DEFINE ops == IF Full THEN sq ELSE Append(sq, Timeout)
             added == TokensOf(ops, "POLL_ADD")
             removed == TokensOf(ops, "POLL_REMOVE")
             ended == (polling \cup added) \cap removed
             acks == [t \in 1..Cardinality(removed) |-> RemoveData]
  <1>1. /\ polling' = (polling \cup added) \ removed
        /\ cq' = cq \o SetToSeq(ended) \o acks
        /\ timeouts' = IF Full THEN timeouts ELSE timeouts + 1
        /\ sq' = <<>> /\ UNCHANGED <<wakers, nextToken, readied, woken>>
    BY DEF Enter, TokensOf
  <1>2. added = TokensOf(sq, "POLL_ADD") /\ removed = TokensOf(sq, "POLL_REMOVE")
    <2>1. Timeout \in Submissions /\ Timeout.op = "TIMEOUT" BY DEF Timeout, Submissions
    <2>2. \A op : TokensOf(Append(sq, Timeout), op)
                   = TokensOf(sq, op) \cup (IF Timeout.op = op THEN {Timeout.token} ELSE {})
      BY <2>1, TokensOfAppend
    <2>3. QED BY <2>1, <2>2
  <1>3. added \subseteq Tokens /\ removed \subseteq Tokens BY <1>2
  <1>4. IsFiniteSet(Tokens) BY FS_Interval
  <1>5. IsFiniteSet(ended) /\ IsFiniteSet(removed) BY <1>3, <1>4, FS_Subset
  <1>6. SetToSeq(ended) \in Seq(Nat) /\ ToSet(SetToSeq(ended)) = ended
    <2>1. ended \in SUBSET Nat BY <1>3
    <2>2. QED BY <2>1, <1>5, SetToSeqHasAll
  <1>7. acks \in Seq(Nat) /\ ToSet(acks) \subseteq {RemoveData}
    <2>1. Cardinality(removed) \in Nat BY <1>5, FS_CardinalityType
    <2>2. QED BY <2>1 DEF ToSet, RemoveData
  <1>8. cq' \in Seq(Nat) /\ ToSet(cq') = ToSet(cq) \cup ended \cup ToSet(acks)
    <2>1. cq \o SetToSeq(ended) \in Seq(Nat) BY <1>6
    <2>2. \A s, t \in Seq(Nat) : ToSet(s \o t) = ToSet(s) \cup ToSet(t) BY ToSetOfConcat
    <2> HIDE DEF ended, acks, UringInv
    <2>3. cq \in Seq(Nat) BY DEF UringInv
    <2>4. ToSet(cq \o SetToSeq(ended)) = ToSet(cq) \cup ended BY <1>6, <2>2, <2>3
    <2>5. (cq \o SetToSeq(ended)) \o acks \in Seq(Nat) BY <1>7, <2>1
    <2>6. QED BY <1>1, <1>7, <2>1, <2>2, <2>4, <2>5
  <1>9. TokensOf(sq', "POLL_ADD") = {} /\ TokensOf(sq', "POLL_REMOVE") = {} BY <1>1 DEF TokensOf
  <1>10. UringTypeOK'
    <2>1. polling' \subseteq Tokens BY <1>1, <1>3
    <2>2. timeouts' \in Nat BY <1>1
    <2>3. sq' \in Seq(Submissions) /\ wakers' \subseteq Tokens /\ nextToken' \in Nat BY <1>1
    <2>4. QED BY <1>8, <2>1, <2>2, <2>3
  <1>11. TokensAreOld'
    <2>1. \A t \in ToSet(acks) : t < nextToken 
      <3>1. RemoveData < nextToken BY DEF RemoveData
      <3> HIDE DEF acks
      <3>2. QED BY <1>7, <3>1
    <2>2. \A t \in ended \cup polling' : t < nextToken BY <1>1, <1>2
    <2>3. QED BY <1>1, <1>8, <1>9, <2>1, <2>2
  <1>12. FiresForReady'
    <2>1. RemoveData \notin wakers BY DEF RemoveData
    <2>2. ended \cap wakers = {} BY <1>2
    <2>3. QED BY <1>1, <1>7, <1>8, <1>9, <2>1, <2>2
  <1>13. Covered' BY <1>1, <1>2, <1>8
  <1>14. QED BY <1>10, <1>11, <1>12, <1>13

LEMMA KernelInv == ASSUME IoUringAssumption, UringInv, Kernel PROVE UringInv'
  <1> USE DEF UringInv, UringTypeOK, TokensAreOld, FiresForReady, Covered, IoUringAssumption, Tokens
  <1>1. ASSUME NEW token \in polling, HandleReady(token) PROVE UringInv'
    <2>1. token \in Nat /\ cq' = Append(cq, token) BY <1>1 DEF HandleReady
    <2>2. ToSet(cq') = ToSet(cq) \cup {token} BY <2>1, ToSetOfAppend
    <2>3. /\ polling' = polling \ {token} /\ readied' = readied \cup {token}
          /\ UNCHANGED <<sq, wakers, nextToken, timeouts, woken>>
      BY <1>1 DEF HandleReady
    <2>4. UringTypeOK' BY <2>1, <2>3
    <2>5. QED BY <2>2, <2>3, <2>4
  <1>2. ASSUME TimerFires PROVE UringInv'
    <2>1. TimeoutData \in Nat /\ cq' = Append(cq, TimeoutData) BY <1>2 DEF TimerFires, TimeoutData
    <2>2. ToSet(cq') = ToSet(cq) \cup {TimeoutData} BY <2>1, ToSetOfAppend
    <2>3. /\ timeouts > 0 /\ timeouts' = timeouts - 1
          /\ UNCHANGED <<sq, wakers, nextToken, polling, readied, woken>>
      BY <1>2 DEF TimerFires
    <2>4. UringTypeOK' BY <2>1, <2>3
    <2>5. QED BY <2>2, <2>3, <2>4 DEF TimeoutData
  <1>3. QED BY <1>1, <1>2 DEF Kernel

LEMMA ReapInv == ASSUME UringInv, Reap PROVE UringInv'
  <1> USE DEF UringInv, UringTypeOK, TokensAreOld, FiresForReady, Covered
  <1>1. /\ wakers' = wakers \ ToSet(cq) /\ woken' = woken \cup (wakers \cap ToSet(cq))
        /\ cq' = <<>> /\ UNCHANGED <<sq, nextToken, polling, timeouts, readied>>
    BY DEF Reap, Fired
  <1>2. ToSet(cq') = {} BY <1>1 DEF ToSet
  <1>3. QED BY <1>1, <1>2

LEMMA UringNextInv == ASSUME IoUringAssumption, UringInv, [UringNext]_uringVars PROVE UringInv'
  <1>1. CASE UringRegister BY <1>1, RegisterInv
  <1>2. CASE \E token \in wakers : Deregister(token) BY <1>2, DeregisterInv
  <1>3. CASE Enter BY <1>3, EnterInv
  <1>4. CASE Reap BY <1>4, ReapInv
  <1>5. CASE Interrupted
    BY <1>5 DEF Interrupted, UringInv, UringTypeOK, TokensAreOld, FiresForReady, Covered
  <1>6. CASE Kernel BY <1>6, KernelInv
  <1>7. CASE UNCHANGED uringVars
    BY <1>7 DEF uringVars, UringInv, UringTypeOK, TokensAreOld, FiresForReady, Covered
  <1>8. QED BY <1>1, <1>2, <1>3, <1>4, <1>5, <1>6, <1>7 DEF UringNext

(***************************************************************************)
(* For every size of the queue, and any number of registrations, removals  *)
(* and timers: a waker is never forgotten, and none is fired but by its    *)
(* own ready handle, although POLL_REMOVEs and TIMEOUTs are dropped when   *)
(* the queue is full (IoUringReactor, io_uring.rs).                        *)
(***************************************************************************)
THEOREM WakersAreFired == ASSUME IoUringAssumption PROVE UringSpec => []WakersFitPolls
  <1>1. UringInv => WakersFitPolls
    BY DEF UringInv, FiresForReady, Covered, WakersFitPolls, WakersAreCovered, WokenWereReady,
           Submitted, TokensOf
  <1>2. QED BY UringInitInv, UringNextInv, <1>1, PTL DEF UringSpec

-----------------------------------------------------------------------------
(***************************************************************************)
(* Runtime: the inductive invariant.                                       *)
(***************************************************************************)
RuntimeTypeOK ==
  /\ driver \in {"block_on_local", "block_on", "Runtime"}
  /\ readyQ \in Seq(Nat) /\ inbox \in Seq(Nat) /\ task \in Nat
  /\ rest \subseteq Leaves /\ held \subseteq Leaves /\ ready \subseteq Leaves
  /\ leaf \in [Leaves -> {"new", "pending", "done", "failed"}]
  /\ regs \in [Leaves -> 0..MaxRegs]
  /\ queued \in Nat

(***************************************************************************)
(* What is left of a poll are unfinished leaves of the task being polled.  *)
(***************************************************************************)
RestIsOfTask == \A f \in rest : TaskOf(f) = task /\ ~Finished(f)

(***************************************************************************)
(* Runtime runs nothing that was not submitted to it.                      *)
(***************************************************************************)
OnlySubmittedRun ==
  driver = "Runtime" =>
    /\ ToSet(inbox) \subseteq submitted /\ ToSet(readyQ) \subseteq submitted
    /\ task = 0 \/ task \in submitted
    /\ \A f \in Leaves : regs[f] > 0 => TaskOf(f) \in submitted

(***************************************************************************)
(* A task of one leaf is on its way to one poll at most - submitted, ready,*)
(* being polled, or to be woken by a registration - and the registration   *)
(* of a leaf that holds a token is armed until the handle is readable.     *)
(***************************************************************************)
PolledNow(f) == task = TaskOf(f) /\ f \in rest
WakesOnce(f) ==
  CountIn(inbox, {TaskOf(f)}) + CountIn(readyQ, {TaskOf(f)}) + (IF PolledNow(f) THEN 1 ELSE 0) + regs[f] <= 1
HeldIsArmed(f) == f \in held /\ regs[f] = 0 => f \in ready
AloneInv == \A f \in Leaves : Alone(f) => WakesOnce(f) /\ HeldIsArmed(f)

RuntimeInv == RuntimeTypeOK /\ RestIsOfTask /\ OnlySubmittedRun /\ AloneInv /\ LeavesAreServed

-----------------------------------------------------------------------------
LEMMA TasksAreNumbers ==
  ASSUME RuntimeAssumption PROVE \A f \in Leaves : TaskOf(f) \in Nat \ {0}
  BY DEF RuntimeAssumption, TaskOf

LEMMA LeavesAreNumbers ==
  ASSUME RuntimeAssumption PROVE Leaves \subseteq Nat /\ IsFiniteSet(Leaves)
<1>1. Len(Kinds) \in Nat /\ Leaves = 1..Len(Kinds)
  BY LenProperties DEF RuntimeAssumption, Leaves
<1>2. QED BY <1>1, FS_Interval

LEMMA SameTasks ==
  ASSUME driver' = driver
  PROVE  \A f \in Leaves : TaskOf(f)' = TaskOf(f) /\ (Alone(f)' <=> Alone(f))
BY DEF TaskOf, Alone

LEMMA CountsAreNumbers ==
  ASSUME NEW q \in Seq(Nat), NEW t
  PROVE  CountIn(q, {t}) \in Nat /\ (t \notin ToSet(q) => CountIn(q, {t}) = 0)
<1>1. CountIn(q, {t}) \in Nat /\ ((\A i \in DOMAIN q : q[i] \notin {t}) <=> CountIn(q, {t}) = 0)
  BY CountInSequences
<1>2. t \notin ToSet(q) => \A i \in DOMAIN q : q[i] \notin {t}
  BY DEF ToSet
<1>3. QED BY <1>1, <1>2

(***************************************************************************)
(* The order of the completions does not matter: each leaf that fires has  *)
(* its task woken, and once if it is alone.                                *)
(***************************************************************************)
LEMMA WakesOfFire ==
  ASSUME RuntimeAssumption, RuntimeTypeOK, NEW order \in SetToSeqs(Completions)
  PROVE  /\ Wakes(order) \in Seq(Nat)
         /\ ToSet(Wakes(order)) = {TaskOf(f) : f \in Firing}
         /\ \A f \in Leaves : Alone(f) /\ regs[f] <= 1 =>
              CountIn(Wakes(order), {TaskOf(f)}) = IF f \in Firing THEN 1 ELSE 0
<1> DEFINE n == Cardinality(Completions)
           w == Wakes(order)
<1>1. IsFiniteSet(Completions) /\ n \in Nat
  <2>1. IsFiniteSet(Firing)
    BY LeavesAreNumbers, FS_Subset DEF Firing, RuntimeTypeOK
  <2>2. IsFiniteSet(1..MaxRegs)
    BY FS_Interval DEF RuntimeAssumption
  <2>3. IsFiniteSet(Firing \X (1..MaxRegs))
    BY <2>1, <2>2, FS_Product
  <2>4. Completions \subseteq Firing \X (1..MaxRegs)
    BY DEF Completions
  <2>5. QED BY <2>3, <2>4, FS_Subset, FS_CardinalityType
<1>2. order \in [1..n -> Completions] /\ \A i, j \in 1..n : i # j => order[i] # order[j]
  BY DEF SetToSeqs
<1>3. order \in Injection(1..n, Completions)
  BY <1>2 DEF Injection, IsInjective
<1>4. IsFiniteSet(1..n) /\ Cardinality(1..n) = n
  BY <1>1, FS_Interval
<1>5. \A c \in Completions : \E i \in 1..n : order[i] = c
  <2>1. order \in Surjection(1..n, Completions)
    BY <1>1, <1>3, <1>4, FS_Injection
  <2>2. QED BY <2>1 DEF Surjection
<1>6. \A i \in 1..n : /\ order[i] = <<order[i][1], order[i][2]>>
                       /\ order[i][1] \in Firing /\ order[i][1] \in Leaves
                       /\ order[i][2] \in 1..MaxRegs /\ order[i][2] <= regs[order[i][1]]
  BY <1>2 DEF Completions, Firing, RuntimeTypeOK
<1>7. DOMAIN w = 1..n /\ \A i \in 1..n : w[i] = TaskOf(order[i][1])
  BY <1>2 DEF Wakes
<1>8. w \in Seq(Nat)
  <2>1. \A i \in 1..n : w[i] \in Nat
    BY <1>6, <1>7, TasksAreNumbers
  <2>2. w = [i \in 1..n |-> w[i]]
    BY <1>2 DEF Wakes
  <2> HIDE DEF w
  <2>3. w \in [1..n -> Nat]
    BY <2>1, <2>2
  <2>4. QED BY <1>1, <2>3
<1>9. \A f \in Firing : <<f, 1>> \in Completions
  BY DEF Completions, Firing, RuntimeTypeOK, RuntimeAssumption
<1>10. ToSet(w) = {TaskOf(f) : f \in Firing}
  <2>1. \A i \in 1..n : w[i] \in {TaskOf(f) : f \in Firing}
    BY <1>6, <1>7
  <2>2. ASSUME NEW f \in Firing PROVE \E i \in 1..n : w[i] = TaskOf(f)
    <3>1. PICK i \in 1..n : order[i] = <<f, 1>>
      BY <1>5, <1>9
    <3>2. QED BY <1>7, <3>1
  <2> HIDE DEF w
  <2>3. QED BY <1>7, <2>1, <2>2 DEF ToSet
<1>11. ASSUME NEW f \in Leaves, Alone(f), regs[f] <= 1
       PROVE  CountIn(w, {TaskOf(f)}) = IF f \in Firing THEN 1 ELSE 0
  <2> DEFINE I == {i \in 1..n : w[i] \in {TaskOf(f)}}
  <2>1. CountIn(w, {TaskOf(f)}) = Cardinality(I)
    BY <1>7 DEF CountIn
  <2>2. \A i \in I : order[i] = <<f, 1>> /\ f \in Firing
    <3>1. SUFFICES ASSUME NEW i \in I PROVE order[i] = <<f, 1>> /\ f \in Firing
      OBVIOUS
    <3>2. TaskOf(order[i][1]) = TaskOf(f) /\ order[i][1] \in Leaves
      BY <1>6, <1>7
    <3>3. order[i][1] = f
      BY <1>11, <3>2 DEF Alone
    <3>4. order[i][2] = 1
      BY <1>6, <1>11, <3>3 DEF RuntimeTypeOK, RuntimeAssumption
    <3>5. QED BY <1>6, <3>3, <3>4
  <2>3. CASE f \in Firing
    <3>1. PICK i \in 1..n : order[i] = <<f, 1>>
      BY <1>5, <1>9, <2>3
    <3>2. i \in I
      BY <1>7, <3>1
    <3>3. \A j \in I : j = i
      BY <1>2, <2>2, <3>1
    <3>4. I = {i}
      BY <3>2, <3>3
    <3>5. Cardinality({i}) = 1
      BY FS_Singleton
    <3>6. QED BY <2>1, <2>3, <3>4, <3>5
  <2>4. CASE f \notin Firing
    <3>1. I = {}
      BY <2>2, <2>4
    <3>2. QED BY <2>1, <2>4, <3>1, FS_EmptySet
  <2>5. QED BY <2>3, <2>4
<1>12. QED BY <1>8, <1>10, <1>11

-----------------------------------------------------------------------------
LEMMA RuntimeInitInv == ASSUME RuntimeAssumption PROVE RuntimeInit => RuntimeInv
<1> SUFFICES ASSUME RuntimeInit PROVE RuntimeInv
  OBVIOUS
<1>1. /\ driver \in {"block_on_local", "block_on", "Runtime"}
      /\ inbox = <<>> /\ task = 0 /\ rest = {} /\ held = {} /\ ready = {} /\ queued = 0
      /\ leaf = [f \in Leaves |-> "new"] /\ regs = [f \in Leaves |-> 0]
      /\ readyQ = <<1>> \/ readyQ = <<>>
      /\ driver = "Runtime" => readyQ = <<>>
  BY DEF RuntimeInit, RuntimeAssumption
<1>2. RuntimeTypeOK
  <2>1. readyQ \in Seq(Nat) /\ inbox \in Seq(Nat)
    <3>1. <<1>> \in Seq(Nat) /\ <<>> \in Seq(Nat)
      OBVIOUS
    <3>2. QED BY ONLY <1>1, <3>1
  <2>2. regs \in [Leaves -> 0..MaxRegs]
    BY <1>1 DEF RuntimeAssumption
  <2>3. QED BY <1>1, <2>1, <2>2 DEF RuntimeTypeOK
<1>3. RestIsOfTask /\ OnlySubmittedRun
  BY <1>1, ToSetOfEmpty DEF RestIsOfTask, OnlySubmittedRun
<1>4. LeavesAreServed
  BY <1>1 DEF LeavesAreServed, PendingIsWatched, NoRegistrationIsLeft, SleepsLongEnough
<1>5. ASSUME NEW f \in Leaves PROVE WakesOnce(f) /\ HeldIsArmed(f)
  <2>1. CountIn(<<>>, {TaskOf(f)}) = 0
    <3>1. <<>> \in Seq(Nat)
      OBVIOUS
    <3>2. QED BY <3>1, CountInSequences
  <2>2. CountIn(<<1>>, {TaskOf(f)}) \in 0..1
    <3>1. <<1>> = Append(<<>>, 1) /\ <<>> \in Seq(Nat) /\ 1 \in Nat
      OBVIOUS
    <3>2. CountIn(Append(<<>>, 1), {TaskOf(f)}) = CountIn(<<>>, {TaskOf(f)}) + (IF 1 \in {TaskOf(f)} THEN 1 ELSE 0)
      BY <3>1, CountInAppend
    <3>3. QED BY <2>1, <3>1, <3>2
  <2>3. CountIn(readyQ, {TaskOf(f)}) \in 0..1
    BY <1>1, <2>1, <2>2
  <2>4. ~PolledNow(f) /\ regs[f] = 0 /\ f \notin held
    BY <1>1 DEF PolledNow
  <2>5. CountIn(inbox, {TaskOf(f)}) = 0
    BY <1>1, <2>1
  <2>6. QED BY <2>3, <2>4, <2>5 DEF WakesOnce, HeldIsArmed
<1>6. QED BY <1>2, <1>3, <1>4, <1>5 DEF RuntimeInv, AloneInv

LEMMA SubmitKeepsInv ==
  ASSUME RuntimeAssumption, RuntimeInv, NEW t \in Tasks, Submit(t) PROVE RuntimeInv'
<1>1. /\ driver = "Runtime" /\ t \notin submitted
      /\ inbox' = Append(inbox, t) /\ submitted' = submitted \cup {t}
      /\ UNCHANGED <<driver, readyQ, task, rest, leaf, held, regs, ready, queued>>
  BY DEF Submit, leafVars, reactorVars
<1>2. RuntimeTypeOK /\ RestIsOfTask /\ OnlySubmittedRun /\ AloneInv /\ LeavesAreServed
  BY DEF RuntimeInv
<1>3. t \in Nat /\ t # 0
  BY TasksAreNumbers DEF Tasks
<1>4. readyQ \in Seq(Nat) /\ inbox \in Seq(Nat)
  BY <1>2 DEF RuntimeTypeOK
<1>5. \A f \in Leaves : TaskOf(f)' = TaskOf(f) /\ (Alone(f)' <=> Alone(f))
  BY <1>1, SameTasks
<1>6. RuntimeTypeOK'
  BY <1>1, <1>2, <1>3 DEF RuntimeTypeOK
<1>7. RestIsOfTask'
  BY <1>1, <1>2, <1>5 DEF RestIsOfTask, RuntimeTypeOK, Finished
<1>8. OnlySubmittedRun'
  <2>1. ToSet(inbox') = ToSet(inbox) \cup {t}
    BY <1>1, <1>3, <1>4, ToSetOfAppend
  <2>2. QED BY <1>1, <1>2, <1>5, <2>1 DEF OnlySubmittedRun
<1>9. LeavesAreServed'
  <2>1. PendingIsWatched'
    BY <1>1, <1>2, <1>5 DEF LeavesAreServed, PendingIsWatched, AboutToBePolled
  <2>2. NoRegistrationIsLeft' /\ SleepsLongEnough'
    BY <1>1, <1>2, <1>5 DEF LeavesAreServed, NoRegistrationIsLeft, SleepsLongEnough
  <2>3. QED BY <2>1, <2>2 DEF LeavesAreServed
<1>10. ASSUME NEW f \in Leaves, Alone(f)' PROVE WakesOnce(f)' /\ HeldIsArmed(f)'
  <2>1. WakesOnce(f) /\ HeldIsArmed(f)
    BY <1>2, <1>5, <1>10 DEF AloneInv
  <2>2. CountIn(inbox', {TaskOf(f)}) = CountIn(inbox, {TaskOf(f)}) + (IF t \in {TaskOf(f)} THEN 1 ELSE 0)
    BY <1>1, <1>3, <1>4, CountInAppend
  <2>3. CountIn(inbox, {TaskOf(f)}) \in Nat /\ CountIn(readyQ, {TaskOf(f)}) \in Nat
    BY <1>4, CountsAreNumbers
  <2>4. (PolledNow(f)' <=> PolledNow(f)) /\ regs'[f] = regs[f] /\ TaskOf(f)' = TaskOf(f)
    BY <1>1, <1>5 DEF PolledNow
  <2>5. regs[f] \in Nat
    BY <1>2 DEF RuntimeTypeOK, RuntimeAssumption
  <2>6. CASE TaskOf(f) = t
    <3>1. t \notin ToSet(inbox) /\ t \notin ToSet(readyQ) /\ ~(regs[f] > 0) /\ task # t
      BY <1>1, <1>2, <1>3, <2>6 DEF OnlySubmittedRun
    <3>2. CountIn(inbox, {TaskOf(f)}) = 0 /\ CountIn(readyQ, {TaskOf(f)}) = 0
      BY <1>4, <2>6, <3>1, CountsAreNumbers
    <3>3. ~PolledNow(f) /\ regs[f] = 0
      BY <2>5, <2>6, <3>1 DEF PolledNow
    <3>4. WakesOnce(f)'
      BY <1>1, <2>2, <2>4, <3>2, <3>3, <2>6 DEF WakesOnce
    <3>5. QED BY <1>1, <2>1, <2>4, <3>4 DEF HeldIsArmed
  <2>7. CASE TaskOf(f) # t
    <3>1. CountIn(inbox', {TaskOf(f)}) = CountIn(inbox, {TaskOf(f)})
      BY <2>2, <2>3, <2>7
    <3>2. QED BY <1>1, <2>1, <2>4, <3>1 DEF WakesOnce, HeldIsArmed
  <2>8. QED BY <2>6, <2>7
<1>11. QED BY <1>6, <1>7, <1>8, <1>9, <1>10 DEF RuntimeInv, AloneInv

(***************************************************************************)
(* Steps that move a task between the queues and touch no leaf: what is    *)
(* left to see is who is about to be polled, and how often.                *)
(***************************************************************************)
LEMMA LeavesStand ==
  ASSUME RuntimeAssumption, RuntimeInv, UNCHANGED <<driver, leaf, held, regs>>,
         ready \subseteq ready'
  PROVE  /\ \A f \in Leaves : TaskOf(f)' = TaskOf(f) /\ (Alone(f)' <=> Alone(f))
         /\ NoRegistrationIsLeft' /\ SleepsLongEnough'
         /\ \A f \in Leaves : Alone(f)' => HeldIsArmed(f)'
<1>1. \A f \in Leaves : TaskOf(f)' = TaskOf(f) /\ (Alone(f)' <=> Alone(f))
  BY SameTasks
<1>2. NoRegistrationIsLeft' /\ SleepsLongEnough'
  BY <1>1 DEF RuntimeInv, LeavesAreServed, NoRegistrationIsLeft, SleepsLongEnough
<1>3. \A f \in Leaves : Alone(f)' => HeldIsArmed(f)'
  BY <1>1 DEF RuntimeInv, AloneInv, HeldIsArmed
<1>4. QED BY <1>1, <1>2, <1>3

LEMMA PickUpKeepsInv == ASSUME RuntimeAssumption, RuntimeInv, PickUp PROVE RuntimeInv'
<1>1. /\ driver = "Runtime" /\ inbox # <<>>
      /\ readyQ' = Append(readyQ, Head(inbox)) /\ inbox' = Tail(inbox)
      /\ UNCHANGED <<driver, submitted, task, rest, leaf, held, regs, ready, queued>>
  BY DEF PickUp, AtHead, leafVars, reactorVars
<1>2. RuntimeTypeOK /\ RestIsOfTask /\ OnlySubmittedRun /\ AloneInv /\ LeavesAreServed
  BY DEF RuntimeInv
<1>3. readyQ \in Seq(Nat) /\ inbox \in Seq(Nat)
  BY <1>2 DEF RuntimeTypeOK
<1>4. Head(inbox) \in Nat /\ Tail(inbox) \in Seq(Nat) /\ Head(inbox) \in ToSet(inbox)
  BY <1>1, <1>3, HeadTailProperties, LenProperties, EmptySeq DEF ToSet
<1>5. /\ \A f \in Leaves : TaskOf(f)' = TaskOf(f) /\ (Alone(f)' <=> Alone(f))
      /\ NoRegistrationIsLeft' /\ SleepsLongEnough'
      /\ \A f \in Leaves : Alone(f)' => HeldIsArmed(f)'
  BY <1>1, LeavesStand
<1>6. ToSet(readyQ') = ToSet(readyQ) \cup {Head(inbox)}
  BY <1>1, <1>3, <1>4, ToSetOfAppend
<1>7. ToSet(inbox') \subseteq ToSet(inbox)
  BY <1>1, <1>3, ToSetOfTail
<1>8. RuntimeTypeOK'
  BY <1>1, <1>2, <1>4 DEF RuntimeTypeOK
<1>9. RestIsOfTask'
  BY <1>1, <1>2, <1>5 DEF RestIsOfTask, RuntimeTypeOK, Finished
<1>10. OnlySubmittedRun'
  BY <1>1, <1>2, <1>4, <1>5, <1>6, <1>7 DEF OnlySubmittedRun
<1>11. LeavesAreServed'
  <2>1. PendingIsWatched'
    BY <1>1, <1>2, <1>5, <1>6 DEF LeavesAreServed, PendingIsWatched, AboutToBePolled
  <2>2. QED BY <1>5, <2>1 DEF LeavesAreServed
<1>12. ASSUME NEW f \in Leaves, Alone(f)' PROVE WakesOnce(f)'
  <2>1. WakesOnce(f)
    BY <1>2, <1>5, <1>12 DEF AloneInv
  <2>2. CountIn(inbox, {TaskOf(f)}) = CountIn(inbox', {TaskOf(f)}) + (IF Head(inbox) \in {TaskOf(f)} THEN 1 ELSE 0)
    BY <1>1, <1>3, CountInTail
  <2>3. CountIn(readyQ', {TaskOf(f)}) = CountIn(readyQ, {TaskOf(f)}) + (IF Head(inbox) \in {TaskOf(f)} THEN 1 ELSE 0)
    BY <1>1, <1>3, <1>4, CountInAppend
  <2>4. CountIn(inbox', {TaskOf(f)}) \in Nat /\ CountIn(readyQ, {TaskOf(f)}) \in Nat
    BY <1>1, <1>3, <1>4, CountsAreNumbers
  <2>5. (PolledNow(f)' <=> PolledNow(f)) /\ regs'[f] = regs[f] /\ TaskOf(f)' = TaskOf(f)
    BY <1>1, <1>5 DEF PolledNow
  <2>6. regs[f] \in Nat
    BY <1>2 DEF RuntimeTypeOK, RuntimeAssumption
  <2>7. QED BY <2>1, <2>2, <2>3, <2>4, <2>5, <2>6 DEF WakesOnce
<1>13. QED BY <1>5, <1>8, <1>9, <1>10, <1>11, <1>12 DEF RuntimeInv, AloneInv

(***************************************************************************)
(* The id of a task that is taken from the ready channel: all its leaves   *)
(* that are not finished are polled.                                       *)
(***************************************************************************)
LEMMA TakeReadyKeepsInv == ASSUME RuntimeAssumption, RuntimeInv, TakeReady PROVE RuntimeInv'
<1> DEFINE t == Head(readyQ)
<1>1. /\ task = 0 /\ readyQ # <<>> /\ readyQ' = Tail(readyQ)
      /\ \/ Unfinished(t) = {} /\ task' = task /\ rest' = rest
         \/ task' = t /\ rest' = Unfinished(t)
      /\ UNCHANGED <<driver, inbox, submitted, leaf, held, regs, ready, queued>>
  BY DEF TakeReady, execVars, leafVars, reactorVars
<1>2. RuntimeTypeOK /\ RestIsOfTask /\ OnlySubmittedRun /\ AloneInv /\ LeavesAreServed
  BY DEF RuntimeInv
<1>3. readyQ \in Seq(Nat) /\ inbox \in Seq(Nat)
  BY <1>2 DEF RuntimeTypeOK
<1>4. t \in Nat /\ Tail(readyQ) \in Seq(Nat) /\ t \in ToSet(readyQ)
  BY <1>1, <1>3, HeadTailProperties, LenProperties, EmptySeq DEF ToSet
<1>5. /\ \A f \in Leaves : TaskOf(f)' = TaskOf(f) /\ (Alone(f)' <=> Alone(f))
      /\ NoRegistrationIsLeft' /\ SleepsLongEnough'
      /\ \A f \in Leaves : Alone(f)' => HeldIsArmed(f)'
  BY <1>1, LeavesStand
<1>6. ToSet(readyQ') \subseteq ToSet(readyQ) /\ ToSet(readyQ) \subseteq ToSet(readyQ') \cup {t}
  <2>1. ToSet(readyQ') \subseteq ToSet(readyQ)
    BY <1>1, <1>3, ToSetOfTail
  <2>2. ToSet(readyQ) \subseteq ToSet(readyQ') \cup {t}
    <3>1. \A i \in DOMAIN readyQ : i = 1 \/ (i - 1 \in DOMAIN Tail(readyQ) /\ Tail(readyQ)[i - 1] = readyQ[i])
      BY <1>1, <1>3, HeadTailProperties, LenProperties, EmptySeq
    <3>2. readyQ[1] = t
      BY <1>1, <1>3, HeadTailProperties
    <3>3. QED BY <1>1, <3>1, <3>2 DEF ToSet
  <2>3. QED BY <2>1, <2>2
<1>7. \A f \in Leaves : f \in Unfinished(t) <=> TaskOf(f) = t /\ ~Finished(f)
  BY DEF Unfinished
<1>71. \A f \in rest : FALSE
  <2>1. \A f \in rest : f \in Leaves /\ TaskOf(f) = 0
    BY <1>1, <1>2 DEF RestIsOfTask, RuntimeTypeOK
  <2>2. QED BY <2>1, TasksAreNumbers
<1>8. RuntimeTypeOK'
  <2>1. Unfinished(t) \subseteq Leaves
    BY DEF Unfinished
  <2>2. task' \in Nat /\ rest' \subseteq Leaves
    BY <1>1, <1>2, <1>4, <2>1 DEF RuntimeTypeOK
  <2> HIDE DEF t
  <2>3. QED BY <1>1, <1>2, <1>4, <2>2 DEF RuntimeTypeOK
<1>9. RestIsOfTask'
  <2>1. \A f \in rest' : f \in Leaves /\ TaskOf(f) = task' /\ ~Finished(f)
    BY <1>1, <1>71, <1>7 DEF Unfinished
  <2>2. QED BY <1>1, <1>5, <2>1 DEF RestIsOfTask, Finished
<1>10. OnlySubmittedRun'
  BY <1>1, <1>2, <1>4, <1>5, <1>6 DEF OnlySubmittedRun
<1>11. LeavesAreServed'
  <2>1. ASSUME NEW f \in Leaves, driver # "block_on_local", leaf[f] = "pending", ~(regs[f] > 0)
        PROVE  (task' = TaskOf(f) /\ f \in rest') \/ TaskOf(f) \in ToSet(readyQ')
    <3>1. TaskOf(f) \in ToSet(readyQ)
      BY <1>2, <1>71, <2>1 DEF LeavesAreServed, PendingIsWatched, AboutToBePolled
    <3>2. TaskOf(f) \in ToSet(readyQ') \/ TaskOf(f) = t
      BY <1>6, <3>1
    <3>3. TaskOf(f) = t => f \in Unfinished(t)
      BY <1>7, <2>1 DEF Finished
    <3>4. QED BY <1>1, <3>2, <3>3
  <2>2. PendingIsWatched'
    BY <1>1, <1>5, <2>1 DEF PendingIsWatched, AboutToBePolled
  <2>3. QED BY <1>5, <2>2 DEF LeavesAreServed
<1>12. ASSUME NEW f \in Leaves, Alone(f)' PROVE WakesOnce(f)'
  <2>1. WakesOnce(f)
    BY <1>2, <1>5, <1>12 DEF AloneInv
  <2>2. CountIn(readyQ, {TaskOf(f)}) = CountIn(readyQ', {TaskOf(f)}) + (IF t \in {TaskOf(f)} THEN 1 ELSE 0)
    BY <1>1, <1>3, CountInTail
  <2>3. CountIn(inbox, {TaskOf(f)}) \in Nat /\ CountIn(readyQ', {TaskOf(f)}) \in Nat
    BY <1>1, <1>3, <1>4, CountsAreNumbers
  <2>4. ~PolledNow(f) /\ (PolledNow(f)' => t = TaskOf(f))
    BY <1>1, <1>5, <1>71 DEF PolledNow
  <2>5. regs'[f] = regs[f] /\ TaskOf(f)' = TaskOf(f) /\ inbox' = inbox
    BY <1>1, <1>5
  <2>6. regs[f] \in Nat
    BY <1>2 DEF RuntimeTypeOK, RuntimeAssumption
  <2> HIDE DEF t
  <2>7. QED BY <2>1, <2>2, <2>3, <2>4, <2>5, <2>6 DEF WakesOnce
<1>13. QED BY <1>5, <1>8, <1>9, <1>10, <1>11, <1>12 DEF RuntimeInv, AloneInv

(***************************************************************************)
(* The driver polls the future it blocks on, the poll of a task ends, the  *)
(* reactor is entered or interrupted, the loop ends.                       *)
(***************************************************************************)
LEMMA NoneReadyKeepsInv == ASSUME RuntimeAssumption, RuntimeInv, NoneReady PROVE RuntimeInv'
<1>1. /\ task = 0
      /\ \/ driver = "block_on_local" /\ task' = 1 /\ rest' = Unfinished(1)
         \/ UNCHANGED <<task, rest>>
      /\ UNCHANGED <<driver, inbox, submitted, readyQ, leaf, held, regs, ready, queued>>
  BY DEF NoneReady, execVars, leafVars, reactorVars
<1>2. RuntimeTypeOK /\ RestIsOfTask /\ OnlySubmittedRun /\ AloneInv /\ LeavesAreServed
  BY DEF RuntimeInv
<1>3. /\ \A f \in Leaves : TaskOf(f)' = TaskOf(f) /\ (Alone(f)' <=> Alone(f))
      /\ NoRegistrationIsLeft' /\ SleepsLongEnough'
      /\ \A f \in Leaves : Alone(f)' => HeldIsArmed(f)'
  BY <1>1, LeavesStand
<1>4. CASE driver = "block_on_local" /\ task' = 1 /\ rest' = Unfinished(1)
  <2>1. \A f \in Unfinished(1) : f \in Leaves /\ TaskOf(f) = 1 /\ ~Finished(f)
    BY DEF Unfinished
  <2>2. RuntimeTypeOK'
    BY <1>1, <1>2, <1>4, <2>1 DEF RuntimeTypeOK
  <2>3. RestIsOfTask' /\ OnlySubmittedRun'
    BY <1>1, <1>3, <1>4, <2>1 DEF RestIsOfTask, OnlySubmittedRun, Finished
  <2>4. LeavesAreServed' /\ AloneInv'
    BY <1>1, <1>3, <1>4 DEF LeavesAreServed, PendingIsWatched, AloneInv, Alone
  <2>5. QED BY <2>2, <2>3, <2>4 DEF RuntimeInv
<1>5. CASE UNCHANGED <<task, rest>>
  <2>1. RuntimeTypeOK' /\ RestIsOfTask' /\ OnlySubmittedRun'
    BY <1>1, <1>2, <1>3, <1>5 DEF RuntimeTypeOK, RestIsOfTask, OnlySubmittedRun, Finished
  <2>2. LeavesAreServed'
    BY <1>1, <1>2, <1>3, <1>5 DEF LeavesAreServed, PendingIsWatched, AboutToBePolled
  <2>3. AloneInv'
    BY <1>1, <1>2, <1>3, <1>5 DEF AloneInv, WakesOnce, PolledNow
  <2>4. QED BY <2>1, <2>2, <2>3 DEF RuntimeInv
<1>6. QED BY <1>1, <1>4, <1>5

LEMMA PollEndsKeepsInv == ASSUME RuntimeAssumption, RuntimeInv, PollEnds PROVE RuntimeInv'
<1>1. /\ rest = {} /\ rest' = {} /\ task' = 0
      /\ UNCHANGED <<driver, inbox, submitted, readyQ, leaf, held, regs, ready, queued>>
  BY DEF PollEnds, execVars, leafVars, reactorVars
<1>2. RuntimeTypeOK /\ RestIsOfTask /\ OnlySubmittedRun /\ AloneInv /\ LeavesAreServed
  BY DEF RuntimeInv
<1>3. /\ \A f \in Leaves : TaskOf(f)' = TaskOf(f) /\ (Alone(f)' <=> Alone(f))
      /\ NoRegistrationIsLeft' /\ SleepsLongEnough'
      /\ \A f \in Leaves : Alone(f)' => HeldIsArmed(f)'
  BY <1>1, LeavesStand
<1>4. RuntimeTypeOK' /\ RestIsOfTask' /\ OnlySubmittedRun'
  BY <1>1, <1>2, <1>3 DEF RuntimeTypeOK, RestIsOfTask, OnlySubmittedRun
<1>5. LeavesAreServed'
  BY <1>1, <1>2, <1>3 DEF LeavesAreServed, PendingIsWatched, AboutToBePolled
<1>6. AloneInv'
  BY <1>1, <1>2, <1>3 DEF AloneInv, WakesOnce, PolledNow
<1>7. QED BY <1>4, <1>5, <1>6 DEF RuntimeInv

LEMMA QuietKeepsInv ==
  ASSUME RuntimeAssumption, RuntimeInv, queued' \in Nat,
         UNCHANGED <<driver, inbox, submitted, readyQ, task, rest, leaf, held, regs>>,
         ready \subseteq ready', ready' \subseteq Leaves
  PROVE  RuntimeInv'
<1>1. RuntimeTypeOK /\ RestIsOfTask /\ OnlySubmittedRun /\ AloneInv /\ LeavesAreServed
  BY DEF RuntimeInv
<1>2. /\ \A f \in Leaves : TaskOf(f)' = TaskOf(f) /\ (Alone(f)' <=> Alone(f))
      /\ NoRegistrationIsLeft' /\ SleepsLongEnough'
      /\ \A f \in Leaves : Alone(f)' => HeldIsArmed(f)'
  BY LeavesStand
<1>3. RuntimeTypeOK' /\ RestIsOfTask' /\ OnlySubmittedRun'
  BY <1>1, <1>2 DEF RuntimeTypeOK, RestIsOfTask, OnlySubmittedRun, Finished
<1>4. LeavesAreServed'
  BY <1>1, <1>2 DEF LeavesAreServed, PendingIsWatched, AboutToBePolled
<1>5. AloneInv'
  BY <1>1, <1>2 DEF AloneInv, WakesOnce, PolledNow
<1>6. QED BY <1>3, <1>4, <1>5 DEF RuntimeInv

LEMMA QuietSteps ==
  ASSUME RuntimeAssumption, RuntimeInv,
         \/ SeeClosed \/ EnterReactor \/ Signalled \/ DropRuntime \/ Returned
         \/ UNCHANGED runtimeVars
         \/ \E f \in Leaves : BecomesReady(f)
  PROVE  RuntimeInv'
<1>1. ready \subseteq Leaves /\ queued \in Nat
  BY DEF RuntimeInv, RuntimeTypeOK
<1>2. /\ queued' \in Nat
      /\ UNCHANGED <<driver, inbox, submitted, readyQ, task, rest, leaf, held, regs>>
      /\ ready \subseteq ready' /\ ready' \subseteq Leaves
  BY <1>1 DEF SeeClosed, EnterReactor, Signalled, DropRuntime, Returned, BecomesReady,
              runtimeVars, execVars, leafVars, reactorVars
<1>3. QED BY <1>2, QuietKeepsInv

(***************************************************************************)
(* What one poll does to its leaf.                                         *)
(***************************************************************************)
Watched(f) == Kinds[f] # "wait" \/ Alone(f)
Armed(f) ==
  /\ leaf'[f] = "pending" /\ f \in held'
  /\ regs'[f] > 0 /\ (Watched(f) => regs'[f] = 1)
  /\ readyQ' = readyQ
Ended(f) ==
  /\ leaf'[f] \in {"done", "failed"} /\ f \notin held'
  /\ Watched(f) => regs'[f] = 0
  /\ Kinds[f] = "sleep" /\ Alone(f) => f \in ready
  /\ readyQ' = readyQ
FoundNoRoom(f) ==
  /\ leaf'[f] = "pending" /\ f \notin held' /\ regs'[f] = 0
  /\ readyQ' = IF driver = "block_on_local" THEN readyQ ELSE Append(readyQ, task)

LEMMA ArmArms ==
  ASSUME RuntimeAssumption, RuntimeTypeOK, NEW f \in Leaves,
         NEW left \in [Leaves -> 0..MaxRegs], NEW used \in Nat,
         Watched(f) => left[f] = 0, Arm(f, left, used), UNCHANGED readyQ
  PROVE  /\ Armed(f)
         /\ leaf' \in [Leaves -> {"new", "pending", "done", "failed"}] /\ held' \subseteq Leaves
         /\ regs' \in [Leaves -> 0..MaxRegs] /\ queued' \in Nat
         /\ \A g \in Leaves \ {f} : leaf'[g] = leaf[g] /\ (g \in held' <=> g \in held) /\ regs'[g] = left[g]
<1>1. /\ leaf' = [leaf EXCEPT ![f] = "pending"] /\ held' = held \cup {f}
      /\ regs' = [left EXCEPT ![f] = Least(left[f] + 1, MaxRegs)] /\ queued' = used + 1
  BY DEF Arm
<1>2. MaxRegs \in Nat /\ MaxRegs >= 1 /\ left[f] \in 0..MaxRegs
  BY DEF RuntimeAssumption
<1>3. Least(left[f] + 1, MaxRegs) \in 1..MaxRegs /\ (left[f] = 0 => Least(left[f] + 1, MaxRegs) = 1)
  BY <1>2 DEF Least
<1>4. regs' \in [Leaves -> 0..MaxRegs] /\ regs'[f] = Least(left[f] + 1, MaxRegs)
  BY <1>1, <1>2, <1>3
<1>5. QED BY <1>1, <1>3, <1>4 DEF RuntimeTypeOK, Armed

LEMMA CompleteEnds ==
  ASSUME RuntimeAssumption, RuntimeTypeOK, NEW f \in Leaves, NEW result \in {"done", "failed"},
         NEW left \in [Leaves -> 0..MaxRegs], NEW used \in Nat,
         Watched(f) => left[f] = 0, Kinds[f] = "sleep" /\ Alone(f) => f \in ready,
         Complete(f, result, left, used), UNCHANGED readyQ
  PROVE  /\ Ended(f)
         /\ leaf' \in [Leaves -> {"new", "pending", "done", "failed"}] /\ held' \subseteq Leaves
         /\ regs' \in [Leaves -> 0..MaxRegs] /\ queued' \in Nat
         /\ \A g \in Leaves \ {f} : leaf'[g] = leaf[g] /\ (g \in held' <=> g \in held) /\ regs'[g] = left[g]
BY DEF Complete, Ended, RuntimeTypeOK

LEMMA LeafIsPolled ==
  ASSUME RuntimeAssumption, RuntimeInv, NEW f \in Leaves, PollRead(f) \/ PollWait(f) \/ PollSleep(f)
  PROVE  /\ f \in rest /\ rest' = rest \ {f}
         /\ UNCHANGED <<driver, inbox, submitted, task, ready>>
         /\ Armed(f) \/ Ended(f) \/ FoundNoRoom(f)
         /\ leaf' \in [Leaves -> {"new", "pending", "done", "failed"}] /\ held' \subseteq Leaves
         /\ regs' \in [Leaves -> 0..MaxRegs] /\ queued' \in Nat
         /\ \A g \in Leaves \ {f} : leaf'[g] = leaf[g] /\ (g \in held' <=> g \in held) /\ regs'[g] = regs[g]
<1> DEFINE left == IF f \in held THEN GiveBack(f) ELSE regs
           used == IF f \in held THEN GivenBack(f) ELSE queued
           Rest == /\ leaf' \in [Leaves -> {"new", "pending", "done", "failed"}] /\ held' \subseteq Leaves
                   /\ regs' \in [Leaves -> 0..MaxRegs] /\ queued' \in Nat
                   /\ \A g \in Leaves \ {f} :
                        leaf'[g] = leaf[g] /\ (g \in held' <=> g \in held) /\ regs'[g] = regs[g]
<1>1. RuntimeTypeOK /\ RestIsOfTask /\ AloneInv /\ LeavesAreServed
  BY DEF RuntimeInv
<1>2. /\ \E kind : Polls(f, kind)
      /\ PollRead(f) => Kinds[f] = "read"
      /\ PollWait(f) => Kinds[f] = "wait"
      /\ PollSleep(f) => Kinds[f] = "sleep"
  BY DEF PollRead, PollWait, PollSleep, Polls
<1>3. /\ task # 0 /\ rest # {} /\ f = Min(rest) /\ rest' = rest \ {f}
      /\ UNCHANGED <<driver, inbox, submitted, task, ready>>
  BY <1>2 DEF Polls, execVars
<1>4. f \in rest
  <2>1. rest \in SUBSET Nat /\ rest # {}
    BY <1>1, <1>3, LeavesAreNumbers DEF RuntimeTypeOK
  <2>2. PICK i \in rest : \A j \in rest : i <= j
    BY <2>1, SmallestElement
  <2>3. QED BY <1>3, <2>2 DEF Min
<1>5. TaskOf(f) = task /\ ~Finished(f) /\ PolledNow(f)
  BY <1>1, <1>4 DEF RestIsOfTask, PolledNow
<1>6. regs \in [Leaves -> 0..MaxRegs] /\ MaxRegs \in Nat \ {0} /\ regs[f] \in Nat
      /\ queued \in Nat /\ SqRoom \in Nat
  BY <1>1 DEF RuntimeTypeOK, RuntimeAssumption
<1>7. Alone(f) => regs[f] = 0 /\ (f \in held => f \in ready)
  <2>1. SUFFICES ASSUME Alone(f) PROVE regs[f] = 0 /\ (f \in held => f \in ready)
    OBVIOUS
  <2>2. WakesOnce(f) /\ HeldIsArmed(f)
    BY <1>1, <2>1 DEF AloneInv
  <2>3. CountIn(inbox, {TaskOf(f)}) \in Nat /\ CountIn(readyQ, {TaskOf(f)}) \in Nat
    BY <1>1, CountsAreNumbers DEF RuntimeTypeOK
  <2>4. QED BY <1>5, <1>6, <2>2, <2>3 DEF WakesOnce, HeldIsArmed
<1>8. Kinds[f] # "wait" => regs[f] <= 1 /\ (regs[f] = 1 => f \in held)
  BY <1>1 DEF LeavesAreServed, NoRegistrationIsLeft
<1>9. /\ left \in [Leaves -> 0..MaxRegs] /\ used \in Nat
      /\ \A g \in Leaves \ {f} : left[g] = regs[g]
      /\ Kinds[f] # "wait" => left[f] = 0
  <2>1. GiveBack(f) \in [Leaves -> 0..MaxRegs] /\ \A g \in Leaves \ {f} : GiveBack(f)[g] = regs[g]
    BY <1>6 DEF GiveBack
  <2>2. GiveBack(f)[f] = IF regs[f] = 0 THEN 0 ELSE regs[f] - 1
    BY <1>6 DEF GiveBack
  <2>3. GivenBack(f) \in Nat
    BY <1>6 DEF GivenBack, Least
  <2>4. Kinds[f] # "wait" => left[f] = 0
    BY <1>6, <1>8, <2>2
  <2>5. QED BY <1>6, <2>1, <2>3, <2>4
<1>10. CASE PollRead(f)
  <2>0. Kinds[f] = "read"
    BY <1>2, <1>10
  <2>1. readyQ' = readyQ
        /\ \/ Complete(f, "done", left, used) \/ Arm(f, left, used) \/ Complete(f, "failed", left, used)
    BY <1>10 DEF PollRead
  <2> HIDE DEF left, used
  <2>2. (Armed(f) \/ Ended(f)) /\ Rest
    BY <1>1, <1>9, <2>0, <2>1, ArmArms, CompleteEnds
  <2>3. QED BY <1>3, <1>4, <2>2
<1>11. CASE PollWait(f)
  <2>0. Kinds[f] = "wait"
    BY <1>2, <1>11
  <2>1. readyQ' = readyQ
        /\ \/ Complete(f, "done", regs, queued) \/ Arm(f, regs, queued) \/ Complete(f, "failed", regs, queued)
    BY <1>11 DEF PollWait
  <2>2. Watched(f) => regs[f] = 0
    BY <1>7, <2>0 DEF Watched
  <2>3. (Armed(f) \/ Ended(f)) /\ Rest
    BY <1>1, <1>6, <2>0, <2>1, <2>2, ArmArms, CompleteEnds
  <2>4. QED BY <1>3, <1>4, <2>3
<1>12. CASE PollSleep(f)
  <2>0. Kinds[f] = "sleep"
    BY <1>2, <1>12
  <2>1. CASE f \in held
    <3>1. Complete(f, "done", left, used) /\ readyQ' = readyQ
      BY <1>12, <2>1 DEF PollSleep
    <3>2. Alone(f) => f \in ready
      BY <1>7, <2>1
    <3> HIDE DEF left, used
    <3>3. Ended(f) /\ Rest
      BY <1>1, <1>9, <2>0, <3>1, <3>2, CompleteEnds
    <3>4. QED BY <1>3, <1>4, <3>3
  <2>2. CASE f \notin held /\ Fits(queued)
    <3>1. Arm(f, regs, queued) /\ readyQ' = readyQ
      BY <1>12, <2>2 DEF PollSleep
    <3>2. regs[f] = 0
      BY <1>6, <1>8, <2>0, <2>2
    <3>3. Armed(f) /\ Rest
      BY <1>1, <1>6, <3>1, <3>2, ArmArms
    <3>4. QED BY <1>3, <1>4, <3>3
  <2>3. CASE f \notin held /\ ~Fits(queued)
    <3>1. /\ leaf' = [leaf EXCEPT ![f] = "pending"]
          /\ readyQ' = IF driver = "block_on_local" THEN readyQ ELSE Append(readyQ, task)
          /\ UNCHANGED <<held, regs, queued>>
      BY <1>12, <2>3 DEF PollSleep
    <3>2. regs[f] = 0
      BY <1>6, <1>8, <2>0, <2>3
    <3>3. FoundNoRoom(f) /\ Rest
      BY <1>1, <2>3, <3>1, <3>2 DEF FoundNoRoom, RuntimeTypeOK
    <3>4. QED BY <1>3, <1>4, <3>3
  <2>4. QED BY <2>1, <2>2, <2>3
<1>13. QED BY <1>10, <1>11, <1>12

LEMMA PollLeafKeepsInv == ASSUME RuntimeAssumption, RuntimeInv, PollLeaf PROVE RuntimeInv'
<1>1. PICK f \in Leaves : PollRead(f) \/ PollWait(f) \/ PollSleep(f)
  BY DEF PollLeaf
<1>2. /\ f \in rest /\ rest' = rest \ {f}
      /\ UNCHANGED <<driver, inbox, submitted, task, ready>>
      /\ Armed(f) \/ Ended(f) \/ FoundNoRoom(f)
      /\ leaf' \in [Leaves -> {"new", "pending", "done", "failed"}] /\ held' \subseteq Leaves
      /\ regs' \in [Leaves -> 0..MaxRegs] /\ queued' \in Nat
      /\ \A g \in Leaves \ {f} : leaf'[g] = leaf[g] /\ (g \in held' <=> g \in held) /\ regs'[g] = regs[g]
  BY <1>1, LeafIsPolled
<1>3. RuntimeTypeOK /\ RestIsOfTask /\ OnlySubmittedRun /\ AloneInv /\ LeavesAreServed
  BY DEF RuntimeInv
<1>4. readyQ \in Seq(Nat) /\ task \in Nat
  BY <1>3 DEF RuntimeTypeOK
<1>5. \A g \in Leaves : TaskOf(g)' = TaskOf(g) /\ (Alone(g)' <=> Alone(g))
  BY <1>2, SameTasks
<1>6. TaskOf(f) = task /\ task # 0
  BY <1>2, <1>3, TasksAreNumbers DEF RestIsOfTask
<1>7. readyQ' = readyQ \/ (readyQ' = Append(readyQ, task) /\ FoundNoRoom(f) /\ driver # "block_on_local")
  BY <1>2 DEF Armed, Ended, FoundNoRoom
<1>8. readyQ' \in Seq(Nat) /\ ToSet(readyQ) \subseteq ToSet(readyQ') /\ ToSet(readyQ') \subseteq ToSet(readyQ) \cup {task}
  <2>1. CASE readyQ' = readyQ
    BY <1>4, <2>1
  <2>2. CASE readyQ' = Append(readyQ, task)
    <3>1. Append(readyQ, task) \in Seq(Nat)
      BY <1>4, AppendProperties
    <3>2. ToSet(Append(readyQ, task)) = ToSet(readyQ) \cup {task}
      BY <1>4, ToSetOfAppend
    <3>3. QED BY <2>2, <3>1, <3>2
  <2>3. QED BY <1>7, <2>1, <2>2
<1>9. RuntimeTypeOK'
  BY <1>2, <1>3, <1>8 DEF RuntimeTypeOK
<1>10. RestIsOfTask'
  <2>1. \A g \in rest' : g \in Leaves \ {f} /\ g \in rest
    BY <1>2, <1>3 DEF RuntimeTypeOK
  <2>2. \A g \in rest' : TaskOf(g) = task /\ leaf'[g] \notin {"done", "failed"}
    BY <1>2, <1>3, <2>1 DEF RestIsOfTask, Finished
  <2>3. QED BY <1>2, <1>5, <2>1, <2>2 DEF RestIsOfTask, Finished
<1>11. OnlySubmittedRun'
  BY <1>2, <1>3, <1>5, <1>6, <1>8 DEF OnlySubmittedRun
<1>12. PendingIsWatched'
  <2>1. ASSUME NEW g \in Leaves \ {f}, driver # "block_on_local", leaf'[g] = "pending"
        PROVE  regs'[g] > 0 \/ (task' = TaskOf(g) /\ g \in rest') \/ TaskOf(g) \in ToSet(readyQ')
    BY <1>2, <1>3, <1>8, <2>1 DEF LeavesAreServed, PendingIsWatched, AboutToBePolled
  <2>2. driver # "block_on_local" /\ leaf'[f] = "pending" => regs'[f] > 0 \/ TaskOf(f) \in ToSet(readyQ')
    <3>1. CASE FoundNoRoom(f) /\ driver # "block_on_local"
      <4>1. readyQ' = Append(readyQ, task)
        BY <3>1 DEF FoundNoRoom
      <4>2. task \in ToSet(readyQ')
        BY <1>4, <4>1, ToSetOfAppend
      <4>3. QED BY <1>6, <4>2
    <3>2. QED BY <1>2, <3>1 DEF Armed, Ended
  <2>3. QED BY <1>2, <1>5, <2>1, <2>2 DEF PendingIsWatched, AboutToBePolled
<1>13. NoRegistrationIsLeft'
  <2>1. Watched(f) => regs'[f] <= 1 /\ (regs'[f] = 1 => f \in held' /\ leaf'[f] = "pending")
    BY <1>2 DEF Armed, Ended, FoundNoRoom
  <2>2. QED BY <1>2, <1>3, <1>5, <2>1 DEF LeavesAreServed, NoRegistrationIsLeft, Watched
<1>14. SleepsLongEnough'
  <2>1. Kinds[f] = "sleep" /\ Alone(f) /\ leaf'[f] = "done" => f \in ready
    BY <1>2 DEF Armed, Ended, FoundNoRoom
  <2>2. QED BY <1>2, <1>3, <1>5, <2>1 DEF LeavesAreServed, SleepsLongEnough
<1>15. ASSUME NEW g \in Leaves, Alone(g)' PROVE WakesOnce(g)' /\ HeldIsArmed(g)'
  <2>1. Alone(g) /\ WakesOnce(g) /\ HeldIsArmed(g) /\ TaskOf(g)' = TaskOf(g)
    BY <1>3, <1>5, <1>15 DEF AloneInv
  <2>2. CountIn(inbox, {TaskOf(g)}) \in Nat /\ CountIn(readyQ, {TaskOf(g)}) \in Nat
    BY <1>3, CountsAreNumbers DEF RuntimeTypeOK
  <2>3. regs[g] \in Nat /\ regs'[g] \in Nat
    BY <1>2, <1>3 DEF RuntimeTypeOK, RuntimeAssumption
  <2>4. readyQ' = Append(readyQ, task) =>
          CountIn(readyQ', {TaskOf(g)}) = CountIn(readyQ, {TaskOf(g)}) + (IF task \in {TaskOf(g)} THEN 1 ELSE 0)
    BY <1>4, CountInAppend
  <2>5. CASE g = f
    <3>1. PolledNow(f) /\ ~PolledNow(f)'
      BY <1>2, <1>6 DEF PolledNow
    <3>2. CountIn(inbox, {TaskOf(f)}) = 0 /\ CountIn(readyQ, {TaskOf(f)}) = 0 /\ regs[f] = 0
      BY <2>1, <2>2, <2>3, <2>5, <3>1 DEF WakesOnce
    <3>3. Watched(f)
      BY <2>1, <2>5 DEF Watched
    <3>4. CountIn(readyQ', {TaskOf(f)}) + regs'[f] <= 1 /\ CountIn(readyQ', {TaskOf(f)}) \in Nat
      <4>1. CASE FoundNoRoom(f)
        BY <1>7, <2>4, <2>5, <3>2, <4>1 DEF FoundNoRoom
      <4>2. CASE Armed(f) \/ Ended(f)
        BY <3>2, <3>3, <4>2 DEF Armed, Ended
      <4>3. QED BY <1>2, <4>1, <4>2
    <3>5. WakesOnce(f)'
      BY <1>2, <2>1, <2>3, <2>5, <3>1, <3>2, <3>4 DEF WakesOnce
    <3>6. HeldIsArmed(f)'
      BY <1>2, <3>3 DEF HeldIsArmed, Armed, Ended, FoundNoRoom
    <3>7. QED BY <2>5, <3>5, <3>6
  <2>6. CASE g # f
    <3>1. TaskOf(g) # task
      BY <1>6, <2>1, <2>6 DEF Alone
    <3>2. CountIn(readyQ', {TaskOf(g)}) = CountIn(readyQ, {TaskOf(g)})
      BY <1>7, <2>2, <2>4, <3>1
    <3>3. (PolledNow(g)' <=> PolledNow(g)) /\ regs'[g] = regs[g] /\ (g \in held' <=> g \in held)
      BY <1>2, <2>1, <2>6 DEF PolledNow
    <3>4. QED BY <1>2, <2>1, <3>2, <3>3 DEF WakesOnce, HeldIsArmed
  <2>7. QED BY <2>5, <2>6
<1>16. QED BY <1>9, <1>10, <1>11, <1>12, <1>13, <1>14, <1>15 DEF RuntimeInv, AloneInv, LeavesAreServed

(***************************************************************************)
(* The reactor returns: each registration whose handle is readable is used *)
(* up, and the task of its leaf is in the ready channel.                   *)
(***************************************************************************)
LEMMA LeaveReactorKeepsInv == ASSUME RuntimeAssumption, RuntimeInv, LeaveReactor PROVE RuntimeInv'
<1>1. /\ regs' = [f \in Leaves |-> IF f \in Firing THEN 0 ELSE regs[f]]
      /\ UNCHANGED <<driver, inbox, submitted, task, rest, leaf, held, ready, queued>>
  BY DEF LeaveReactor, Fire, execVars, leafVars
<1>2. RuntimeTypeOK /\ RestIsOfTask /\ OnlySubmittedRun /\ AloneInv /\ LeavesAreServed
  BY DEF RuntimeInv
<1>3. \A f \in Leaves : TaskOf(f)' = TaskOf(f) /\ (Alone(f)' <=> Alone(f))
  BY <1>1, SameTasks
<1>4. /\ regs \in [Leaves -> 0..MaxRegs] /\ MaxRegs \in Nat /\ readyQ \in Seq(Nat)
      /\ \A f \in Leaves : regs[f] \in Nat /\ regs'[f] = IF f \in Firing THEN 0 ELSE regs[f]
      /\ regs' \in [Leaves -> 0..MaxRegs]
  BY <1>1, <1>2 DEF RuntimeTypeOK, RuntimeAssumption
<1>5. Firing \subseteq Leaves /\ \A f \in Firing : f \in ready /\ regs[f] > 0
  BY <1>2 DEF Firing, RuntimeTypeOK
<1>6. NoRegistrationIsLeft' /\ SleepsLongEnough' /\ RestIsOfTask'
  BY <1>1, <1>2, <1>3, <1>4 DEF LeavesAreServed, NoRegistrationIsLeft, SleepsLongEnough, RestIsOfTask,
                               RuntimeTypeOK, Finished
<1>7. \A f \in Leaves : Alone(f)' => HeldIsArmed(f)'
  BY <1>1, <1>2, <1>3, <1>4, <1>5 DEF AloneInv, HeldIsArmed
<1>8. CASE driver = "block_on_local"
  <2>1. readyQ' = readyQ
    BY <1>8 DEF LeaveReactor, Fire
  <2>2. RuntimeTypeOK'
    BY <1>1, <1>2, <1>4, <2>1 DEF RuntimeTypeOK
  <2>3. OnlySubmittedRun' /\ PendingIsWatched' /\ AloneInv'
    BY <1>1, <1>8 DEF OnlySubmittedRun, PendingIsWatched, AloneInv, Alone
  <2>4. QED BY <1>6, <2>2, <2>3 DEF RuntimeInv, LeavesAreServed
<1>9. CASE driver # "block_on_local"
  <2>1. PICK order \in SetToSeqs(Completions) : readyQ' = readyQ \o Wakes(order)
    BY <1>9 DEF LeaveReactor, Fire
  <2>2. PICK w : w = Wakes(order)
    OBVIOUS
  <2>3. /\ w \in Seq(Nat) /\ ToSet(w) = {TaskOf(f) : f \in Firing}
        /\ \A f \in Leaves : Alone(f) /\ regs[f] <= 1 =>
             CountIn(w, {TaskOf(f)}) = IF f \in Firing THEN 1 ELSE 0
    BY <1>2, <2>2, WakesOfFire
  <2>4. readyQ' = readyQ \o w /\ readyQ' \in Seq(Nat) /\ ToSet(readyQ') = ToSet(readyQ) \cup ToSet(w)
    BY <1>4, <2>1, <2>2, <2>3, ToSetOfConcat, ConcatProperties
  <2>5. RuntimeTypeOK'
    BY <1>1, <1>2, <1>4, <2>4 DEF RuntimeTypeOK
  <2>6. OnlySubmittedRun'
    BY <1>1, <1>2, <1>3, <1>4, <1>5, <2>3, <2>4 DEF OnlySubmittedRun
  <2>7. PendingIsWatched'
    <3>1. ASSUME NEW f \in Leaves, leaf[f] = "pending"
          PROVE  regs'[f] > 0 \/ (task = TaskOf(f) /\ f \in rest) \/ TaskOf(f) \in ToSet(readyQ')
      BY <1>2, <1>4, <1>9, <2>3, <2>4, <3>1 DEF LeavesAreServed, PendingIsWatched, AboutToBePolled
    <3>2. QED BY <1>1, <1>3, <3>1 DEF PendingIsWatched, AboutToBePolled
  <2>8. ASSUME NEW f \in Leaves, Alone(f)' PROVE WakesOnce(f)'
    <3>1. Alone(f) /\ WakesOnce(f) /\ TaskOf(f)' = TaskOf(f)
      BY <1>2, <1>3, <2>8 DEF AloneInv
    <3>2. regs[f] <= 1
      BY <1>2, <3>1 DEF LeavesAreServed, NoRegistrationIsLeft
    <3>3. CountIn(readyQ', {TaskOf(f)}) = CountIn(readyQ, {TaskOf(f)}) + CountIn(w, {TaskOf(f)})
      BY <1>4, <2>3, <2>4, CountInConcat
    <3>4. CountIn(w, {TaskOf(f)}) = IF f \in Firing THEN 1 ELSE 0
      BY <2>3, <3>1, <3>2
    <3>5. CountIn(inbox, {TaskOf(f)}) \in Nat /\ CountIn(readyQ, {TaskOf(f)}) \in Nat
      BY <1>2, CountsAreNumbers DEF RuntimeTypeOK
    <3>6. (PolledNow(f)' <=> PolledNow(f)) /\ (f \in Firing => regs[f] = 1)
      BY <1>1, <1>4, <1>5, <3>1, <3>2 DEF PolledNow
    <3>7. QED BY <1>1, <1>4, <3>1, <3>3, <3>4, <3>5, <3>6 DEF WakesOnce
  <2>9. QED BY <1>6, <1>7, <2>5, <2>6, <2>7, <2>8 DEF RuntimeInv, LeavesAreServed, AloneInv
<1>10. QED BY <1>8, <1>9

LEMMA RuntimeNextInv == ASSUME RuntimeAssumption, RuntimeInv, [RuntimeNext]_runtimeVars PROVE RuntimeInv'
<1>1. CASE \E t \in Tasks : Submit(t) BY <1>1, SubmitKeepsInv
<1>2. CASE PickUp BY <1>2, PickUpKeepsInv
<1>3. CASE TakeReady BY <1>3, TakeReadyKeepsInv
<1>4. CASE NoneReady BY <1>4, NoneReadyKeepsInv
<1>5. CASE PollEnds BY <1>5, PollEndsKeepsInv
<1>6. CASE PollLeaf BY <1>6, PollLeafKeepsInv
<1>7. CASE IoCompletes \/ TimeoutFires
  BY <1>7, LeaveReactorKeepsInv DEF IoCompletes, TimeoutFires
<1>8. CASE \/ SeeClosed \/ EnterReactor \/ Signalled \/ DropRuntime \/ Returned
           \/ UNCHANGED runtimeVars \/ \E f \in Leaves : BecomesReady(f)
  BY <1>8, QuietSteps
<1>9. QED BY <1>1, <1>2, <1>3, <1>4, <1>5, <1>6, <1>7, <1>8 DEF RuntimeNext, LoopStep

(***************************************************************************)
(* For any number of tasks and leaves, of every kind and however they are  *)
(* joined, under every driver and however little room the reactor has: no  *)
(* pending leaf is without a registration or a poll to come, a leaf leaves *)
(* no registration behind (but for the "wait" that shares its task), and a *)
(* sleep that has its task to itself ends after its timer                  *)
(* (src/core/runtime: executor.rs, timer.rs, join.rs, mod.rs).             *)
(***************************************************************************)
THEOREM RuntimeServesLeaves == ASSUME RuntimeAssumption PROVE RuntimeSpec => []LeavesAreServed
<1>1. RuntimeInv => LeavesAreServed
  BY DEF RuntimeInv
<1>2. QED BY RuntimeInitInv, RuntimeNextInv, <1>1, PTL DEF RuntimeSpec
=============================================================================
