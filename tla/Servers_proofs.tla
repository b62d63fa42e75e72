--------------------------- MODULE Servers_proofs ---------------------------
(***************************************************************************)
(* Answers of MCP and language servers reach the requests they answer, a   *)
(* shutdown without trouble leaves no process, and language servers know   *)
(* the text on the disk, for any number of servers, files, edits, uses and *)
(* troubles.                                                               *)
(***************************************************************************)
EXTENDS Servers, SequenceLemmas

Docs == [file : Files \cup {"none"}, version : Nat, text : Nat]
Methods ==
  {"initialize", "initialized", "tools/list", "resources/list", "prompts/list", "tools/call",
   "query", "shutdown", "didOpen", "didChange", "ask", "publishDiagnostics", "none"}
Kinds ==
  {"result", "error", "request", "notification", "badJson", "badBody", "badHeader", "failed"}
Messages == [id : Nat, method : Methods, doc : Docs]
Frames == [kind : Kinds, id : Nat, method : Methods, doc : Docs, more : BOOLEAN]
Calls == [server : Servers \cup {"none"}, id : Nat, method : Methods, doc : Docs,
          step : {"decode", "wait", "done"}, reply : Frames]

RpcTypeOK ==
  /\ nextId \in [Servers -> Nat \ {0}]
  /\ toServer \in [Servers -> Seq(Messages)]
  /\ pipe \in [Servers -> Seq(Frames)] /\ buf \in [Servers -> Seq(Frames)]
  /\ call \in Calls
  /\ docs \in [Files -> Docs]

IsAnswer(m) == m.kind \in {"result", "error"}
Answers(s) == {m \in ToSet(pipe[s]) \cup ToSet(buf[s]) : IsAnswer(m)}

(***************************************************************************)
(* A client never gives out a number that is still under way somewhere.    *)
(***************************************************************************)
NumbersAreOld ==
  \A s \in Servers : \A m \in ToSet(toServer[s]) \cup Answers(s) : m.id < nextId[s]

(***************************************************************************)
(* What is under way with the number of the request in flight is that      *)
(* request or its answer.  Notes have the number 0.                        *)
(***************************************************************************)
FitsCall(m) == m.id = call.id => m.method = call.method /\ m.doc.file = call.doc.file

CallInv ==
  /\ AnswersMatchRequests
  /\ Receiving =>
       /\ call.server \in Servers /\ call.id # 0 /\ call.reply = Failure
       /\ \A m \in ToSet(toServer[call.server]) \cup Answers(call.server) : FitsCall(m)

RpcInv == RpcTypeOK /\ NumbersAreOld /\ CallInv

LEMMA Constants ==
  /\ NoDoc \in Docs /\ Failure \in Frames /\ NoCall \in Calls /\ ~IsAnswer(Failure)
  /\ Failure.kind # "request"
  <1>1. NoDoc \in Docs BY DEF NoDoc, Doc, Docs
  <1>2. Failure \in Frames BY <1>1 DEF Failure, Trouble, Frame, Frames, Kinds, Methods
  <1>3. Failure.kind = "failed" BY DEF Failure, Trouble, Frame
  <1>4. NoCall \in Calls BY <1>1, <1>2 DEF NoCall, Call, Calls, Methods
  <1>5. QED BY <1>1, <1>2, <1>3, <1>4 DEF IsAnswer

-----------------------------------------------------------------------------
LEMMA SpawnInv ==
  ASSUME RpcInv, NEW s \in Servers, NEW method \in Methods, Spawn(s, method),
         docs' \in [Files -> Docs]
  PROVE  RpcInv'
  <1> DEFINE m == Message(1, method, NoDoc)
  <1>1. m \in Messages /\ m.id = 1 /\ m.method = method /\ m.doc = NoDoc
    BY Constants DEF Message, Messages
  <1>2. /\ call' \in Calls /\ call'.server = s /\ call'.id = 1 /\ call'.method = method
        /\ call'.doc = NoDoc /\ call'.step = "decode" /\ call'.reply = Failure
    BY Constants DEF Spawn, Call, Calls
  <1>3. /\ nextId' = [nextId EXCEPT ![s] = 2] /\ toServer' = [toServer EXCEPT ![s] = <<m>>]
        /\ pipe' = [pipe EXCEPT ![s] = <<>>] /\ buf' = [buf EXCEPT ![s] = <<>>]
    BY DEF Spawn
  <1> HIDE DEF m
  <1>4. <<m>> \in Seq(Messages) BY <1>1
  <1>5. RpcTypeOK' BY <1>2, <1>3, <1>4 DEF RpcInv, RpcTypeOK
  <1>6. /\ ToSet(toServer'[s]) = {m} /\ Answers(s)' = {}
    BY <1>3, ToSetOfEmpty, ToSetOfOne DEF RpcInv, RpcTypeOK, Answers
  <1>7. \A t \in Servers \ {s} : ToSet(toServer'[t]) = ToSet(toServer[t]) /\ Answers(t)' = Answers(t)
    BY <1>3 DEF RpcInv, RpcTypeOK, Answers
  <1>8. NumbersAreOld'
    BY <1>1, <1>3, <1>6, <1>7 DEF RpcInv, RpcTypeOK, NumbersAreOld
  <1>9. CallInv'
    BY <1>1, <1>2, <1>6 DEF CallInv, AnswersMatchRequests, Receiving, FitsCall
  <1>10. QED BY <1>5, <1>8, <1>9 DEF RpcInv

LEMMA GoneInv == ASSUME RpcInv, NEW S, Gone(S), UNCHANGED docs PROVE RpcInv'
  <1>1. /\ toServer' = [t \in Servers |-> IF t \in S THEN <<>> ELSE toServer[t]]
        /\ pipe' = [t \in Servers |-> IF t \in S THEN <<>> ELSE pipe[t]]
        /\ buf' = [t \in Servers |-> IF t \in S THEN <<>> ELSE buf[t]]
        /\ nextId' = [t \in Servers |-> IF t \in S THEN 1 ELSE nextId[t]]
        /\ call' = NoCall
    BY DEF Gone
  <1>2. RpcTypeOK' BY <1>1, Constants DEF RpcInv, RpcTypeOK
  <1>3. NumbersAreOld'
    BY <1>1, ToSetOfEmpty DEF RpcInv, RpcTypeOK, NumbersAreOld, Answers
  <1>4. CallInv'
    BY <1>1, Constants DEF CallInv, AnswersMatchRequests, Receiving, NoCall, Call, IsAnswer
  <1>5. QED BY <1>2, <1>3, <1>4 DEF RpcInv

LEMMA RequestInv ==
  ASSUME RpcInv, NEW s \in Servers, NEW notes \in Seq(Messages), \A n \in ToSet(notes) : n.id = 0,
         NEW method \in Methods, NEW doc \in Docs, Request(s, notes, method, doc), UNCHANGED docs
  PROVE  RpcInv'
  <1> DEFINE id == nextId[s]
             m == Message(id, method, doc)
  <1>1. id \in Nat \ {0} BY DEF RpcInv, RpcTypeOK
  <1>2. m \in Messages /\ m.id = id /\ m.method = method /\ m.doc = doc
    BY <1>1 DEF Message, Messages
  <1>3. nextId' = [nextId EXCEPT ![s] = id + 1] /\ UNCHANGED <<pipe, buf>> BY DEF Request
  <1>4. CASE proc[s] = "up"
    <2>1. toServer' = [toServer EXCEPT ![s] = @ \o Append(notes, m)] BY <1>4 DEF Request
    <2>2. /\ call' \in Calls /\ call'.server = s /\ call'.id = id /\ call'.method = method
          /\ call'.doc = doc /\ call'.step = "decode" /\ call'.reply = Failure
      BY <1>1, <1>4, Constants DEF Request, Call, Calls
    <2> HIDE DEF m
    <2>3. toServer[s] \in Seq(Messages) /\ Append(notes, m) \in Seq(Messages)
      BY <1>2 DEF RpcInv, RpcTypeOK
    <2>4. toServer[s] \o Append(notes, m) \in Seq(Messages) BY <2>3
    <2>5. ToSet(toServer[s] \o Append(notes, m)) = ToSet(toServer[s]) \cup ToSet(notes) \cup {m}
      <3>1. ToSet(Append(notes, m)) = ToSet(notes) \cup {m} BY <1>2, ToSetOfAppend
      <3>2. ToSet(toServer[s] \o Append(notes, m)) = ToSet(toServer[s]) \cup ToSet(Append(notes, m))
        <4>1. \A p, q \in Seq(Messages) : ToSet(p \o q) = ToSet(p) \cup ToSet(q) BY ToSetOfConcat
        <4>2. QED BY <2>3, <4>1
      <3>3. QED BY <3>1, <3>2
    <2>6. RpcTypeOK' BY <1>1, <1>3, <2>1, <2>2, <2>4 DEF RpcInv, RpcTypeOK
    <2>7. ToSet(toServer'[s]) = ToSet(toServer[s]) \cup ToSet(notes) \cup {m}
      BY <2>1, <2>5 DEF RpcInv, RpcTypeOK
    <2>8. \A t \in Servers : Answers(t)' = Answers(t) BY <1>3 DEF Answers
    <2>9. \A t \in Servers \ {s} : toServer'[t] = toServer[t] /\ nextId'[t] = nextId[t]
      BY <1>3, <2>1 DEF RpcInv, RpcTypeOK
    <2>10. nextId'[s] = id + 1 BY <1>3 DEF RpcInv, RpcTypeOK
    <2>11. \A t \in Servers : \A n \in ToSet(toServer[t]) \cup Answers(t) : n.id \in Nat
      <3>1. \A t \in Servers : ToSet(toServer[t]) \subseteq Messages
                                /\ ToSet(pipe[t]) \subseteq Frames /\ ToSet(buf[t]) \subseteq Frames
        BY DEF RpcInv, RpcTypeOK, ToSet
      <3>2. QED BY <3>1 DEF Answers, Messages, Frames
    <2>12. NumbersAreOld'
      <3>1. SUFFICES ASSUME NEW t \in Servers, NEW n \in (ToSet(toServer[t]) \cup Answers(t))'
                     PROVE  n.id < nextId'[t]
        BY DEF NumbersAreOld
      <3>2. CASE t # s BY <3>2, <2>8, <2>9 DEF RpcInv, NumbersAreOld
      <3>3. CASE t = s
        <4>1. n.id = 0 \/ n.id = id \/ (n.id < id /\ n.id \in Nat)
          BY <1>2, <2>7, <2>8, <2>11, <3>3 DEF RpcInv, NumbersAreOld
        <4>2. QED BY <1>1, <2>10, <3>3, <4>1
      <3>4. QED BY <3>2, <3>3
    <2>13. CallInv'
      <3>1. SUFFICES ASSUME NEW n \in ToSet(toServer'[s]) \cup Answers(s)', n.id = id
                     PROVE  n = m
        BY <1>1, <1>2, <2>2 DEF CallInv, AnswersMatchRequests, Receiving, FitsCall
      <3>2. \A o \in ToSet(toServer[s]) \cup Answers(s) : o.id # id
        BY <1>1, <2>11 DEF RpcInv, NumbersAreOld
      <3>3. QED BY <1>1, <2>7, <2>8, <3>1, <3>2
    <2>14. QED BY <2>6, <2>12, <2>13 DEF RpcInv
  <1>5. CASE proc[s] # "up"
    <2>1. toServer' = toServer BY <1>5 DEF Request
    <2>2. call' \in Calls /\ call'.step = "done" /\ call'.reply = Failure
      BY <1>1, <1>5, Constants DEF Request, Call, Calls
    <2>3. RpcTypeOK' BY <1>1, <1>3, <2>1, <2>2 DEF RpcInv, RpcTypeOK
    <2>4. NumbersAreOld'
      <3>1. SUFFICES ASSUME NEW t \in Servers, NEW n \in ToSet(toServer[t]) \cup Answers(t)
                     PROVE  n.id < nextId'[t]
        BY <1>3, <2>1 DEF NumbersAreOld, Answers
      <3>2. n.id < nextId[t] BY DEF RpcInv, NumbersAreOld
      <3>3. n.id \in Nat
        <4>1. ToSet(toServer[t]) \subseteq Messages
              /\ ToSet(pipe[t]) \subseteq Frames /\ ToSet(buf[t]) \subseteq Frames
          BY DEF RpcInv, RpcTypeOK, ToSet
        <4>2. QED BY <4>1 DEF Answers, Messages, Frames
      <3>4. nextId[t] \in Nat /\ nextId'[t] \in {nextId[t], nextId[t] + 1}
        BY <1>3 DEF RpcInv, RpcTypeOK
      <3>5. QED BY <3>2, <3>3, <3>4
    <2>5. CallInv'
      BY <2>2, Constants DEF CallInv, AnswersMatchRequests, Receiving, IsAnswer
    <2>6. QED BY <2>3, <2>4, <2>5 DEF RpcInv
  <1>6. QED BY <1>4, <1>5

LEMMA NotifyInv ==
  ASSUME RpcInv, NEW s \in Servers, NEW method \in Methods, NEW doc \in Docs,
         Notify(s, method, doc), UNCHANGED docs
  PROVE  RpcInv'
  <1> DEFINE m == Note(method, doc)
  <1>1. m \in Messages /\ m.id = 0 BY DEF Note, Message, Messages
  <1>2. /\ toServer' = [toServer EXCEPT ![s] = Append(@, m)]
        /\ UNCHANGED <<nextId, pipe, buf, call>>
    BY DEF Notify
  <1> HIDE DEF m
  <1>3. toServer[s] \in Seq(Messages) BY DEF RpcInv, RpcTypeOK
  <1>4. ToSet(Append(toServer[s], m)) = ToSet(toServer[s]) \cup {m} BY <1>1, <1>3, ToSetOfAppend
  <1>5. RpcTypeOK' BY <1>1, <1>2, <1>3 DEF RpcInv, RpcTypeOK
  <1>6. \A t \in Servers : /\ ToSet(toServer'[t]) \subseteq ToSet(toServer[t]) \cup {m}
                           /\ Answers(t)' = Answers(t)
    BY <1>2, <1>4 DEF RpcInv, RpcTypeOK, Answers
  <1>7. NumbersAreOld' BY <1>1, <1>2, <1>6 DEF RpcInv, RpcTypeOK, NumbersAreOld
  <1>8. CallInv'
    BY <1>1, <1>2, <1>6 DEF RpcInv, CallInv, AnswersMatchRequests, Receiving, FitsCall
  <1>9. QED BY <1>5, <1>7, <1>8 DEF RpcInv

-----------------------------------------------------------------------------
(***************************************************************************)
(* Steps that bring nothing new under way and leave the call as it is.     *)
(***************************************************************************)
LEMMA LessUnderWay ==
  ASSUME RpcInv, RpcTypeOK', UNCHANGED nextId,
         \A s \in Servers : /\ ToSet(toServer'[s]) \subseteq ToSet(toServer[s])
                            /\ Answers(s)' \subseteq Answers(s),
         call'.step # "done", Receiving, call' = [call EXCEPT !.step = call'.step]
  PROVE  RpcInv'
  <1>1. NumbersAreOld' BY DEF RpcInv, NumbersAreOld
  <1>2. /\ call'.server = call.server /\ call'.id = call.id /\ call'.method = call.method
        /\ call'.doc = call.doc /\ call'.reply = call.reply
    BY DEF RpcInv, RpcTypeOK, Calls
  <1>3. CallInv' BY <1>2 DEF RpcInv, CallInv, AnswersMatchRequests, Receiving, FitsCall
  <1>4. QED BY <1>1, <1>3 DEF RpcInv

LEMMA CallEnds ==
  ASSUME RpcInv, RpcTypeOK', UNCHANGED nextId,
         \A s \in Servers : /\ ToSet(toServer'[s]) \subseteq ToSet(toServer[s])
                            /\ Answers(s)' \subseteq Answers(s),
         Receiving, call'.step = "done", call'.method = call.method, call'.doc = call.doc,
         \/ call'.reply = Failure
         \/ call'.reply \in Answers(call.server) /\ call'.reply.id = call.id
  PROVE  RpcInv'
  <1>1. NumbersAreOld' BY DEF RpcInv, NumbersAreOld
  <1>2. AnswersMatchRequests'
    BY Constants DEF RpcInv, CallInv, FitsCall, AnswersMatchRequests, IsAnswer
  <1>3. CallInv' BY <1>2 DEF CallInv, Receiving
  <1>4. QED BY <1>1, <1>3 DEF RpcInv

LEMMA ReceiveInv == ASSUME RpcInv, ClientStep, UNCHANGED docs PROVE RpcInv'
  <1> DEFINE s == call.server
  <1>1. Receiving /\ s \in Servers
    <2>1. Receiving BY DEF ClientStep, NeedsMore, Read, EndOfFile, TakeFrame, Receiving
    <2>2. QED BY <2>1 DEF RpcInv, CallInv
  <1>2. /\ pipe[s] \in Seq(Frames) /\ buf[s] \in Seq(Frames) /\ call \in Calls
        /\ pipe \in [Servers -> Seq(Frames)] /\ buf \in [Servers -> Seq(Frames)]
    BY <1>1 DEF RpcInv, RpcTypeOK
  <1> HIDE DEF s
  <1>3. CASE NeedsMore
    <2>1. UNCHANGED <<nextId, toServer, pipe>> /\ call' = [call EXCEPT !.step = "wait"]
      BY <1>3 DEF NeedsMore
    <2>2. buf' = buf \/ (buf[s] # <<>> /\ buf' = [buf EXCEPT ![s] = Tail(@)])
      BY <1>2, <1>3 DEF NeedsMore, Incoming, s
    <2>3. call' \in Calls /\ call'.step = "wait" BY <1>2, <2>1 DEF Calls
    <2>4. buf[s] # <<>> => Tail(buf[s]) \in Seq(Frames) /\ ToSet(Tail(buf[s])) \subseteq ToSet(buf[s])
      BY <1>2, ToSetOfTail
    <2>5. buf' \in [Servers -> Seq(Frames)] /\ \A t \in Servers : ToSet(buf'[t]) \subseteq ToSet(buf[t])
      BY <1>2, <2>2, <2>4
    <2>6. RpcTypeOK' BY <2>1, <2>3, <2>5 DEF RpcInv, RpcTypeOK
    <2>7. \A t \in Servers : Answers(t)' \subseteq Answers(t) BY <2>1, <2>5 DEF Answers
    <2>8. QED BY <1>1, <2>1, <2>3, <2>6, <2>7, LessUnderWay
  <1>4. CASE Read
    <2>1. PICK n \in 1..Len(pipe[s]) :
            /\ buf' = [buf EXCEPT ![s] = @ \o SubSeq(pipe[s], 1, n)]
            /\ pipe' = [pipe EXCEPT ![s] = SubSeq(@, n + 1, Len(@))]
      BY <1>4 DEF Read, s
    <2>2. UNCHANGED <<nextId, toServer>> /\ call' = [call EXCEPT !.step = "decode"]
      BY <1>4 DEF Read
    <2>3. call' \in Calls /\ call'.step = "decode" BY <1>2, <2>2 DEF Calls
    <2> DEFINE new == SubSeq(pipe[s], 1, n)
               left == SubSeq(pipe[s], n + 1, Len(pipe[s]))
    <2>4. Len(pipe[s]) \in Nat BY <1>2
    <2>5. 1 \in 1..Len(pipe[s]) + 1 /\ n \in 0..Len(pipe[s]) /\ n + 1 \in 1..Len(pipe[s]) + 1
          /\ Len(pipe[s]) \in 0..Len(pipe[s])
      BY <2>4
    <2>6. /\ new \in Seq(Frames) /\ ToSet(new) \subseteq ToSet(pipe[s])
          /\ left \in Seq(Frames) /\ ToSet(left) \subseteq ToSet(pipe[s])
      BY <1>2, <2>5, ToSetOfSubSeq
    <2> HIDE DEF new, left
    <2>7. buf[s] \o new \in Seq(Frames) /\ ToSet(buf[s] \o new) = ToSet(buf[s]) \cup ToSet(new)
      BY <1>2, <2>6, ToSetOfConcat
    <2>8. buf' = [buf EXCEPT ![s] = buf[s] \o new] /\ pipe' = [pipe EXCEPT ![s] = left]
      BY <2>1 DEF new, left
    <2>9. RpcTypeOK' BY <2>2, <2>3, <2>6, <2>7, <2>8 DEF RpcInv, RpcTypeOK
    <2>10. \A t \in Servers : ToSet(buf'[t]) \cup ToSet(pipe'[t]) \subseteq ToSet(buf[t]) \cup ToSet(pipe[t])
      BY <1>2, <2>6, <2>7, <2>8
    <2>11. \A t \in Servers : Answers(t)' \subseteq Answers(t) BY <2>10 DEF Answers
    <2>12. QED BY <1>1, <2>2, <2>3, <2>9, <2>11, LessUnderWay
  <1>5. CASE EndOfFile
    <2>1. UNCHANGED <<nextId, toServer, pipe, buf>> /\ call' = [call EXCEPT !.step = "done"]
      BY <1>5 DEF EndOfFile
    <2>2. /\ call' \in Calls /\ call'.step = "done" /\ call'.method = call.method
          /\ call'.doc = call.doc /\ call'.reply = Failure
      BY <1>1, <1>2, <2>1 DEF Calls, RpcInv, CallInv
    <2>3. RpcTypeOK' BY <2>1, <2>2 DEF RpcInv, RpcTypeOK
    <2>4. QED BY <1>1, <2>1, <2>2, <2>3, CallEnds DEF Answers
  <1>6. CASE TakeFrame
    <2> DEFINE m == Head(buf[s])
    <2>1. /\ call.step = "decode" /\ buf[s] # <<>> /\ buf' = [buf EXCEPT ![s] = Tail(@)]
          /\ UNCHANGED <<nextId, toServer, pipe>>
      BY <1>6 DEF TakeFrame, Incoming, s
    <2>2. /\ Tail(buf[s]) \in Seq(Frames) /\ ToSet(Tail(buf[s])) \subseteq ToSet(buf[s])
          /\ m \in Frames /\ m \in ToSet(buf[s])
      BY <1>2, <2>1, ToSetOfTail
    <2>3. call' = IF Matches(m) THEN [call EXCEPT !.step = "done", !.reply = m]
                  ELSE IF m.kind = "badJson" THEN [call EXCEPT !.step = "done"]
                  ELSE call
      BY <1>6 DEF TakeFrame, Incoming, s
    <2> HIDE DEF m
    <2>4. call' \in Calls BY <1>2, <2>2, <2>3 DEF Calls
    <2>5. buf' \in [Servers -> Seq(Frames)] /\ \A t \in Servers : ToSet(buf'[t]) \subseteq ToSet(buf[t])
      BY <1>2, <2>1, <2>2
    <2>6. RpcTypeOK' BY <2>1, <2>4, <2>5 DEF RpcInv, RpcTypeOK
    <2>7. \A t \in Servers : Answers(t)' \subseteq Answers(t) BY <2>1, <2>5 DEF Answers
    <2>8. CASE Matches(m)
      <3>1. /\ call'.step = "done" /\ call'.method = call.method /\ call'.doc = call.doc
            /\ call'.reply = m
        BY <1>2, <2>3, <2>8 DEF Calls
      <3>2. m \in Answers(s) /\ m.id = call.id BY <2>2, <2>8 DEF Matches, Answers, IsAnswer
      <3>3. QED BY <1>1, <2>1, <2>6, <2>7, <3>1, <3>2, CallEnds DEF s
    <2>9. CASE ~Matches(m) /\ m.kind = "badJson"
      <3>1. /\ call'.step = "done" /\ call'.method = call.method /\ call'.doc = call.doc
            /\ call'.reply = Failure
        BY <1>1, <1>2, <2>3, <2>9 DEF Calls, RpcInv, CallInv
      <3>2. QED BY <1>1, <2>1, <2>6, <2>7, <3>1, CallEnds
    <2>10. CASE ~Matches(m) /\ m.kind # "badJson"
      <3>1. call' = call /\ call = [call EXCEPT !.step = call.step]
        BY <1>2, <2>3, <2>10 DEF Calls
      <3>2. QED BY <1>1, <2>1, <2>6, <2>7, <3>1, LessUnderWay
    <2>11. QED BY <2>8, <2>9, <2>10
  <1>7. QED BY <1>3, <1>4, <1>5, <1>6 DEF ClientStep

LEMMA UnchangedInv == ASSUME RpcInv, UNCHANGED <<rpcVars, docs>> PROVE RpcInv'
  BY DEF rpcVars, RpcInv, RpcTypeOK, NumbersAreOld, CallInv, AnswersMatchRequests, Receiving,
         FitsCall, Answers

-----------------------------------------------------------------------------
(* A frame sent adds to the answers of its server at most itself.          *)
LEMMA ReplyAnswers ==
  ASSUME RpcTypeOK, NEW s \in Servers, NEW r, Reply(s, <<r>>), UNCHANGED buf
  PROVE  \A t \in Servers :
           Answers(t)' \subseteq Answers(t) \cup (IF t = s /\ IsAnswer(r) THEN {r} ELSE {})
  <1> DEFINE T == Frames \cup {r}
  <1>1. pipe[s] \in Seq(T) /\ <<r>> \in Seq(T) BY DEF RpcTypeOK
  <1>2. ToSet(pipe[s] \o <<r>>) = ToSet(pipe[s]) \cup {r}
    <2>1. \A p, q \in Seq(T) : ToSet(p \o q) = ToSet(p) \cup ToSet(q) BY ToSetOfConcat
    <2>2. ToSet(<<r>>) = {r} BY ToSetOfOne
    <2>3. ToSet(pipe[s] \o <<r>>) = ToSet(pipe[s]) \cup ToSet(<<r>>) BY <1>1, <2>1
    <2>4. QED BY <2>2, <2>3
  <1>3. pipe' = [pipe EXCEPT ![s] = pipe[s] \o <<r>>] BY DEF Reply
  <1>4. \A t \in Servers : ToSet(pipe'[t]) \subseteq ToSet(pipe[t]) \cup (IF t = s THEN {r} ELSE {})
    BY <1>2, <1>3 DEF RpcTypeOK
  <1>5. QED BY <1>4 DEF Answers

(***************************************************************************)
(* What a server puts into its pipe: an answer to a message it has taken,  *)
(* or no answer.                                                           *)
(***************************************************************************)
LEMMA FrameSent ==
  ASSUME RpcInv, NEW s \in Servers, NEW f \in Frames,
         IsAnswer(f) => \E m \in ToSet(toServer[s]) :
                          f.id = m.id /\ f.method = m.method /\ f.doc.file = m.doc.file,
         Reply(s, <<f>>),
         toServer' \in [Servers -> Seq(Messages)],
         \A t \in Servers : ToSet(toServer'[t]) \subseteq ToSet(toServer[t]),
         UNCHANGED <<nextId, buf, call>>, docs' \in [Files -> Docs]
  PROVE  RpcInv'
  <1>1. pipe[s] \in Seq(Frames) /\ <<f>> \in Seq(Frames) BY DEF RpcInv, RpcTypeOK
  <1>2. pipe' = [pipe EXCEPT ![s] = pipe[s] \o <<f>>] BY DEF Reply
  <1>3. pipe[s] \o <<f>> \in Seq(Frames) BY <1>1
  <1>4. RpcTypeOK' BY <1>2, <1>3 DEF RpcInv, RpcTypeOK
  <1>5. \A t \in Servers :
          Answers(t)' \subseteq Answers(t) \cup (IF t = s /\ IsAnswer(f) THEN {f} ELSE {})
    BY ReplyAnswers DEF RpcInv
  <1>6. NumbersAreOld' BY <1>5 DEF RpcInv, NumbersAreOld
  <1>7. CallInv'
    BY <1>5 DEF RpcInv, CallInv, AnswersMatchRequests, Receiving, FitsCall
  <1>8. QED BY <1>4, <1>6, <1>7 DEF RpcInv

LEMMA NothingSent ==
  ASSUME RpcInv, UNCHANGED <<nextId, pipe, buf, call>>,
         toServer' \in [Servers -> Seq(Messages)],
         \A t \in Servers : ToSet(toServer'[t]) \subseteq ToSet(toServer[t]),
         docs' \in [Files -> Docs]
  PROVE  RpcInv'
  BY DEF RpcInv, RpcTypeOK, NumbersAreOld, CallInv, AnswersMatchRequests, Receiving, FitsCall, Answers

LEMMA AnswerFields ==
  ASSUME NEW m \in Messages, NEW kind \in {"result", "error"}, NEW doc \in Docs,
         NEW more \in BOOLEAN, NEW f, f = Frame(kind, m.id, m.method, doc, more)
  PROVE  f \in Frames /\ f.id = m.id /\ f.method = m.method /\ f.doc = doc
  <1>1. m.id \in Nat /\ m.method \in Methods BY DEF Messages
  <1>2. kind \in Kinds BY DEF Kinds
  <1>3. f = [kind |-> kind, id |-> m.id, method |-> m.method, doc |-> doc, more |-> more] BY DEF Frame
  <1>4. QED BY <1>1, <1>2, <1>3 DEF Frames

LEMMA AnswerSent ==
  ASSUME RpcInv, NEW s \in Servers, NEW m \in Messages, m \in ToSet(toServer[s]),
         NEW kind \in {"result", "error"}, NEW doc \in Docs, doc.file = m.doc.file,
         NEW more \in BOOLEAN, Reply(s, <<Frame(kind, m.id, m.method, doc, more)>>),
         toServer' \in [Servers -> Seq(Messages)],
         \A t \in Servers : ToSet(toServer'[t]) \subseteq ToSet(toServer[t]),
         UNCHANGED <<nextId, buf, call>>, UNCHANGED docs
  PROVE  RpcInv'
  <1>1. PICK f : f = Frame(kind, m.id, m.method, doc, more) OBVIOUS
  <1>2. f \in Frames /\ f.id = m.id /\ f.method = m.method /\ f.doc = doc BY <1>1, AnswerFields
  <1>3. Reply(s, <<f>>) BY <1>1
  <1>4. docs' \in [Files -> Docs] BY DEF RpcInv, RpcTypeOK
  <1>5. QED BY <1>2, <1>3, <1>4, FrameSent

LEMMA ServeInv == ASSUME RpcInv, NEW s \in Servers, Serve(s) PROVE RpcInv'
  <1> DEFINE m == Head(toServer[s])
  <1>1. toServer[s] # <<>> /\ toServer' = [toServer EXCEPT ![s] = Tail(@)]
        /\ UNCHANGED <<nextId, buf, call>>
    BY DEF Serve
  <1>2. toServer[s] \in Seq(Messages) BY DEF RpcInv, RpcTypeOK
  <1>3. /\ Tail(toServer[s]) \in Seq(Messages) /\ ToSet(Tail(toServer[s])) \subseteq ToSet(toServer[s])
        /\ m \in Messages /\ m \in ToSet(toServer[s])
    BY <1>1, <1>2, ToSetOfTail
  <1>4. /\ toServer' \in [Servers -> Seq(Messages)]
        /\ \A t \in Servers : ToSet(toServer'[t]) \subseteq ToSet(toServer[t])
    BY <1>1, <1>3 DEF RpcInv, RpcTypeOK
  <1>5. docs \in [Files -> Docs] /\ m.doc \in Docs /\ m.id \in Nat /\ m.method \in Methods
    BY <1>3 DEF RpcInv, RpcTypeOK, Messages
  <1>6. \/ \E more \in BOOLEAN : Reply(s, <<Result(m, more)>>) /\ UNCHANGED docs
        \/ /\ \E more \in {FALSE} : Reply(s, <<Frame("error", m.id, m.method, m.doc, more)>>)
           /\ UNCHANGED docs
        \/ /\ docs' = IF m.doc.file \in Files THEN [docs EXCEPT ![m.doc.file] = m.doc] ELSE docs
           /\ \/ Reply(s, <<Frame("notification", 0, "publishDiagnostics", m.doc, FALSE)>>)
              \/ UNCHANGED pipe
    BY DEF Serve
  <1> HIDE DEF m
  <1>7. ASSUME NEW more \in BOOLEAN, Reply(s, <<Result(m, more)>>), UNCHANGED docs PROVE RpcInv'
    <2> DEFINE known == IF m.doc.file \in Files THEN docs[m.doc.file] ELSE m.doc
               doc == [known EXCEPT !.file = m.doc.file]
    <2>1. known \in Docs BY <1>5
    <2>2. m.doc.file \in Files \cup {"none"} BY <1>5 DEF Docs
    <2>3. Reply(s, <<Frame("result", m.id, m.method, doc, more)>>) BY <1>7 DEF Result
    <2> HIDE DEF known
    <2>4. doc \in Docs /\ doc.file = m.doc.file BY <2>1, <2>2 DEF Docs
    <2> HIDE DEF doc
    <2>5. QED BY <1>1, <1>3, <1>4, <1>7, <2>3, <2>4, AnswerSent
  <1>8. ASSUME NEW more \in {FALSE}, UNCHANGED docs,
               Reply(s, <<Frame("error", m.id, m.method, m.doc, more)>>)
        PROVE  RpcInv'
    BY <1>1, <1>3, <1>4, <1>5, <1>8, AnswerSent
  <1>9. ASSUME docs' = IF m.doc.file \in Files THEN [docs EXCEPT ![m.doc.file] = m.doc] ELSE docs,
               \/ Reply(s, <<Frame("notification", 0, "publishDiagnostics", m.doc, FALSE)>>)
               \/ UNCHANGED pipe
        PROVE RpcInv'
    <2> DEFINE f == Frame("notification", 0, "publishDiagnostics", m.doc, FALSE)
    <2>1. docs' \in [Files -> Docs] BY <1>5, <1>9
    <2>2. f \in Frames /\ ~IsAnswer(f) BY <1>5 DEF Frame, Frames, Kinds, Methods, IsAnswer
    <2> HIDE DEF f
    <2>3. CASE Reply(s, <<f>>) BY <1>1, <1>4, <2>1, <2>2, <2>3, FrameSent
    <2>4. CASE UNCHANGED pipe BY <1>1, <1>4, <2>1, <2>4, NothingSent
    <2>5. QED BY <1>9, <2>3, <2>4 DEF f
  <1>10. QED BY <1>6, <1>7, <1>8, <1>9

LEMMA GoesWrongInv == ASSUME RpcInv, NEW s \in Servers, GoesWrong(s), UNCHANGED docs PROVE RpcInv'
  <1>1. UNCHANGED <<nextId, toServer, buf, call>> BY DEF GoesWrong
  <1>2. docs' \in [Files -> Docs] /\ toServer' \in [Servers -> Seq(Messages)]
        /\ \A t \in Servers : ToSet(toServer'[t]) \subseteq ToSet(toServer[t])
    BY <1>1 DEF RpcInv, RpcTypeOK
  <1>3. ASSUME NEW kind \in {"badJson", "badBody", "badHeader"}, Reply(s, <<Trouble(kind)>>) PROVE RpcInv'
    <2> DEFINE f == Trouble(kind)
    <2>1. f \in Frames /\ ~IsAnswer(f)
      <3>1. kind \in Kinds /\ kind \notin {"result", "error"} /\ "none" \in Methods
        BY <1>3 DEF Kinds, Methods
      <3>2. NoDoc \in Docs BY Constants
      <3>3. QED BY <3>1, <3>2 DEF Trouble, Frame, Frames, IsAnswer
    <2> HIDE DEF f
    <2>2. Reply(s, <<f>>) BY <1>3 DEF f
    <2>3. QED BY <1>1, <1>2, <2>1, <2>2, FrameSent
  <1>4. ASSUME NEW id \in 1..2, Reply(s, <<Frame("request", id, "ask", NoDoc, FALSE)>>) PROVE RpcInv'
    <2> DEFINE f == Frame("request", id, "ask", NoDoc, FALSE)
    <2>1. f \in Frames /\ ~IsAnswer(f)
      BY Constants DEF Frame, Frames, Kinds, Methods, IsAnswer
    <2> HIDE DEF f
    <2>2. Reply(s, <<f>>) BY <1>4 DEF f
    <2>3. QED BY <1>1, <1>2, <2>1, <2>2, FrameSent
  <1>5. CASE UNCHANGED pipe BY <1>1, <1>2, <1>5, NothingSent
  <1>6. QED BY <1>3, <1>4, <1>5 DEF GoesWrong, TroubleKinds

-----------------------------------------------------------------------------
(***************************************************************************)
(* The managers name servers and files that exist.                         *)
(***************************************************************************)
MgrInv ==
  /\ toConnect \in Seq(Servers) /\ handles \subseteq Servers /\ started \subseteq Servers
  /\ opened \in [Files -> Nat] /\ disk \in [Files -> Nat]
  /\ goal.file \in Files \cup {"none"} /\ goal.text \in Nat
  /\ edited \in Seq(Files)
  /\ pc \in {"mcpInit", "mcpList"} => toConnect # <<>>
  /\ pc = "mcpList" => call.method \in ToSet(Lists)
  /\ pc \in {"open", "lspInit", "lspQuery"} => goal.file \in Files

ServersInv == RpcInv /\ MgrInv

LEMMA LspIsServer == \A f \in Files : LspOf[f] \in Servers
  BY ServersAssumption DEF ServersAssumption, LspServers

LEMMA ListsAreMethods ==
  /\ ToSet(Lists) \subseteq Methods /\ Lists[1] \in ToSet(Lists)
  /\ \A i \in DOMAIN Lists : i < Len(Lists) => Lists[i + 1] \in ToSet(Lists)
  <1>1. Len(Lists) = 3 /\ DOMAIN Lists = 1..3 BY DEF Lists
  <1>2. Lists[1] \in Methods /\ Lists[2] \in Methods /\ Lists[3] \in Methods BY DEF Lists, Methods
  <1>3. \A i \in 1..3 : i = 1 \/ i = 2 \/ i = 3 OBVIOUS
  <1>4. ToSet(Lists) = {Lists[1], Lists[2], Lists[3]} BY <1>1, <1>3 DEF ToSet
  <1>5. \A i \in 1..3 : i < 3 => i + 1 = 2 \/ i + 1 = 3 OBVIOUS
  <1>6. QED BY <1>1, <1>2, <1>4, <1>5

LEMMA RequestCalls ==
  ASSUME NEW s, NEW notes, NEW method, NEW doc, Request(s, notes, method, doc)
  PROVE  call'.method = method
  <1>1. \E id, step : call' = Call(s, id, method, doc, step, Failure) BY DEF Request
  <1>2. QED BY <1>1 DEF Call

LEMMA NoNotes == <<>> \in Seq(Messages) /\ \A n \in ToSet(<<>>) : n.id = 0
  <1>1. <<>> \in Seq(Messages) OBVIOUS
  <1>2. ToSet(<<>>) = {} BY ToSetOfEmpty
  <1>3. \A n \in ToSet(<<>>) : n.id = 0 BY <1>2
  <1>4. QED BY <1>1, <1>3

LEMMA InitInv == Init => ServersInv
  <1> SUFFICES ASSUME Init PROVE ServersInv OBVIOUS
  <1>1. RpcTypeOK BY Constants DEF Init, RpcInit, RpcTypeOK
  <1>2. \A s \in Servers : ToSet(toServer[s]) = {} /\ Answers(s) = {}
    BY ToSetOfEmpty DEF Init, RpcInit, Answers
  <1>3. NumbersAreOld BY <1>2 DEF NumbersAreOld
  <1>4. call = NoCall BY DEF Init, RpcInit
  <1>5. CallInv
    BY <1>4, Constants DEF CallInv, AnswersMatchRequests, Receiving, NoCall, Call, IsAnswer
  <1>6. MgrInv
    BY ServersAssumption DEF Init, MgrInv, NoGoal, Goal, ServersAssumption
  <1>7. QED BY <1>1, <1>3, <1>5, <1>6 DEF RpcInv, ServersInv

LEMMA ConnectingInv ==
  ASSUME ServersInv,
         SpawnMcp \/ SpawnMcpFails \/ McpInitialized \/ McpInitFails \/ McpNextPage \/ McpListed
         \/ Ready
  PROVE  ServersInv'
  <1> DEFINE s == Head(toConnect)
  <1>1. RpcInv /\ MgrInv /\ NoDoc \in Docs BY Constants DEF ServersInv
  <1>2. toConnect # <<>> => /\ s \in Servers /\ Tail(toConnect) \in Seq(Servers)
    BY <1>1, ToSetOfTail DEF MgrInv
  <1>3. call.method \in ToSet(Lists) => call.method \in Methods BY ListsAreMethods
  <1>4. CASE SpawnMcp
    <2>1. toConnect # <<>> /\ Spawn(s, "initialize") /\ UNCHANGED docs BY <1>4 DEF SpawnMcp, Connecting
    <2>2. "initialize" \in Methods /\ docs' \in [Files -> Docs]
      BY <1>1, <2>1 DEF Methods, RpcInv, RpcTypeOK
    <2>3. RpcInv' BY <1>1, <1>2, <2>1, <2>2, SpawnInv
    <2>4. MgrInv' BY <1>1, <1>4, <2>1 DEF SpawnMcp, MgrInv, lspVars, diskVars
    <2>5. QED BY <2>3, <2>4 DEF ServersInv
  <1>5. CASE SpawnMcpFails
    <2>1. RpcInv' BY <1>1, <1>5, UnchangedInv DEF SpawnMcpFails
    <2>2. MgrInv' BY <1>1, <1>2, <1>5 DEF SpawnMcpFails, Connecting, MgrInv, lspVars, diskVars
    <2>3. QED BY <2>1, <2>2 DEF ServersInv
  <1>6. CASE McpInitialized
    <2> DEFINE note == Note("initialized", NoDoc)
    <2>1. /\ pc = "mcpInit" /\ Request(s, <<note>>, Lists[1], NoDoc)
          /\ UNCHANGED docs
      BY <1>6 DEF McpInitialized, Answered
    <2>2. note \in Messages /\ note.id = 0
      BY <1>1 DEF Note, Message, Messages, Methods
    <2> HIDE DEF note
    <2>3. <<note>> \in Seq(Messages) /\ \A n \in ToSet(<<note>>) : n.id = 0
      BY <2>2, ToSetOfOne
    <2>4. s \in Servers BY <1>1, <1>2, <2>1 DEF MgrInv
    <2>5. Lists[1] \in Methods /\ Lists[1] \in ToSet(Lists) BY ListsAreMethods
    <2>6. RpcInv' BY <1>1, <2>1, <2>3, <2>4, <2>5, RequestInv
    <2>7. call'.method = Lists[1] BY <2>1, RequestCalls
    <2>8. MgrInv' BY <1>1, <1>6, <2>1, <2>5, <2>7 DEF McpInitialized, MgrInv, lspVars, diskVars
    <2>9. QED BY <2>6, <2>8 DEF ServersInv
  <1>7. CASE McpInitFails
    <2>1. pc = "mcpInit" /\ Gone({s}) /\ UNCHANGED docs BY <1>7 DEF McpInitFails, Answered, Dropped
    <2>2. RpcInv' BY <1>1, <2>1, GoneInv
    <2>3. MgrInv' BY <1>1, <1>2, <1>7, <2>1 DEF McpInitFails, MgrInv, lspVars, diskVars
    <2>4. QED BY <2>2, <2>3 DEF ServersInv
  <1>8. CASE McpNextPage
    <2>1. pc = "mcpList" /\ Request(s, <<>>, call.method, NoDoc) /\ UNCHANGED <<mgrVars, docs>>
      BY <1>8 DEF McpNextPage, Answered
    <2>2. s \in Servers /\ call.method \in Methods BY <1>1, <1>2, <1>3, <2>1 DEF MgrInv
    <2>3. RpcInv' BY <1>1, <2>1, <2>2, NoNotes, RequestInv
    <2>4. call'.method = call.method BY <2>1, RequestCalls
    <2>5. MgrInv' BY <1>1, <2>1, <2>4 DEF MgrInv, mgrVars, lspVars, diskVars
    <2>6. QED BY <2>3, <2>5 DEF ServersInv
  <1>9. CASE McpListed
    <2> DEFINE i == CHOOSE n \in DOMAIN Lists : Lists[n] = call.method
    <2>1. pc = "mcpList" /\ UNCHANGED <<lspVars, diskVars, docs>> BY <1>9 DEF McpListed, Answered
    <2>2. s \in Servers /\ toConnect # <<>> BY <1>1, <1>2, <2>1 DEF MgrInv
    <2>3. \E n \in DOMAIN Lists : Lists[n] = call.method
      BY <1>1, <2>1 DEF MgrInv, ToSet
    <2>4. i \in DOMAIN Lists BY <2>3
    <2> HIDE DEF i
    <2>5. CASE i < Len(Lists)
      <3>1. Request(s, <<>>, Lists[i + 1], NoDoc) /\ UNCHANGED <<pc, toConnect, handles>>
        BY <1>9, <2>5 DEF McpListed, i
      <3>2. Lists[i + 1] \in ToSet(Lists) /\ Lists[i + 1] \in Methods
        BY <2>4, <2>5, ListsAreMethods
      <3>3. RpcInv' BY <1>1, <2>1, <2>2, <3>1, <3>2, NoNotes, RequestInv
      <3>4. call'.method = Lists[i + 1] BY <3>1, RequestCalls
      <3>5. MgrInv' BY <1>1, <2>1, <3>1, <3>2, <3>4 DEF MgrInv, lspVars, diskVars
      <3>6. QED BY <3>3, <3>5 DEF ServersInv
    <2>6. CASE ~(i < Len(Lists))
      <3>1. /\ handles' = handles \cup {s} /\ toConnect' = Tail(toConnect) /\ pc' = "connect"
            /\ UNCHANGED rpcVars
        BY <1>9, <2>6 DEF McpListed, i
      <3>2. RpcInv' BY <1>1, <2>1, <3>1, UnchangedInv
      <3>3. MgrInv' BY <1>1, <1>2, <2>1, <2>2, <3>1 DEF MgrInv, lspVars, diskVars
      <3>4. QED BY <3>2, <3>3 DEF ServersInv
    <2>7. QED BY <2>5, <2>6
  <1>10. CASE Ready
    <2>1. RpcInv' BY <1>1, <1>10, UnchangedInv DEF Ready
    <2>2. MgrInv' BY <1>1, <1>10 DEF Ready, MgrInv, lspVars, diskVars
    <2>3. QED BY <2>1, <2>2 DEF ServersInv
  <1>11. QED BY <1>4, <1>5, <1>6, <1>7, <1>8, <1>9, <1>10

LEMMA RoundInv ==
  ASSUME ServersInv,
         \/ \E s \in Servers : CallMcp(s)
         \/ McpCalled
         \/ \E op \in {"query", "diagnostics"}, f \in Files : UseLsp(op, f)
         \/ \E f \in Files : Edit(f)
         \/ ToolsDone \/ DidChange \/ NewRound
  PROVE  ServersInv'
  <1>1. RpcInv /\ MgrInv /\ NoDoc \in Docs BY Constants DEF ServersInv
  <1>2. ASSUME NEW s \in Servers, CallMcp(s) PROVE ServersInv'
    <2>1. Request(s, <<>>, "tools/call", NoDoc) /\ UNCHANGED docs /\ "tools/call" \in Methods
      BY <1>2 DEF CallMcp, Methods
    <2>2. RpcInv' BY <1>1, <2>1, NoNotes, RequestInv
    <2>3. MgrInv' BY <1>1, <1>2 DEF CallMcp, MgrInv, lspVars, diskVars
    <2>4. QED BY <2>2, <2>3 DEF ServersInv
  <1>3. CASE McpCalled
    <2>1. RpcInv' BY <1>1, <1>3, UnchangedInv DEF McpCalled
    <2>2. MgrInv' BY <1>1, <1>3 DEF McpCalled, MgrInv, lspVars, diskVars
    <2>3. QED BY <2>1, <2>2 DEF ServersInv
  <1>4. ASSUME NEW op, NEW f \in Files, UseLsp(op, f) PROVE ServersInv'
    <2>1. RpcInv' BY <1>1, <1>4, UnchangedInv DEF UseLsp
    <2>2. goal'.file = f /\ goal'.text = disk[f] BY <1>4 DEF UseLsp, Goal
    <2>3. MgrInv' BY <1>1, <1>4, <2>2 DEF UseLsp, MgrInv, diskVars
    <2>4. QED BY <2>1, <2>3 DEF ServersInv
  <1>5. ASSUME NEW f \in Files, Edit(f) PROVE ServersInv'
    <2>1. RpcInv' BY <1>1, <1>5, UnchangedInv DEF Edit
    <2>2. /\ pc = "round" /\ disk' = [disk EXCEPT ![f] = @ + 1] /\ edited' = Append(edited, f)
          /\ UNCHANGED <<pc, toConnect, handles, lspVars>>
      BY <1>5 DEF Edit
    <2>3. MgrInv' BY <1>1, <2>2 DEF MgrInv, lspVars
    <2>4. QED BY <2>1, <2>3 DEF ServersInv
  <1>6. CASE ToolsDone
    <2>1. RpcInv' BY <1>1, <1>6, UnchangedInv DEF ToolsDone
    <2>2. MgrInv' BY <1>1, <1>6 DEF ToolsDone, MgrInv, lspVars, diskVars
    <2>3. QED BY <2>1, <2>2 DEF ServersInv
  <1>7. CASE DidChange
    <2> DEFINE f == Head(edited)
    <2>1. /\ pc = "notify" /\ edited # <<>> /\ edited' = Tail(edited)
          /\ UNCHANGED <<pc, toConnect, handles, started, goal, disk, docs>>
      BY <1>7 DEF DidChange
    <2>2. f \in Files /\ Tail(edited) \in Seq(Files) BY <1>1, <2>1, ToSetOfTail DEF MgrInv
    <2>3. opened' = opened \/ opened' = [opened EXCEPT ![f] = @ + 1] BY <1>7 DEF DidChange
    <2>4. UNCHANGED rpcVars \/ Notify(LspOf[f], "didChange", Doc(f, opened[f] + 1, disk[f]))
      BY <1>7 DEF DidChange
    <2> HIDE DEF f
    <2>5. UNCHANGED rpcVars => RpcInv' BY <1>1, <2>1, UnchangedInv
    <2>6. ASSUME Notify(LspOf[f], "didChange", Doc(f, opened[f] + 1, disk[f])) PROVE RpcInv'
      <3>1. Doc(f, opened[f] + 1, disk[f]) \in Docs BY <1>1, <2>2 DEF MgrInv, Doc, Docs
      <3>2. LspOf[f] \in Servers /\ "didChange" \in Methods BY <2>2, LspIsServer DEF Methods
      <3>3. QED BY <1>1, <2>1, <2>6, <3>1, <3>2, NotifyInv
    <2>7. MgrInv' BY <1>1, <2>1, <2>2, <2>3 DEF MgrInv
    <2>8. RpcInv' BY <2>4, <2>5, <2>6
    <2>9. QED BY <2>7, <2>8 DEF ServersInv
  <1>8. CASE NewRound
    <2>1. RpcInv' BY <1>1, <1>8, UnchangedInv DEF NewRound
    <2>2. MgrInv' BY <1>1, <1>8 DEF NewRound, MgrInv, lspVars
    <2>3. QED BY <2>1, <2>2 DEF ServersInv
  <1>9. QED BY <1>2, <1>3, <1>4, <1>5, <1>6, <1>7, <1>8

LEMMA LspInv ==
  ASSUME ServersInv,
         StartLsp \/ StartLspFails \/ LspInitialized \/ LspInitFails
         \/ DidOpen \/ DidOpenFails \/ Query \/ ReportDiagnostics \/ Queried
  PROVE  ServersInv'
  <1>1. RpcInv /\ MgrInv /\ NoDoc \in Docs BY Constants DEF ServersInv
  <1>2. pc \in {"open", "lspInit", "lspQuery"} => goal.file \in Files /\ Lsp \in Servers
    BY <1>1, LspIsServer DEF MgrInv, Lsp
  <1>3. ASSUME NEW at, ToolEnds(at), UNCHANGED <<toConnect, handles, started, opened, diskVars>>
        PROVE  MgrInv'
    <2>1. pc' = "round" /\ goal'.file = "none" /\ goal'.text = 0
      BY <1>3 DEF ToolEnds, NoGoal, Goal
    <2>2. QED BY <1>1, <1>3, <2>1 DEF MgrInv, diskVars
  <1>4. CASE StartLsp
    <2>1. pc = "open" /\ Spawn(Lsp, "initialize") BY <1>4 DEF StartLsp
    <2>2. docs' \in [Files -> Docs]
      <3>1. docs' = [f \in Files |-> IF LspOf[f] = Lsp THEN NoDoc ELSE docs[f]] BY <1>4 DEF StartLsp
      <3>2. QED BY <1>1, <3>1 DEF RpcInv, RpcTypeOK
    <2>3. "initialize" \in Methods BY DEF Methods
    <2>4. RpcInv' BY <1>1, <1>2, <2>1, <2>2, <2>3, SpawnInv
    <2>5. MgrInv' BY <1>1, <1>2, <1>4, <2>1 DEF StartLsp, MgrInv, lspVars, diskVars
    <2>6. QED BY <2>4, <2>5 DEF ServersInv
  <1>5. CASE StartLspFails
    BY <1>1, <1>3, <1>5, UnchangedInv DEF StartLspFails, ServersInv
  <1>6. CASE LspInitialized
    <2>1. pc = "lspInit" /\ pc' = "open" /\ Notify(Lsp, "initialized", NoDoc)
          /\ started' = started \cup {Lsp}
          /\ UNCHANGED <<toConnect, handles, opened, goal, diskVars, docs>>
      BY <1>6 DEF LspInitialized, Answered
    <2>2. "initialized" \in Methods BY DEF Methods
    <2>3. RpcInv' BY <1>1, <1>2, <2>1, <2>2, NotifyInv
    <2>4. MgrInv' BY <1>1, <1>2, <2>1 DEF MgrInv, diskVars
    <2>5. QED BY <2>3, <2>4 DEF ServersInv
  <1>7. CASE LspInitFails
    <2>1. Gone({Lsp}) /\ UNCHANGED docs BY <1>7 DEF LspInitFails, Dropped
    <2>2. RpcInv' BY <1>1, <2>1, GoneInv
    <2>3. MgrInv' BY <1>3, <1>7 DEF LspInitFails
    <2>4. QED BY <2>2, <2>3 DEF ServersInv
  <1>8. CASE DidOpen
    <2> DEFINE doc == Doc(goal.file, 1, goal.text)
    <2>1. pc = "open" /\ Notify(Lsp, "didOpen", doc) /\ opened' = [opened EXCEPT ![goal.file] = 1]
          /\ UNCHANGED <<pc, toConnect, handles, started, goal, diskVars, docs>>
      BY <1>8 DEF DidOpen
    <2>2. doc \in Docs BY <1>1, <1>2, <2>1 DEF MgrInv, Doc, Docs
    <2>3. "didOpen" \in Methods BY DEF Methods
    <2> HIDE DEF doc
    <2>4. RpcInv' BY <1>1, <1>2, <2>1, <2>2, <2>3, NotifyInv
    <2>5. MgrInv' BY <1>1, <1>2, <2>1 DEF MgrInv, diskVars
    <2>6. QED BY <2>4, <2>5 DEF ServersInv
  <1>9. CASE DidOpenFails
    BY <1>1, <1>3, <1>9, UnchangedInv DEF DidOpenFails, ServersInv
  <1>10. CASE Query
    <2> DEFINE doc == Doc(goal.file, 0, 0)
    <2>1. pc = "open" /\ pc' = "lspQuery" /\ Request(Lsp, <<>>, "query", doc)
          /\ UNCHANGED <<toConnect, handles, lspVars, diskVars, docs>>
      BY <1>10 DEF Query, FileIsOpen
    <2>2. doc \in Docs BY <1>2, <2>1 DEF Doc, Docs
    <2>3. "query" \in Methods BY DEF Methods
    <2> HIDE DEF doc
    <2>4. RpcInv' BY <1>1, <1>2, <2>1, <2>2, <2>3, NoNotes, RequestInv
    <2>5. MgrInv' BY <1>1, <1>2, <2>1 DEF MgrInv, lspVars, diskVars
    <2>6. QED BY <2>4, <2>5 DEF ServersInv
  <1>11. CASE ReportDiagnostics
    BY <1>1, <1>3, <1>11, UnchangedInv DEF ReportDiagnostics, ServersInv
  <1>12. CASE Queried
    BY <1>1, <1>3, <1>12, UnchangedInv DEF Queried, ServersInv
  <1>13. QED BY <1>4, <1>5, <1>6, <1>7, <1>8, <1>9, <1>10, <1>11, <1>12

LEMMA LeavingInv ==
  ASSUME ServersInv, Quit \/ ShutdownLsp \/ LspIsShutDown \/ AllShutDown \/ LeaveWithoutShutdown
  PROVE  ServersInv'
  <1>1. RpcInv /\ MgrInv /\ NoDoc \in Docs BY Constants DEF ServersInv
  <1>2. CASE Quit
    <2>1. RpcInv' BY <1>1, <1>2, GoneInv DEF Quit
    <2>2. MgrInv' BY <1>1, <1>2 DEF Quit, MgrInv, lspVars, diskVars
    <2>3. QED BY <2>1, <2>2 DEF ServersInv
  <1>3. CASE ShutdownLsp
    <2>1. PICK s \in started : Request(s, <<>>, "shutdown", NoDoc) BY <1>3 DEF ShutdownLsp
    <2>2. s \in Servers /\ "shutdown" \in Methods /\ UNCHANGED docs
      BY <1>1, <1>3 DEF ShutdownLsp, MgrInv, Methods
    <2>3. RpcInv' BY <1>1, <2>1, <2>2, NoNotes, RequestInv
    <2>4. MgrInv' BY <1>1, <1>3 DEF ShutdownLsp, MgrInv, lspVars, diskVars
    <2>5. QED BY <2>3, <2>4 DEF ServersInv
  <1>4. CASE LspIsShutDown
    <2>1. Gone({call.server}) /\ UNCHANGED docs BY <1>4 DEF LspIsShutDown, Dropped
    <2>2. RpcInv' BY <1>1, <2>1, GoneInv
    <2>3. MgrInv' BY <1>1, <1>4 DEF LspIsShutDown, MgrInv, diskVars
    <2>4. QED BY <2>2, <2>3 DEF ServersInv
  <1>5. CASE AllShutDown
    <2>1. RpcInv' BY <1>1, <1>5, UnchangedInv DEF AllShutDown
    <2>2. MgrInv' BY <1>1, <1>5 DEF AllShutDown, MgrInv, diskVars
    <2>3. QED BY <2>1, <2>2 DEF ServersInv
  <1>6. CASE LeaveWithoutShutdown
    <2>1. Gone(handles \cup started) /\ UNCHANGED docs BY <1>6 DEF LeaveWithoutShutdown, Dropped
    <2>2. RpcInv' BY <1>1, <2>1, GoneInv
    <2>3. MgrInv' BY <1>1, <1>6 DEF LeaveWithoutShutdown, MgrInv, diskVars
    <2>4. QED BY <2>2, <2>3 DEF ServersInv
  <1>7. QED BY <1>2, <1>3, <1>4, <1>5, <1>6

(***************************************************************************)
(* What the servers do, and the receiving of it, leaves the managers as    *)
(* they are and the method of the call as it is.                           *)
(***************************************************************************)
LEMMA TrafficInv ==
  ASSUME ServersInv, Receive \/ \E s \in Servers : Serve(s) \/ SomethingGoesWrong(s)
  PROVE  ServersInv'
  <1>1. RpcInv /\ MgrInv BY DEF ServersInv
  <1>2. UNCHANGED mgrVars BY DEF Receive, Serve, SomethingGoesWrong
  <1>3. call'.method = call.method
    <2>1. CASE Receive
      <3>1. call \in Calls BY <1>1 DEF RpcInv, RpcTypeOK
      <3>2. \/ call' = [call EXCEPT !.step = "wait"] \/ call' = [call EXCEPT !.step = "decode"]
            \/ call' = [call EXCEPT !.step = "done"] \/ call' = call
            \/ call' = [call EXCEPT !.step = "done", !.reply = Head(Incoming)]
        BY <2>1 DEF Receive, ClientStep, NeedsMore, Read, EndOfFile, TakeFrame
      <3>3. QED BY <3>1, <3>2 DEF Calls
    <2>2. CASE \E s \in Servers : Serve(s) \/ SomethingGoesWrong(s)
      BY <2>2 DEF Serve, SomethingGoesWrong, GoesWrong
    <2>3. QED BY <2>1, <2>2
  <1>4. MgrInv' BY <1>1, <1>2, <1>3 DEF MgrInv, mgrVars, lspVars, diskVars
  <1>5. RpcInv'
    <2>1. CASE Receive BY <1>1, <2>1, ReceiveInv DEF Receive
    <2>2. CASE \E s \in Servers : Serve(s) BY <1>1, <2>2, ServeInv
    <2>3. CASE \E s \in Servers : SomethingGoesWrong(s)
      BY <1>1, <2>3, GoesWrongInv DEF SomethingGoesWrong
    <2>4. QED BY <2>1, <2>2, <2>3
  <1>6. QED BY <1>4, <1>5 DEF ServersInv

LEMMA NextInv == ServersInv /\ [Next]_vars => ServersInv'
  <1> SUFFICES ASSUME ServersInv, [Next]_vars PROVE ServersInv' OBVIOUS
  <1>1. CASE UNCHANGED vars
    <2>1. RpcInv' BY <1>1, UnchangedInv DEF vars, ServersInv
    <2>2. MgrInv' BY <1>1 DEF vars, rpcVars, mgrVars, lspVars, diskVars, ServersInv, MgrInv
    <2>3. QED BY <2>1, <2>2 DEF ServersInv
  <1>2. CASE Over BY <1>1, <1>2 DEF Over
  <1>3. QED
    BY <1>1, <1>2, ConnectingInv, RoundInv, LspInv, LeavingInv, TrafficInv DEF Next

(***************************************************************************)
(* A request gets the answer to itself (mcp/client.rs, lsp/client.rs,      *)
(* request()): numbers are given out once in the life of a process, so     *)
(* what is under way with the number of the request in flight is that      *)
(* request or its answer, however many requests failed before it.          *)
(***************************************************************************)
THEOREM AnswersReachTheirRequests == Spec => []AnswersMatchRequests
  <1>1. ServersInv => AnswersMatchRequests BY DEF ServersInv, RpcInv, CallInv
  <1>2. QED BY InitInv, NextInv, <1>1, PTL DEF Spec

-----------------------------------------------------------------------------
(***************************************************************************)
(* As long as nothing went wrong, the processes that run are exactly those *)
(* some client knows: connected, started, or just being set up.            *)
(***************************************************************************)
Waiting == {"mcpInit", "mcpList", "mcpCall", "lspInit", "lspQuery", "lspShutdown"}

BeingSetUp ==
  IF pc \in {"mcpInit", "mcpList"} THEN {Head(toConnect)}
  ELSE IF pc = "lspInit" THEN {Lsp} ELSE {}
Clients == handles \cup started \cup BeingSetUp

ClientsRun == proc = [s \in Servers |-> IF s \in Clients THEN "up" ELSE "none"]

FramesAreGood ==
  \A s \in Servers : \A m \in ToSet(pipe[s]) \cup ToSet(buf[s]) : m.kind \in {"result", "notification"}

CallIsGood ==
  pc \in Waiting =>
    /\ call.server \in Clients
    /\ pc = "lspShutdown" => call.server \in started
    /\ call.step = "done" => call.reply.kind = "result"

LeavingInOrder ==
  /\ pc \in {"closeLsp", "lspShutdown", "over"} => handles = {}
  /\ pc = "over" => started = {}

CleanInv == ClientsRun /\ strays = 0 /\ FramesAreGood /\ CallIsGood /\ LeavingInOrder

(* Both kinds of servers are told apart, whatever went wrong.              *)
KindsApart ==
  /\ ToSet(toConnect) \cup handles \subseteq ToSet(McpServers)
  /\ started \subseteq LspServers

ProcInv == troubles \in Nat /\ KindsApart /\ (troubles = 0 /\ pc # "left" => CleanInv)

LEMMA ProcInit == Init => ProcInv
  <1> SUFFICES ASSUME Init PROVE ProcInv OBVIOUS
  <1>1. /\ pc = "connect" /\ handles = {} /\ started = {} /\ strays = 0 /\ troubles = 0
        /\ toConnect = McpServers /\ proc = [s \in Servers |-> "none"]
        /\ \A s \in Servers : pipe[s] = <<>> /\ buf[s] = <<>>
    BY DEF Init, RpcInit
  <1>2. Clients = {} BY <1>1 DEF Clients, BeingSetUp
  <1>3. ClientsRun BY <1>1, <1>2 DEF ClientsRun
  <1>4. FramesAreGood BY <1>1, ToSetOfEmpty DEF FramesAreGood
  <1>5. CallIsGood /\ LeavingInOrder BY <1>1 DEF CallIsGood, Waiting, LeavingInOrder
  <1>6. QED BY <1>1, <1>3, <1>4, <1>5 DEF ProcInv, KindsApart, CleanInv

LEMMA KindsStep ==
  ASSUME ServersInv, KindsApart, [Next]_vars PROVE KindsApart'
  <1>1. /\ toConnect \in Seq(Servers) /\ (pc \in {"mcpInit", "mcpList"} => toConnect # <<>>)
        /\ (pc \in {"open", "lspInit", "lspQuery"} => goal.file \in Files)
    BY DEF ServersInv, MgrInv
  <1>2. toConnect # <<>> => /\ Head(toConnect) \in ToSet(toConnect)
                            /\ ToSet(Tail(toConnect)) \subseteq ToSet(toConnect)
    BY <1>1, ToSetOfTail
  <1>3. /\ \/ toConnect' = toConnect
           \/ toConnect # <<>> /\ toConnect' = Tail(toConnect)
        /\ \/ handles' \subseteq handles
           \/ toConnect # <<>> /\ handles' = handles \cup {Head(toConnect)}
    <2>1. CASE SpawnMcp \/ SpawnMcpFails \/ McpInitialized \/ McpInitFails \/ McpNextPage
               \/ McpListed \/ Ready
      BY <1>1, <2>1 DEF SpawnMcp, SpawnMcpFails, McpInitialized, McpInitFails, McpNextPage,
         McpListed, Ready, Connecting, Answered, mgrVars
    <2>2. CASE ~(SpawnMcp \/ SpawnMcpFails \/ McpInitialized \/ McpInitFails \/ McpNextPage
                 \/ McpListed \/ Ready)
      <3>1. toConnect' = toConnect /\ handles' \subseteq handles
        BY <2>2 DEF Next, vars, mgrVars, CallMcp, McpCalled, UseLsp, StartLsp, StartLspFails,
           LspInitialized, LspInitFails, DidOpen, DidOpenFails, Query, ReportDiagnostics, Queried,
           Edit, ToolsDone, DidChange, NewRound, Quit, ShutdownLsp, LspIsShutDown, AllShutDown,
           LeaveWithoutShutdown, Receive, Serve, SomethingGoesWrong, Over
      <3>2. QED BY <3>1
    <2>3. QED BY <2>1, <2>2
  <1>4. started' \subseteq started \/ (goal.file \in Files /\ started' = started \cup {Lsp})
    BY <1>1 DEF Next, vars, mgrVars, lspVars, SpawnMcp, SpawnMcpFails, McpInitialized, McpInitFails,
       McpNextPage, McpListed, Ready, CallMcp, McpCalled, UseLsp, StartLsp, StartLspFails,
       LspInitialized, Answered, LspInitFails, DidOpen, DidOpenFails, Query, ReportDiagnostics, Queried,
       Edit, ToolsDone, DidChange, NewRound, Quit, ShutdownLsp, LspIsShutDown, AllShutDown,
       LeaveWithoutShutdown, Receive, Serve, SomethingGoesWrong, Over
  <1>5. goal.file \in Files => Lsp \in LspServers BY DEF Lsp, LspServers
  <1>6. QED BY <1>2, <1>3, <1>4, <1>5 DEF KindsApart

(* Troubles are counted, and a session that was left stays left.           *)
LEMMA CountingStep ==
  ASSUME [Next]_vars, troubles \in Nat
  PROVE  /\ troubles' \in Nat /\ (troubles' = 0 => troubles = 0)
         /\ pc = "left" => pc' = "left"
  <1>1. troubles' = troubles \/ troubles' = troubles + 1
    BY DEF Next, vars, rpcVars, mgrVars, SpawnMcp, SpawnMcpFails, McpInitialized, McpInitFails,
       McpNextPage, McpListed, Ready, CallMcp, McpCalled, UseLsp, StartLsp, StartLspFails,
       LspInitialized, LspInitFails, DidOpen, DidOpenFails, Query, ReportDiagnostics, Queried,
       Edit, ToolsDone, DidChange, NewRound, Quit, ShutdownLsp, LspIsShutDown, AllShutDown,
       LeaveWithoutShutdown, Dropped, Receive, ClientStep, NeedsMore, Read, EndOfFile, TakeFrame,
       Serve, SomethingGoesWrong, GoesWrong, Over, Spawn, Gone, Request, Notify
  <1>2. pc = "left" => pc' = "left"
    BY DEF Next, vars, mgrVars, SpawnMcp, SpawnMcpFails, Connecting, McpInitialized, McpInitFails,
       McpNextPage, McpListed, Ready, CallMcp, Use, McpCalled, UseLsp, StartLsp, StartLspFails,
       LspInitialized, LspInitFails, Answered, ToolEnds, DidOpen, DidOpenFails, Query, FileIsOpen,
       ReportDiagnostics, Queried, Edit, ToolsDone, DidChange, NewRound, Quit, ShutdownLsp,
       LspIsShutDown, AllShutDown, LeaveWithoutShutdown, Receive, Serve, SomethingGoesWrong, Over
  <1>3. QED BY <1>1, <1>2

(***************************************************************************)
(* What each use of a client does to a clean state.                        *)
(***************************************************************************)
LEMMA FramesStay == ASSUME FramesAreGood, UNCHANGED <<pipe, buf>> PROVE FramesAreGood'
  BY DEF FramesAreGood

LEMMA SpawnClean ==
  ASSUME RpcTypeOK, FramesAreGood, NEW s \in Servers, NEW method, Spawn(s, method)
  PROVE  /\ FramesAreGood' /\ proc' = [proc EXCEPT ![s] = "up"]
         /\ call'.server = s /\ call'.step = "decode"
  <1>1. /\ pipe' = [pipe EXCEPT ![s] = <<>>] /\ buf' = [buf EXCEPT ![s] = <<>>]
        /\ proc' = [proc EXCEPT ![s] = "up"]
        /\ call' = Call(s, 1, method, NoDoc, "decode", Failure)
    BY DEF Spawn
  <1>2. FramesAreGood' BY <1>1, ToSetOfEmpty DEF RpcTypeOK, FramesAreGood
  <1>3. QED BY <1>1, <1>2 DEF Call

LEMMA GoneClean ==
  ASSUME FramesAreGood, NEW S, Gone(S)
  PROVE  /\ FramesAreGood' /\ proc' = [s \in Servers |-> IF s \in S THEN "none" ELSE proc[s]]
  <1>1. /\ pipe' = [s \in Servers |-> IF s \in S THEN <<>> ELSE pipe[s]]
        /\ buf' = [s \in Servers |-> IF s \in S THEN <<>> ELSE buf[s]]
        /\ proc' = [s \in Servers |-> IF s \in S THEN "none" ELSE proc[s]]
    BY DEF Gone
  <1>2. FramesAreGood' BY <1>1, ToSetOfEmpty DEF FramesAreGood
  <1>3. QED BY <1>1, <1>2

LEMMA RequestClean ==
  ASSUME FramesAreGood, NEW s, proc[s] = "up", NEW notes, NEW method, NEW doc,
         Request(s, notes, method, doc)
  PROVE  FramesAreGood' /\ proc' = proc /\ call'.server = s /\ call'.step = "decode"
  <1>1. /\ UNCHANGED <<proc, pipe, buf>>
        /\ \E id : call' = Call(s, id, method, doc, "decode", Failure)
    BY DEF Request
  <1>2. FramesAreGood' BY <1>1, FramesStay
  <1>3. QED BY <1>1, <1>2 DEF Call

LEMMA NotifyClean ==
  ASSUME FramesAreGood, NEW s, NEW method, NEW doc, Notify(s, method, doc)
  PROVE  FramesAreGood' /\ proc' = proc
  BY FramesStay DEF Notify

-----------------------------------------------------------------------------
LEMMA ConnectingClean ==
  ASSUME ServersInv, CleanInv,
         SpawnMcp \/ SpawnMcpFails \/ McpInitialized \/ McpInitFails \/ McpNextPage \/ McpListed
         \/ Ready
  PROVE  CleanInv'
  <1> DEFINE s == Head(toConnect)
  <1>1. RpcTypeOK /\ MgrInv BY DEF ServersInv, RpcInv
  <1>2. toConnect # <<>> => s \in Servers BY <1>1, ToSetOfTail DEF MgrInv
  <1>3. CASE SpawnMcp
    <2>1. /\ pc = "connect" /\ pc' = "mcpInit" /\ toConnect # <<>> /\ Spawn(s, "initialize")
          /\ UNCHANGED <<toConnect, handles, started, strays>>
      BY <1>3 DEF SpawnMcp, Connecting, lspVars
    <2>2. /\ FramesAreGood' /\ proc' = [proc EXCEPT ![s] = "up"]
          /\ call'.server = s /\ call'.step = "decode"
      BY <1>1, <1>2, <2>1, SpawnClean DEF CleanInv
    <2>3. Clients' = Clients \cup {s} /\ s \in Clients' BY <2>1 DEF Clients, BeingSetUp
    <2>4. ClientsRun' BY <1>2, <2>1, <2>2, <2>3 DEF CleanInv, ClientsRun
    <2>5. CallIsGood' BY <2>1, <2>2, <2>3 DEF CallIsGood
    <2>6. QED BY <2>1, <2>2, <2>4, <2>5 DEF CleanInv, LeavingInOrder
  <1>4. CASE SpawnMcpFails \/ Ready
    <2>1. /\ pc = "connect" /\ pc' \in {"connect", "round"}
          /\ UNCHANGED <<rpcVars, handles, started, strays>>
      BY <1>4 DEF SpawnMcpFails, Ready, Connecting, lspVars
    <2>2. UNCHANGED <<proc, pipe, buf>> BY <2>1 DEF rpcVars
    <2>3. Clients' = Clients BY <2>1 DEF Clients, BeingSetUp
    <2>4. QED
      BY <2>1, <2>2, <2>3, FramesStay DEF CleanInv, ClientsRun, CallIsGood, Waiting, LeavingInOrder
  <1>5. CASE McpInitialized
    <2>1. /\ pc = "mcpInit" /\ pc' = "mcpList" /\ proc[s] = "up"
          /\ Request(s, <<Note("initialized", NoDoc)>>, Lists[1], NoDoc)
          /\ UNCHANGED <<toConnect, handles, started, strays>>
      BY <1>5 DEF McpInitialized, Answered, lspVars
    <2>2. FramesAreGood' /\ proc' = proc /\ call'.server = s /\ call'.step = "decode"
      BY <2>1, RequestClean DEF CleanInv
    <2>3. Clients' = Clients /\ s \in Clients' BY <2>1 DEF Clients, BeingSetUp
    <2>4. QED BY <2>1, <2>2, <2>3 DEF CleanInv, ClientsRun, CallIsGood, LeavingInOrder
  <1>6. ~McpInitFails
    <2>1. SUFFICES ASSUME McpInitFails PROVE FALSE OBVIOUS
    <2>2. pc = "mcpInit" /\ call.step = "done" /\ (~Succeeded \/ proc[s] = "dead")
      BY <2>1 DEF McpInitFails, Answered
    <2>3. Succeeded BY <2>2 DEF CleanInv, CallIsGood, Waiting, Succeeded
    <2>4. s \in Clients /\ s \in Servers BY <1>1, <1>2, <2>2 DEF Clients, BeingSetUp, MgrInv
    <2>5. QED BY <2>2, <2>3, <2>4 DEF CleanInv, ClientsRun
  <1>7. pc = "mcpList" => s \in Clients /\ s \in Servers /\ proc[s] = "up"
    BY <1>1, <1>2 DEF Clients, BeingSetUp, MgrInv, CleanInv, ClientsRun
  <1>8. CASE McpNextPage
    <2>1. /\ pc = "mcpList" /\ Request(s, <<>>, call.method, NoDoc)
          /\ UNCHANGED <<pc, toConnect, handles, started, goal, strays>>
      BY <1>8 DEF McpNextPage, Answered, mgrVars, lspVars
    <2>2. FramesAreGood' /\ proc' = proc /\ call'.server = s /\ call'.step = "decode"
      BY <1>7, <2>1, RequestClean DEF CleanInv
    <2>3. Clients' = Clients /\ s \in Clients' BY <2>1 DEF Clients, BeingSetUp
    <2>4. QED BY <2>1, <2>2, <2>3 DEF CleanInv, ClientsRun, CallIsGood, LeavingInOrder
  <1>9. CASE McpListed
    <2> DEFINE i == CHOOSE n \in DOMAIN Lists : Lists[n] = call.method
    <2>1. pc = "mcpList" /\ UNCHANGED <<started, strays>> BY <1>9 DEF McpListed, Answered, lspVars
    <2> HIDE DEF i
    <2>2. CASE i < Len(Lists)
      <3>1. Request(s, <<>>, Lists[i + 1], NoDoc) /\ UNCHANGED <<pc, toConnect, handles>>
        BY <1>9, <2>2 DEF McpListed, i
      <3>2. FramesAreGood' /\ proc' = proc /\ call'.server = s /\ call'.step = "decode"
        BY <1>7, <2>1, <3>1, RequestClean DEF CleanInv
      <3>3. Clients' = Clients /\ s \in Clients' BY <2>1, <3>1 DEF Clients, BeingSetUp
      <3>4. QED BY <2>1, <3>1, <3>2, <3>3 DEF CleanInv, ClientsRun, CallIsGood, LeavingInOrder
    <2>3. CASE ~(i < Len(Lists))
      <3>1. handles' = handles \cup {s} /\ pc' = "connect" /\ UNCHANGED rpcVars
        BY <1>9, <2>3 DEF McpListed, i
      <3>2. UNCHANGED <<proc, pipe, buf>> BY <3>1 DEF rpcVars
      <3>3. Clients' = Clients BY <2>1, <3>1 DEF Clients, BeingSetUp
      <3>4. QED
        BY <2>1, <3>1, <3>2, <3>3, FramesStay DEF CleanInv, ClientsRun, CallIsGood, Waiting, LeavingInOrder
    <2>4. QED BY <2>2, <2>3
  <1>10. QED BY <1>3, <1>4, <1>5, <1>6, <1>8, <1>9

(* Steps of the agent thread that leave the clients and the pipes alone.   *)
LEMMA NothingHappens ==
  ASSUME CleanInv, UNCHANGED <<rpcVars, handles, started, strays>>,
         pc \notin {"mcpInit", "mcpList", "lspInit", "lspShutdown", "closeLsp", "over"},
         pc' \in {"connect", "round", "open", "notify"}
  PROVE  CleanInv'
  <1>1. UNCHANGED <<proc, pipe, buf>> BY DEF rpcVars
  <1>2. Clients' = Clients BY DEF Clients, BeingSetUp
  <1>3. QED
    BY <1>1, <1>2, FramesStay DEF CleanInv, ClientsRun, CallIsGood, Waiting, LeavingInOrder

LEMMA RoundClean ==
  ASSUME ServersInv, CleanInv,
         \/ \E s \in Servers : CallMcp(s)
         \/ McpCalled
         \/ \E op \in {"query", "diagnostics"}, f \in Files : UseLsp(op, f)
         \/ \E f \in Files : Edit(f)
         \/ ToolsDone \/ DidChange \/ NewRound
  PROVE  CleanInv'
  <1>1. ASSUME NEW s \in Servers, CallMcp(s) PROVE CleanInv'
    <2>1. /\ pc = "round" /\ pc' = "mcpCall" /\ s \in handles /\ Request(s, <<>>, "tools/call", NoDoc)
          /\ UNCHANGED <<handles, started, strays>>
      BY <1>1 DEF CallMcp, Use, lspVars
    <2>2. s \in Clients /\ Clients' = Clients BY <2>1 DEF Clients, BeingSetUp
    <2>3. proc[s] = "up" BY <2>2 DEF CleanInv, ClientsRun
    <2>4. FramesAreGood' /\ proc' = proc /\ call'.server = s /\ call'.step = "decode"
      BY <2>1, <2>3, RequestClean DEF CleanInv
    <2>5. QED BY <2>1, <2>2, <2>4 DEF CleanInv, ClientsRun, CallIsGood, LeavingInOrder
  <1>2. CASE McpCalled BY <1>2, NothingHappens DEF McpCalled, Answered, lspVars
  <1>3. CASE \E op \in {"query", "diagnostics"}, f \in Files : UseLsp(op, f)
    BY <1>3, NothingHappens DEF UseLsp, Use
  <1>4. CASE \E f \in Files : Edit(f) BY <1>4, NothingHappens DEF Edit, lspVars
  <1>5. CASE ToolsDone \/ NewRound BY <1>5, NothingHappens DEF ToolsDone, NewRound, lspVars
  <1>6. CASE DidChange
    <2>1. pc = "notify" /\ pc' = "notify" /\ UNCHANGED <<handles, started, strays>>
      BY <1>6 DEF DidChange
    <2>2. UNCHANGED rpcVars \/ \E s, method, doc : Notify(s, method, doc)
      BY <1>6 DEF DidChange
    <2>3. ASSUME NEW s, NEW method, NEW doc, Notify(s, method, doc) PROVE FramesAreGood' /\ proc' = proc
      BY <2>3, NotifyClean DEF CleanInv
    <2>4. UNCHANGED rpcVars => FramesAreGood' /\ proc' = proc
      BY FramesStay DEF rpcVars, CleanInv
    <2>5. Clients' = Clients BY <2>1 DEF Clients, BeingSetUp
    <2>6. QED
      BY <2>1, <2>2, <2>3, <2>4, <2>5 DEF CleanInv, ClientsRun, CallIsGood, Waiting, LeavingInOrder
  <1>7. QED BY <1>1, <1>2, <1>3, <1>4, <1>5, <1>6

LEMMA LspClean ==
  ASSUME ServersInv, CleanInv,
         StartLsp \/ StartLspFails \/ LspInitialized \/ LspInitFails
         \/ DidOpen \/ DidOpenFails \/ Query \/ ReportDiagnostics \/ Queried
  PROVE  CleanInv'
  <1>1. RpcTypeOK /\ (pc \in {"open", "lspInit", "lspQuery"} => Lsp \in Servers)
    BY LspIsServer DEF ServersInv, RpcInv, MgrInv, Lsp
  <1>2. CASE StartLsp
    <2>1. /\ pc = "open" /\ pc' = "lspInit" /\ Spawn(Lsp, "initialize") /\ Lsp' = Lsp
          /\ UNCHANGED <<handles, started, strays>>
      BY <1>2 DEF StartLsp, lspVars, Lsp
    <2>2. /\ FramesAreGood' /\ proc' = [proc EXCEPT ![Lsp] = "up"]
          /\ call'.server = Lsp /\ call'.step = "decode"
      BY <1>1, <2>1, SpawnClean DEF CleanInv
    <2>3. Clients' = Clients \cup {Lsp} /\ Lsp \in Clients' BY <2>1 DEF Clients, BeingSetUp
    <2>4. ClientsRun' BY <1>1, <2>1, <2>2, <2>3 DEF CleanInv, ClientsRun
    <2>5. CallIsGood' BY <2>1, <2>2, <2>3 DEF CallIsGood
    <2>6. QED BY <2>1, <2>2, <2>4, <2>5 DEF CleanInv, LeavingInOrder
  <1>3. CASE StartLspFails \/ DidOpenFails \/ ReportDiagnostics
    <2>1. pc = "open" /\ pc' = "round" /\ UNCHANGED <<rpcVars, handles, started, strays>>
      BY <1>3 DEF StartLspFails, DidOpenFails, ReportDiagnostics, FileIsOpen, ToolEnds
    <2>2. QED BY <2>1, NothingHappens
  <1>4. CASE Queried
    <2>1. pc = "lspQuery" /\ pc' = "round" /\ UNCHANGED <<rpcVars, handles, started, strays>>
      BY <1>4 DEF Queried, ToolEnds
    <2>2. QED BY <2>1, NothingHappens
  <1>5. CASE LspInitialized
    <2>1. /\ pc = "lspInit" /\ pc' = "open" /\ Notify(Lsp, "initialized", NoDoc)
          /\ started' = started \cup {Lsp} /\ UNCHANGED <<handles, strays>>
      BY <1>5 DEF LspInitialized, Answered
    <2>2. FramesAreGood' /\ proc' = proc BY <2>1, NotifyClean DEF CleanInv
    <2>3. Clients' = Clients BY <2>1 DEF Clients, BeingSetUp
    <2>4. QED BY <2>1, <2>2, <2>3 DEF CleanInv, ClientsRun, CallIsGood, Waiting, LeavingInOrder
  <1>6. ~LspInitFails
    <2>1. SUFFICES ASSUME LspInitFails PROVE FALSE OBVIOUS
    <2>2. pc = "lspInit" /\ call.step = "done" /\ (~Succeeded \/ proc[Lsp] = "dead")
      BY <2>1 DEF LspInitFails, ToolEnds
    <2>3. Succeeded BY <2>2 DEF CleanInv, CallIsGood, Waiting, Succeeded
    <2>4. Lsp \in Clients /\ Lsp \in Servers BY <1>1, <2>2 DEF Clients, BeingSetUp
    <2>5. QED BY <2>2, <2>3, <2>4 DEF CleanInv, ClientsRun
  <1>7. CASE DidOpen
    <2>1. /\ pc = "open" /\ pc' = "open" /\ UNCHANGED <<handles, started, strays>>
          /\ Notify(Lsp, "didOpen", Doc(goal.file, 1, goal.text))
      BY <1>7 DEF DidOpen
    <2>2. FramesAreGood' /\ proc' = proc BY <2>1, NotifyClean DEF CleanInv
    <2>3. Clients' = Clients BY <2>1 DEF Clients, BeingSetUp
    <2>4. QED BY <2>1, <2>2, <2>3 DEF CleanInv, ClientsRun, CallIsGood, Waiting, LeavingInOrder
  <1>8. CASE Query
    <2>1. /\ pc = "open" /\ pc' = "lspQuery" /\ Lsp \in started
          /\ Request(Lsp, <<>>, "query", Doc(goal.file, 0, 0))
          /\ UNCHANGED <<handles, started, strays>>
      BY <1>8 DEF Query, FileIsOpen, lspVars
    <2>2. Lsp \in Clients /\ Clients' = Clients BY <2>1 DEF Clients, BeingSetUp
    <2>3. proc[Lsp] = "up" BY <1>1, <2>1, <2>2 DEF CleanInv, ClientsRun
    <2>4. FramesAreGood' /\ proc' = proc /\ call'.server = Lsp /\ call'.step = "decode"
      BY <2>1, <2>3, RequestClean DEF CleanInv
    <2>5. QED BY <2>1, <2>2, <2>4 DEF CleanInv, ClientsRun, CallIsGood, LeavingInOrder
  <1>9. QED BY <1>2, <1>3, <1>4, <1>5, <1>6, <1>7, <1>8

LEMMA LeavingClean ==
  ASSUME ServersInv, CleanInv, KindsApart,
         Quit \/ ShutdownLsp \/ LspIsShutDown \/ AllShutDown
  PROVE  CleanInv'
  <1>1. started \subseteq Servers BY DEF ServersInv, MgrInv
  <1>2. CASE Quit
    <2>1. /\ pc = "round" /\ pc' = "closeLsp" /\ Gone(handles) /\ handles' = {}
          /\ UNCHANGED <<started, strays>>
      BY <1>2 DEF Quit, lspVars
    <2>2. FramesAreGood' /\ proc' = [s \in Servers |-> IF s \in handles THEN "none" ELSE proc[s]]
      BY <2>1, GoneClean DEF CleanInv
    <2>3. Clients = handles \cup started /\ Clients' = started BY <2>1 DEF Clients, BeingSetUp
    <2>4. handles \cap started = {}
      BY ServersAssumption DEF KindsApart, ServersAssumption
    <2>5. ClientsRun' BY <2>2, <2>3, <2>4 DEF CleanInv, ClientsRun
    <2>6. QED BY <2>1, <2>2, <2>5 DEF CleanInv, CallIsGood, Waiting, LeavingInOrder
  <1>3. CASE ShutdownLsp
    <2>1. PICK s \in started : Request(s, <<>>, "shutdown", NoDoc) BY <1>3 DEF ShutdownLsp
    <2>2. /\ pc = "closeLsp" /\ pc' = "lspShutdown" /\ UNCHANGED <<handles, started, strays>>
      BY <1>3 DEF ShutdownLsp, lspVars
    <2>3. s \in Clients /\ Clients' = Clients BY <2>2 DEF Clients, BeingSetUp
    <2>4. proc[s] = "up" BY <1>1, <2>3 DEF CleanInv, ClientsRun
    <2>5. FramesAreGood' /\ proc' = proc /\ call'.server = s /\ call'.step = "decode"
      BY <2>1, <2>4, RequestClean DEF CleanInv
    <2>6. QED BY <2>2, <2>3, <2>5 DEF CleanInv, ClientsRun, CallIsGood, LeavingInOrder
  <1>4. CASE LspIsShutDown
    <2> DEFINE s == call.server
    <2>1. /\ pc = "lspShutdown" /\ pc' = "closeLsp" /\ call.step = "done"
          /\ started' = started \ {s} /\ UNCHANGED handles
      BY <1>4 DEF LspIsShutDown, Answered
    <2>2. s \in started /\ s \in Clients /\ Succeeded /\ handles = {}
      BY <2>1 DEF CleanInv, CallIsGood, Waiting, Succeeded, LeavingInOrder
    <2>3. proc[s] = "up" BY <1>1, <2>2 DEF CleanInv, ClientsRun
    <2>4. Gone({s}) /\ UNCHANGED strays BY <1>4, <2>2, <2>3 DEF LspIsShutDown
    <2> HIDE DEF s
    <2>5. FramesAreGood' /\ proc' = [t \in Servers |-> IF t \in {s} THEN "none" ELSE proc[t]]
      BY <2>4, GoneClean DEF CleanInv
    <2>6. Clients = started /\ Clients' = started \ {s} BY <2>1, <2>2 DEF Clients, BeingSetUp
    <2>7. ClientsRun' BY <2>5, <2>6 DEF CleanInv, ClientsRun
    <2>8. QED BY <2>1, <2>2, <2>4, <2>5, <2>7 DEF CleanInv, CallIsGood, Waiting, LeavingInOrder
  <1>5. CASE AllShutDown
    <2>1. /\ pc = "closeLsp" /\ pc' = "over" /\ started = {}
          /\ UNCHANGED <<rpcVars, handles, started, strays>>
      BY <1>5 DEF AllShutDown
    <2>2. UNCHANGED <<proc, pipe, buf>> BY <2>1 DEF rpcVars
    <2>3. Clients' = Clients BY <2>1 DEF Clients, BeingSetUp
    <2>4. QED
      BY <2>1, <2>2, <2>3, FramesStay DEF CleanInv, ClientsRun, CallIsGood, Waiting, LeavingInOrder
  <1>6. QED BY <1>2, <1>3, <1>4, <1>5

-----------------------------------------------------------------------------
LEMMA ReceivedWasThere ==
  ASSUME RpcInv, ClientStep
  PROVE  \A t \in Servers :
           ToSet(pipe'[t]) \cup ToSet(buf'[t]) \subseteq ToSet(pipe[t]) \cup ToSet(buf[t])
  <1> DEFINE s == call.server
  <1>1. /\ s \in Servers /\ pipe \in [Servers -> Seq(Frames)] /\ buf \in [Servers -> Seq(Frames)]
    BY DEF ClientStep, NeedsMore, Read, EndOfFile, TakeFrame, Receiving, RpcInv, CallInv, RpcTypeOK
  <1> HIDE DEF s
  <1>2. buf[s] # <<>> => ToSet(Tail(buf[s])) \subseteq ToSet(buf[s]) BY <1>1, ToSetOfTail
  <1>3. CASE UNCHANGED pipe
    <2>1. buf' = buf \/ (buf[s] # <<>> /\ buf' = [buf EXCEPT ![s] = Tail(@)])
      <3>1. CASE NeedsMore BY <1>1, <3>1 DEF NeedsMore, Incoming, s
      <3>2. CASE EndOfFile BY <3>2 DEF EndOfFile
      <3>3. CASE TakeFrame BY <3>3 DEF TakeFrame, Incoming, s
      <3>4. CASE Read
        <4>1. PICK n \in 1..Len(pipe[s]) : pipe' = [pipe EXCEPT ![s] = SubSeq(@, n + 1, Len(@))]
          BY <3>4 DEF Read, s
        <4>2. pipe[s] = SubSeq(pipe[s], n + 1, Len(pipe[s])) BY <1>1, <1>3, <4>1
        <4>3. pipe[s] \in Seq(Frames) /\ Len(pipe[s]) \in Nat BY <1>1
        <4>4. Len(SubSeq(pipe[s], n + 1, Len(pipe[s]))) = Len(pipe[s]) - n BY <4>3
        <4>5. QED BY <4>2, <4>3, <4>4
      <3>5. QED BY <3>1, <3>2, <3>3, <3>4 DEF ClientStep
    <2>2. QED BY <1>1, <1>2, <1>3, <2>1
  <1>4. CASE Read
    <2>1. PICK n \in 1..Len(pipe[s]) :
            /\ buf' = [buf EXCEPT ![s] = @ \o SubSeq(pipe[s], 1, n)]
            /\ pipe' = [pipe EXCEPT ![s] = SubSeq(@, n + 1, Len(@))]
      BY <1>4 DEF Read, s
    <2> DEFINE new == SubSeq(pipe[s], 1, n)
               left == SubSeq(pipe[s], n + 1, Len(pipe[s]))
    <2>2. Len(pipe[s]) \in Nat /\ pipe[s] \in Seq(Frames) /\ buf[s] \in Seq(Frames) BY <1>1
    <2>3. 1 \in 1..Len(pipe[s]) + 1 /\ n \in 0..Len(pipe[s]) /\ n + 1 \in 1..Len(pipe[s]) + 1
          /\ Len(pipe[s]) \in 0..Len(pipe[s])
      BY <2>2
    <2>4. /\ new \in Seq(Frames) /\ ToSet(new) \subseteq ToSet(pipe[s])
          /\ ToSet(left) \subseteq ToSet(pipe[s])
      BY <2>2, <2>3, ToSetOfSubSeq
    <2>5. buf' = [buf EXCEPT ![s] = buf[s] \o new] /\ pipe' = [pipe EXCEPT ![s] = left]
      BY <2>1
    <2> HIDE DEF new, left
    <2>6. ToSet(buf[s] \o new) = ToSet(buf[s]) \cup ToSet(new) BY <2>2, <2>4, ToSetOfConcat
    <2>7. QED BY <1>1, <2>4, <2>5, <2>6
  <1>5. QED BY <1>3, <1>4 DEF ClientStep, NeedsMore, EndOfFile, TakeFrame

LEMMA TrafficClean ==
  ASSUME ServersInv, CleanInv, troubles \in Nat, troubles' = 0,
         Receive \/ \E s \in Servers : Serve(s) \/ SomethingGoesWrong(s)
  PROVE  CleanInv'
  <1>1. RpcInv /\ RpcTypeOK BY DEF ServersInv, RpcInv
  <1>2. UNCHANGED mgrVars BY DEF Receive, Serve, SomethingGoesWrong
  <1>3. /\ UNCHANGED <<pc, toConnect, handles, started, goal, strays>>
        /\ Clients' = Clients
    BY <1>2 DEF mgrVars, lspVars, Clients, BeingSetUp, Lsp
  <1>4. CASE Receive
    <2>1. ClientStep BY <1>4 DEF Receive
    <2>2. FramesAreGood' BY <1>1, <2>1, ReceivedWasThere DEF CleanInv, FramesAreGood
    <2>3. proc' = proc BY <2>1 DEF ClientStep, NeedsMore, Read, EndOfFile, TakeFrame
    <2>4. Receiving /\ call.server \in Servers /\ call \in Calls
      BY <1>1, <2>1 DEF ClientStep, NeedsMore, Read, EndOfFile, TakeFrame, Receiving, RpcInv, CallInv,
         RpcTypeOK
    <2>5. ~EndOfFile BY <2>4 DEF EndOfFile, CleanInv, ClientsRun
    <2>6. call'.server = call.server /\ (call'.step = "done" => call'.reply.kind = "result")
      <3>1. CASE NeedsMore \/ Read
        <4>1. call' = [call EXCEPT !.step = "wait"] \/ call' = [call EXCEPT !.step = "decode"]
          BY <3>1 DEF NeedsMore, Read
        <4>2. QED BY <2>4, <4>1 DEF Calls
      <3>2. CASE TakeFrame
        <4> DEFINE m == Head(Incoming)
        <4>1. /\ call.step = "decode" /\ buf[call.server] # <<>> /\ m = Head(buf[call.server])
              /\ call' = IF Matches(m) THEN [call EXCEPT !.step = "done", !.reply = m]
                         ELSE IF m.kind = "badJson" THEN [call EXCEPT !.step = "done"]
                         ELSE call
          BY <3>2 DEF TakeFrame, Incoming
        <4>2. m \in ToSet(buf[call.server]) BY <1>1, <2>4, <4>1, ToSetOfTail DEF RpcTypeOK
        <4> HIDE DEF m
        <4>3. m.kind \in {"result", "notification"} BY <2>4, <4>2 DEF CleanInv, FramesAreGood
        <4>4. Matches(m) => m.kind = "result" BY <4>3 DEF Matches
        <4>5. CASE Matches(m)
          <5>1. call' = [call EXCEPT !.step = "done", !.reply = m] BY <4>1, <4>5
          <5>2. QED BY <2>4, <4>4, <4>5, <5>1 DEF Calls
        <4>6. CASE ~Matches(m)
          <5>1. call' = call BY <4>1, <4>3, <4>6
          <5>2. QED BY <4>1, <5>1
        <4>7. QED BY <4>5, <4>6
      <3>3. QED BY <2>1, <2>5, <3>1, <3>2 DEF ClientStep
    <2>7. CallIsGood' BY <1>3, <2>6 DEF CleanInv, CallIsGood
    <2>8. QED BY <1>3, <2>2, <2>3, <2>7 DEF CleanInv, ClientsRun, LeavingInOrder
  <1>5. ASSUME NEW s \in Servers, Serve(s) PROVE CleanInv'
    <2> DEFINE m == Head(toServer[s])
    <2>1. UNCHANGED <<proc, buf, call>> BY <1>5 DEF Serve
    <2>2. troubles' # troubles + 1 OBVIOUS
    <2>3. \/ \E more \in BOOLEAN : Reply(s, <<Result(m, more)>>)
          \/ Reply(s, <<Frame("notification", 0, "publishDiagnostics", m.doc, FALSE)>>)
          \/ UNCHANGED pipe
      BY <1>5, <2>2 DEF Serve
    <2>4. ASSUME NEW f, f.kind \in {"result", "notification"}, Reply(s, <<f>>)
          PROVE  FramesAreGood'
      <3> DEFINE T == Frames \cup {f}
      <3>1. pipe[s] \in Seq(T) /\ <<f>> \in Seq(T) BY <1>1 DEF RpcTypeOK
      <3>2. ToSet(pipe[s] \o <<f>>) = ToSet(pipe[s]) \cup {f}
        <4>1. \A p, q \in Seq(T) : ToSet(p \o q) = ToSet(p) \cup ToSet(q) BY ToSetOfConcat
        <4>2. ToSet(<<f>>) = {f} BY ToSetOfOne
        <4>3. ToSet(pipe[s] \o <<f>>) = ToSet(pipe[s]) \cup ToSet(<<f>>) BY <3>1, <4>1
        <4>4. QED BY <4>2, <4>3
      <3>3. pipe' = [pipe EXCEPT ![s] = pipe[s] \o <<f>>] BY <2>4 DEF Reply
      <3>4. QED BY <1>1, <2>1, <2>4, <3>2, <3>3 DEF RpcTypeOK, CleanInv, FramesAreGood
    <2>5. FramesAreGood'
      <3>1. /\ \A more \in BOOLEAN : Result(m, more).kind = "result"
            /\ Frame("notification", 0, "publishDiagnostics", m.doc, FALSE).kind = "notification"
        BY DEF Result, Frame
      <3>2. UNCHANGED pipe => FramesAreGood' BY <2>1, FramesStay DEF CleanInv
      <3>3. ASSUME NEW more \in BOOLEAN, Reply(s, <<Result(m, more)>>) PROVE FramesAreGood'
        <4>1. PICK f : f = Result(m, more) OBVIOUS
        <4>2. f.kind = "result" /\ Reply(s, <<f>>) BY <3>1, <3>3, <4>1
        <4>3. QED BY <2>4, <4>2
      <3>4. ASSUME Reply(s, <<Frame("notification", 0, "publishDiagnostics", m.doc, FALSE)>>)
            PROVE  FramesAreGood'
        <4>1. PICK f : f = Frame("notification", 0, "publishDiagnostics", m.doc, FALSE) OBVIOUS
        <4>2. f.kind = "notification" /\ Reply(s, <<f>>) BY <3>1, <3>4, <4>1
        <4>3. QED BY <2>4, <4>2
      <3>5. QED BY <2>3, <3>2, <3>3, <3>4
    <2>6. QED
      BY <1>3, <2>1, <2>5 DEF CleanInv, ClientsRun, CallIsGood, LeavingInOrder
  <1>6. ~\E s \in Servers : SomethingGoesWrong(s)
    BY DEF SomethingGoesWrong, GoesWrong
  <1>7. QED BY <1>4, <1>5, <1>6

LEMMA ProcNext == ServersInv /\ ProcInv /\ [Next]_vars => ProcInv'
  <1> SUFFICES ASSUME ServersInv, ProcInv, [Next]_vars PROVE ProcInv' OBVIOUS
  <1>1. troubles' \in Nat /\ (troubles' = 0 => troubles = 0) /\ (pc = "left" => pc' = "left")
    BY CountingStep DEF ProcInv
  <1>2. KindsApart' BY KindsStep DEF ProcInv
  <1>3. ASSUME troubles' = 0, pc' # "left" PROVE CleanInv'
    <2>1. CleanInv /\ KindsApart /\ troubles \in Nat BY <1>1, <1>3 DEF ProcInv
    <2>2. CASE UNCHANGED vars \/ Over
      <3>1. UNCHANGED <<proc, pipe, buf, call>>
            /\ UNCHANGED <<pc, toConnect, handles, started, goal, strays>>
        BY <2>2 DEF Over, vars, rpcVars, mgrVars, lspVars
      <3>2. Clients' = Clients BY <3>1 DEF Clients, BeingSetUp, Lsp
      <3>3. QED
        BY <2>1, <3>1, <3>2, FramesStay DEF CleanInv, ClientsRun, CallIsGood, LeavingInOrder
    <2>3. ~LeaveWithoutShutdown BY <1>3 DEF LeaveWithoutShutdown
    <2>4. QED
      BY <1>3, <2>1, <2>2, <2>3, ConnectingClean, RoundClean, LspClean, LeavingClean, TrafficClean
      DEF Next
  <1>4. QED BY <1>1, <1>2, <1>3 DEF ProcInv

(***************************************************************************)
(* A session in which no server misbehaves and that is shut down leaves no *)
(* process behind (shutdown_all of McpManager and LspManager): until then  *)
(* every process is a client's, and shutdown comes to each client.         *)
(***************************************************************************)
THEOREM ShutdownEndsProcesses == Spec => []NoProcessIsLeft
  <1>1. ServersInv /\ ProcInv => NoProcessIsLeft
    <2>1. SUFFICES ASSUME ProcInv, pc = "over", troubles = 0
                   PROVE  strays = 0 /\ \A s \in Servers : proc[s] = "none"
      BY DEF NoProcessIsLeft
    <2>2. CleanInv BY <2>1 DEF ProcInv
    <2>3. Clients = {} BY <2>1, <2>2 DEF CleanInv, LeavingInOrder, Clients, BeingSetUp
    <2>4. QED BY <2>2, <2>3 DEF CleanInv, ClientsRun
  <1>2. Init => ServersInv /\ ProcInv BY InitInv, ProcInit
  <1>3. ServersInv /\ ProcInv /\ [Next]_vars => (ServersInv /\ ProcInv)'
    BY NextInv, ProcNext
  <1>4. QED BY <1>1, <1>2, <1>3, PTL DEF Spec

-----------------------------------------------------------------------------
(***************************************************************************)
(* What a server knows of a file after some messages: by the last of them  *)
(* that is about the file.                                                 *)
(***************************************************************************)
(* The largest announcement among the first n messages.                    *)
LEMMA LastTold ==
  ASSUME NEW n \in Nat, NEW I \in SUBSET (1..n), NEW k \in I, \A i \in I : i <= k
  PROVE  Max(I) = k
  <1>1. \A i \in I : i \in Nat /\ k >= i BY SMT
  <1>2. \A j \in I : (\A i \in I : j >= i) => j = k
    <2>1. SUFFICES ASSUME NEW j \in I, \A i \in I : j >= i PROVE j = k OBVIOUS
    <2>2. j >= k /\ k >= j /\ j \in Nat /\ k \in Nat BY <1>1, <2>1
    <2>3. QED BY <2>2
  <1>3. QED BY <1>1, <1>2 DEF Max

LEMMA MaxTold ==
  ASSUME NEW n \in Nat, NEW I \in SUBSET (1..n), I # {}
  PROVE  Max(I) \in I /\ \A i \in I : i <= Max(I)
  <1>1. I \in SUBSET (0..n) OBVIOUS
  <1>2. PICK k \in I : \A i \in I : i <= k BY <1>1, LargestElement
  <1>3. QED BY <1>2, LastTold

LEMMA KnownNext ==
  ASSUME NEW q, NEW n \in Nat, NEW f, NEW doc
  PROVE  /\ KnownAfter(q, 0, f, doc) = doc
         /\ KnownAfter(q, n + 1, f, doc) =
              IF Announces(q[n + 1], f) THEN q[n + 1].doc ELSE KnownAfter(q, n, f, doc)
  <1> DEFINE told(k) == {i \in 1..k : Announces(q[i], f)}
  <1>1. told(0) = {} OBVIOUS
  <1>2. KnownAfter(q, 0, f, doc) = doc BY <1>1 DEF KnownAfter
  <1>3. told(n + 1) = told(n) \cup (IF Announces(q[n + 1], f) THEN {n + 1} ELSE {})
    <2>1. 1..(n + 1) = 1..n \cup {n + 1} OBVIOUS
    <2>2. QED BY <2>1
  <1>4. CASE Announces(q[n + 1], f)
    <2>1. n + 1 \in told(n + 1) /\ \A i \in told(n + 1) : i <= n + 1 BY <1>4
    <2>2. Max(told(n + 1)) = n + 1
      <3> DEFINE I == told(n + 1)
      <3>1. n + 1 \in Nat /\ I \in SUBSET (1..(n + 1)) BY DEF I
      <3>2. n + 1 \in I /\ \A i \in I : i <= n + 1 BY <2>1
      <3> HIDE DEF I
      <3>3. Max(I) = n + 1 BY <3>1, <3>2, LastTold
      <3>4. QED BY <3>3 DEF I
    <2>3. QED BY <1>2, <1>4, <2>1, <2>2 DEF KnownAfter
  <1>5. CASE ~Announces(q[n + 1], f)
    <2>1. told(n + 1) = told(n) BY <1>3, <1>5
    <2>2. QED BY <1>2, <1>5, <2>1 DEF KnownAfter
  <1>6. QED BY <1>4, <1>5

LEMMA KnownPrefix ==
  ASSUME NEW q, NEW r, NEW n \in Nat, NEW f, NEW doc, \A i \in 1..n : q[i] = r[i]
  PROVE  KnownAfter(q, n, f, doc) = KnownAfter(r, n, f, doc)
  <1> DEFINE told(s) == {i \in 1..n : Announces(s[i], f)}
  <1>1. told(q) = told(r) OBVIOUS
  <1>2. told(q) # {} => Max(told(q)) \in 1..n BY MaxTold
  <1> HIDE DEF told
  <1>3. told(q) # {} => q[Max(told(q))] = r[Max(told(r))] BY <1>1, <1>2
  <1>4. QED BY <1>1, <1>3 DEF KnownAfter, told

LEMMA KnownTail ==
  ASSUME NEW T, NEW q \in Seq(T), q # <<>>, NEW n \in 0..Len(q) - 1, NEW f, NEW doc
  PROVE  KnownAfter(Tail(q), n, f, KnownAfter(q, 1, f, doc)) = KnownAfter(q, n + 1, f, doc)
  <1> DEFINE later == {i \in 1..n : Announces(Tail(q)[i], f)}
             told == {i \in 1..(n + 1) : Announces(q[i], f)}
             first == KnownAfter(q, 1, f, doc)
  <1>1. /\ n \in Nat /\ n + 1 \in Nat
        /\ \A i \in 1..n : i + 1 \in 1..(n + 1) /\ Tail(q)[i] = q[i + 1]
    OBVIOUS
  <1>2. \A i \in 1..(n + 1) : i = 1 \/ (i - 1 \in 1..n /\ (i - 1) + 1 = i) BY <1>1
  <1>3. \A i \in 1..n : i \in later <=> i + 1 \in told BY <1>1
  <1>4. KnownAfter(q, 0 + 1, f, doc) = IF Announces(q[0 + 1], f) THEN q[0 + 1].doc ELSE doc
    BY KnownNext
  <1>5. first = IF Announces(q[1], f) THEN q[1].doc ELSE doc BY <1>4
  <1>6. CASE later # {}
    <2>1. Max(later) \in later /\ \A i \in later : i <= Max(later) BY <1>1, <1>6, MaxTold
    <2> DEFINE k == Max(later)
    <2>2. k \in 1..n /\ k + 1 \in told BY <1>3, <2>1
    <2> HIDE DEF k
    <2>3. \A i \in told : i <= k + 1
      <3>1. SUFFICES ASSUME NEW i \in told PROVE i <= k + 1 OBVIOUS
      <3>2. i = 1 \/ (i - 1 \in 1..n /\ i - 1 \in later) BY <1>2, <1>3, <3>1
      <3>3. k \in Nat /\ i \in Nat BY <2>2
      <3>4. i = 1 \/ i - 1 <= k BY <2>1, <3>2 DEF k
      <3>5. QED BY <3>3, <3>4
    <2>4. told \in SUBSET (1..(n + 1)) /\ told # {} BY <2>2
    <2> HIDE DEF told, later
    <2>5. Max(told) = k + 1 BY <1>1, <2>2, <2>3, <2>4, LastTold
    <2>6. q[Max(told)] = Tail(q)[Max(later)] BY <1>1, <2>2, <2>5 DEF k
    <2>7. QED BY <1>6, <2>4, <2>6 DEF KnownAfter, told, later
  <1>7. CASE later = {}
    <2>1. KnownAfter(Tail(q), n, f, first) = first BY <1>7 DEF KnownAfter
    <2>2. told \subseteq {1} BY <1>2, <1>3, <1>7
    <2>3. told = {i \in {1} : Announces(q[i], f)} BY <1>1, <2>2
    <2>4. told = IF Announces(q[1], f) THEN {1} ELSE {} BY <2>3
    <2>5. told = {1} => Max(told) = 1
      <3>1. 1 \in Nat /\ {1} \in SUBSET (1..1) /\ 1 \in {1} /\ \A i \in {1} : i <= 1 OBVIOUS
      <3>2. Max({1}) = 1 BY <3>1, LastTold
      <3>3. QED BY <3>2
    <2>6. KnownAfter(q, n + 1, f, doc) = IF told = {} THEN doc ELSE q[Max(told)].doc BY DEF KnownAfter
    <2> HIDE DEF told, later, first
    <2>7. QED BY <1>5, <2>1, <2>4, <2>5, <2>6 DEF first
  <1>8. QED BY <1>6, <1>7

-----------------------------------------------------------------------------
(***************************************************************************)
(* The servers of the files.  A living language server is one the manager  *)
(* has, or is setting up; a file is open only on a server the manager has. *)
(* Notes about a file are on their way to no other server than its own.    *)
(***************************************************************************)
Leaving == {"closeLsp", "lspShutdown", "over", "left"}

NotesGoRight ==
  \A s \in Servers : \A m \in ToSet(toServer[s]) :
    m.id = 0 /\ m.doc.file \in Files => LspOf[m.doc.file] = s

FileServersInv ==
  /\ \A f \in Files : proc[LspOf[f]] = "up" =>
       LspOf[f] \in started \/ (pc = "lspInit" /\ LspOf[f] = Lsp)
  /\ \A f \in Files : opened[f] > 0 => LspOf[f] \in started \/ pc \in Leaving
  /\ NotesGoRight

(***************************************************************************)
(* The texts.  Those of the round are no newer than the disk, and the text *)
(* that ensure_file_open read is still the disk's when it is announced;    *)
(* what the server of an open file will know is no older than the round.   *)
(***************************************************************************)
TextsInv ==
  /\ roundText \in [Files -> Nat] /\ \A f \in Files : roundText[f] <= disk[f]
  /\ pc \in {"open", "lspInit"} => goal.text = disk[goal.file]
  /\ \A f \in Files : proc[LspOf[f]] = "up" /\ opened[f] > 0 =>
       Known(f, Len(toServer[LspOf[f]])).text >= roundText[f]

(***************************************************************************)
(* The query in flight: whatever precedes it on its way makes the server   *)
(* know a text of this round, and so does its answer.                      *)
(***************************************************************************)
QueryInv ==
  pc = "lspQuery" =>
    LET f == goal.file IN
    /\ Receiving =>
         /\ call.server = Lsp /\ call.doc.file = f
         /\ \A i \in DOMAIN toServer[Lsp] : toServer[Lsp][i].id = call.id =>
              Known(f, i - 1).text >= roundText[f]
         /\ \A m \in Answers(Lsp) : m.id = call.id /\ m.kind = "result" =>
              m.doc.text >= roundText[f]
    /\ Succeeded => call.reply.doc.text >= roundText[f]

ProcTypeOK == proc \in [Servers -> {"none", "up", "dead"}]

DocumentsInv ==
  ProcTypeOK /\ KindsApart /\ FileServersInv /\ TextsInv /\ DocumentsAreInStep /\ QueryInv

LEMMA ProcTypeStep == ASSUME ProcTypeOK, [Next]_vars PROVE ProcTypeOK'
  <1>1. \/ UNCHANGED proc
        \/ \E s : \E p \in {"up", "dead"} : proc' = [proc EXCEPT ![s] = p]
        \/ \E S : proc' = [s \in Servers |-> IF s \in S THEN "none" ELSE proc[s]]
    BY DEF Next, vars, rpcVars, mgrVars, SpawnMcp, SpawnMcpFails, McpInitialized, McpInitFails,
       McpNextPage, McpListed, Ready, CallMcp, McpCalled, UseLsp, StartLsp, StartLspFails,
       LspInitialized, LspInitFails, DidOpen, DidOpenFails, Query, ReportDiagnostics, Queried,
       Edit, ToolsDone, DidChange, NewRound, Quit, ShutdownLsp, LspIsShutDown, AllShutDown,
       LeaveWithoutShutdown, Dropped, Receive, ClientStep, NeedsMore, Read, EndOfFile, TakeFrame,
       Serve, SomethingGoesWrong, GoesWrong, Over, Spawn, Gone, Request, Notify
  <1>2. QED BY <1>1 DEF ProcTypeOK

(* What the server of f will know once it has read what is on its way.     *)
Expected(f) == Known(f, Len(toServer[LspOf[f]]))

InOrder(f) ==
  LET q == toServer[LspOf[f]] IN
  \A i \in DOMAIN q : Announces(q[i], f) =>
    /\ q[i].doc.version = Known(f, i - 1).version + 1
    /\ (q[i].method = "didOpen") <=> (q[i].doc.version = 1)

(* A step that tells the servers nothing new of their files.               *)
NoNews(f) ==
  proc'[LspOf[f]] = "up" =>
    /\ proc[LspOf[f]] = "up" /\ Expected(f)' = Expected(f)
    /\ InOrder(f) => InOrder(f)'

Quiet == NotesGoRight' /\ \A f \in Files : NoNews(f)

LEMMA InStepParts ==
  DocumentsAreInStep <=>
    \A f \in Files : proc[LspOf[f]] = "up" =>
      /\ Expected(f).version = opened[f]
      /\ opened[f] > 0 /\ f \notin ToSet(edited) => Expected(f).text = disk[f]
      /\ InOrder(f)
  BY DEF DocumentsAreInStep, Expected, InOrder

LEMMA InStepPartsPrimed ==
  DocumentsAreInStep' <=>
    \A f \in Files : proc'[LspOf[f]] = "up" =>
      /\ Expected(f)'.version = opened'[f]
      /\ opened'[f] > 0 /\ f \notin ToSet(edited') => Expected(f)'.text = disk'[f]
      /\ InOrder(f)'
  BY DEF DocumentsAreInStep, Expected, InOrder

LEMMA NothingNewFor ==
  ASSUME NEW f \in Files, toServer'[LspOf[f]] = toServer[LspOf[f]], docs'[f] = docs[f],
         proc'[LspOf[f]] = "up" => proc[LspOf[f]] = "up"
  PROVE  NoNews(f)
  BY DEF NoNews, Expected, InOrder, Known

(* Another message is on its way to the server of f.                       *)
LEMMA OneMore ==
  ASSUME RpcTypeOK, NEW f \in Files, NEW m \in Messages,
         toServer'[LspOf[f]] = Append(toServer[LspOf[f]], m), docs'[f] = docs[f]
  PROVE  /\ ~Announces(m, f) => Expected(f)' = Expected(f) /\ (InOrder(f) => InOrder(f)')
         /\ Announces(m, f) => Expected(f)' = m.doc
         /\ /\ Announces(m, f) /\ m.doc.version = Expected(f).version + 1
            /\ (m.method = "didOpen") <=> (m.doc.version = 1)
            /\ InOrder(f)
            => InOrder(f)'
         /\ \A n : n = Len(toServer[LspOf[f]]) => Known(f, n)' = Expected(f)
  <1> DEFINE q == toServer[LspOf[f]]
             r == Append(q, m)
  <1>1. q \in Seq(Messages) /\ Len(q) \in Nat BY LspIsServer DEF RpcTypeOK
  <1>2. /\ r \in Seq(Messages) /\ Len(r) = Len(q) + 1 /\ r[Len(q) + 1] = m
        /\ DOMAIN r = 1..(Len(q) + 1) /\ DOMAIN q = 1..Len(q)
        /\ \A i \in 1..Len(q) : r[i] = q[i]
    BY <1>1
  <1>3. toServer'[LspOf[f]] = r OBVIOUS
  <1> HIDE DEF q, r
  <1>4. \A n \in 0..Len(q) : KnownAfter(r, n, f, docs[f]) = KnownAfter(q, n, f, docs[f])
    <2>1. SUFFICES ASSUME NEW n \in 0..Len(q)
                   PROVE  KnownAfter(r, n, f, docs[f]) = KnownAfter(q, n, f, docs[f])
      OBVIOUS
    <2>2. n \in Nat /\ \A i \in 1..n : r[i] = q[i] BY <1>1, <1>2
    <2>3. QED BY ONLY <2>2, KnownPrefix
  <1>5. \A n : Known(f, n)' = KnownAfter(r, n, f, docs[f]) /\ Known(f, n) = KnownAfter(q, n, f, docs[f])
    BY <1>3 DEF Known, q
  <1>6. Expected(f)' = KnownAfter(r, Len(q) + 1, f, docs[f]) /\ Expected(f) = KnownAfter(q, Len(q), f, docs[f])
    BY <1>2, <1>3, <1>5 DEF Expected, q
  <1>7. KnownAfter(r, Len(q) + 1, f, docs[f]) =
          IF Announces(m, f) THEN m.doc ELSE KnownAfter(r, Len(q), f, docs[f])
    BY <1>1, <1>2, KnownNext
  <1>8. /\ ~Announces(m, f) => Expected(f)' = Expected(f)
        /\ Announces(m, f) => Expected(f)' = m.doc
    BY <1>1, <1>4, <1>6, <1>7
  <1>9. ASSUME InOrder(f), NEW i \in 1..Len(q), Announces(r[i], f)
        PROVE  /\ r[i].doc.version = Known(f, i - 1)'.version + 1
               /\ (r[i].method = "didOpen") <=> (r[i].doc.version = 1)
    <2>1. r[i] = q[i] /\ i - 1 \in 0..Len(q) BY <1>1, <1>2
    <2>2. /\ q[i].doc.version = Known(f, i - 1).version + 1
          /\ (q[i].method = "didOpen") <=> (q[i].doc.version = 1)
      BY <1>2, <1>9, <2>1 DEF InOrder, q
    <2>3. Known(f, i - 1)' = Known(f, i - 1) BY <1>4, <1>5, <2>1
    <2>4. QED BY <2>1, <2>2, <2>3
  <1>10. ASSUME InOrder(f),
                Announces(m, f) => /\ m.doc.version = Expected(f).version + 1
                                   /\ (m.method = "didOpen") <=> (m.doc.version = 1)
         PROVE  InOrder(f)'
    <2>1. SUFFICES ASSUME NEW i \in 1..(Len(q) + 1), Announces(r[i], f)
                   PROVE  /\ r[i].doc.version = Known(f, i - 1)'.version + 1
                          /\ (r[i].method = "didOpen") <=> (r[i].doc.version = 1)
      BY <1>2, <1>3 DEF InOrder
    <2>2. CASE i \in 1..Len(q) BY <1>9, <1>10, <2>1, <2>2
    <2>3. CASE i = Len(q) + 1
      <3>1. i - 1 = Len(q) /\ r[i] = m /\ Len(q) \in 0..Len(q) BY <1>1, <1>2, <2>3
      <3>2. Known(f, i - 1)' = Expected(f) BY <1>4, <1>5, <1>6, <3>1
      <3>3. QED BY <1>10, <2>1, <3>1, <3>2
    <2>4. QED BY <1>1, <2>2, <2>3
  <1>11. ASSUME NEW n, n = Len(toServer[LspOf[f]]) PROVE Known(f, n)' = Expected(f)
    <2>1. n \in 0..Len(q) /\ n = Len(q) BY <1>1, <1>11 DEF q
    <2>2. QED BY <1>4, <1>5, <1>6, <2>1
  <1>12. QED BY <1>8, <1>10, <1>11

(* A server takes the first message on its way.                            *)
LEMMA OneLess ==
  ASSUME RpcTypeOK, NEW f \in Files, toServer[LspOf[f]] # <<>>,
         toServer'[LspOf[f]] = Tail(toServer[LspOf[f]]), docs'[f] = Known(f, 1)
  PROVE  /\ Expected(f)' = Expected(f) /\ (InOrder(f) => InOrder(f)')
         /\ \A i \in DOMAIN toServer'[LspOf[f]] : Known(f, i - 1)' = Known(f, i)
  <1> DEFINE q == toServer[LspOf[f]]
             r == Tail(q)
  <1>1. q \in Seq(Messages) /\ Len(q) \in Nat BY LspIsServer DEF RpcTypeOK
  <1>2. /\ Len(q) # 0 /\ Len(r) = Len(q) - 1
        /\ DOMAIN r = 1..(Len(q) - 1) /\ DOMAIN q = 1..Len(q)
        /\ \A i \in 1..(Len(q) - 1) : r[i] = q[i + 1]
    BY <1>1
  <1>3. toServer'[LspOf[f]] = r /\ docs'[f] = KnownAfter(q, 1, f, docs[f])
    BY DEF Known
  <1>4. \A n \in 0..Len(q) - 1 :
          KnownAfter(r, n, f, KnownAfter(q, 1, f, docs[f])) = KnownAfter(q, n + 1, f, docs[f])
    <2>1. q # <<>> OBVIOUS
    <2> HIDE DEF q
    <2>2. QED BY ONLY <1>1, <2>1, KnownTail DEF r
  <1> HIDE DEF q, r
  <1>5. \A n \in 0..Len(q) - 1 : Known(f, n)' = Known(f, n + 1)
    BY <1>3, <1>4 DEF Known, q
  <1>6. Len(q) - 1 \in 0..Len(q) - 1 /\ (Len(q) - 1) + 1 = Len(q) BY <1>1, <1>2
  <1>7. Expected(f)' = Expected(f)
    <2>1. PICK n : n = Len(q) - 1 OBVIOUS
    <2>2. Len(toServer'[LspOf[f]]) = n BY <1>2, <1>3, <2>1
    <2>3. Expected(f)' = Known(f, n)' BY <2>2 DEF Expected, Known
    <2>4. Expected(f) = Known(f, n + 1) BY <1>6, <2>1 DEF Expected, q
    <2>5. QED BY <1>5, <1>6, <2>1, <2>3, <2>4
  <1>8. ASSUME InOrder(f) PROVE InOrder(f)'
    <2>1. SUFFICES ASSUME NEW i \in 1..(Len(q) - 1), Announces(r[i], f)
                   PROVE  /\ r[i].doc.version = Known(f, i - 1)'.version + 1
                          /\ (r[i].method = "didOpen") <=> (r[i].doc.version = 1)
      BY <1>2, <1>3 DEF InOrder, Known
    <2>2. /\ i + 1 \in 1..Len(q) /\ r[i] = q[i + 1] /\ i - 1 \in 0..Len(q) - 1
          /\ (i - 1) + 1 = i /\ (i + 1) - 1 = i
      BY <1>1, <1>2
    <2>3. /\ q[i + 1].doc.version = Known(f, (i + 1) - 1).version + 1
          /\ (q[i + 1].method = "didOpen") <=> (q[i + 1].doc.version = 1)
      BY <1>2, <1>8, <2>1, <2>2 DEF InOrder, q
    <2>4. Known(f, i - 1)' = Known(f, i) BY <1>5, <2>2
    <2>5. QED BY <2>2, <2>3, <2>4
  <1>9. ASSUME NEW i \in DOMAIN toServer'[LspOf[f]] PROVE Known(f, i - 1)' = Known(f, i)
    <2>1. i \in 1..(Len(q) - 1) BY <1>2, <1>3, <1>9
    <2>2. i - 1 \in 0..Len(q) - 1 /\ (i - 1) + 1 = i BY <1>1, <2>1
    <2>3. QED BY <1>5, <2>2
  <1>10. QED BY <1>7, <1>8, <1>9

-----------------------------------------------------------------------------
LEMMA RequestQuiet ==
  ASSUME RpcInv, NotesGoRight, NEW s \in Servers, NEW method \in Methods, NEW doc \in Docs,
         Request(s, <<>>, method, doc), UNCHANGED docs
  PROVE  Quiet
  <1> DEFINE m == Message(nextId[s], method, doc)
  <1>1. /\ nextId[s] \in Nat \ {0} /\ toServer[s] \in Seq(Messages)
        /\ toServer \in [Servers -> Seq(Messages)] /\ RpcTypeOK
    BY DEF RpcInv, RpcTypeOK
  <1>2. m \in Messages /\ m.id = nextId[s] BY <1>1 DEF Message, Messages
  <1>3. \/ toServer' = toServer
        \/ toServer' = [toServer EXCEPT ![s] = @ \o Append(<<>>, m)]
    BY DEF Request
  <1>4. UNCHANGED proc BY DEF Request
  <1> HIDE DEF m
  <1>5. toServer[s] \o Append(<<>>, m) = Append(toServer[s], m)
    <2>1. Append(<<>>, m) = <<m>> OBVIOUS
    <2>2. QED BY <1>1, <1>2, <2>1, AppendAfterConcat
  <1>6. ToSet(Append(toServer[s], m)) = ToSet(toServer[s]) \cup {m} BY <1>1, <1>2, ToSetOfAppend
  <1>7. NotesGoRight' BY <1>1, <1>2, <1>3, <1>5, <1>6 DEF NotesGoRight
  <1>8. ASSUME NEW f \in Files PROVE NoNews(f)
    <2>1. CASE toServer'[LspOf[f]] = toServer[LspOf[f]] BY <1>4, <2>1, NothingNewFor
    <2>2. CASE toServer'[LspOf[f]] # toServer[LspOf[f]]
      <3>1. LspOf[f] = s /\ toServer'[s] = Append(toServer[s], m)
        BY <1>1, <1>3, <1>5, <2>2, LspIsServer
      <3>2. ~Announces(m, f) BY <1>1, <1>2 DEF Announces
      <3>3. QED BY <1>1, <1>2, <1>4, <3>1, <3>2, OneMore DEF NoNews
    <2>3. QED BY <2>1, <2>2
  <1>9. QED BY <1>7, <1>8 DEF Quiet

LEMMA NotifyQuiet ==
  ASSUME RpcInv, NotesGoRight, NEW s \in Servers, NEW method \in Methods, NEW doc \in Docs,
         doc.file \notin Files, Notify(s, method, doc), UNCHANGED docs
  PROVE  Quiet
  <1> DEFINE m == Note(method, doc)
  <1>1. /\ toServer[s] \in Seq(Messages) /\ toServer \in [Servers -> Seq(Messages)] /\ RpcTypeOK
    BY DEF RpcInv, RpcTypeOK
  <1>2. m \in Messages /\ m.id = 0 /\ m.doc = doc BY DEF Note, Message, Messages
  <1>3. toServer' = [toServer EXCEPT ![s] = Append(@, m)] /\ UNCHANGED proc BY DEF Notify
  <1> HIDE DEF m
  <1>4. ToSet(Append(toServer[s], m)) = ToSet(toServer[s]) \cup {m} BY <1>1, <1>2, ToSetOfAppend
  <1>5. NotesGoRight' BY <1>1, <1>2, <1>3, <1>4 DEF NotesGoRight
  <1>6. ASSUME NEW f \in Files PROVE NoNews(f)
    <2>1. CASE LspOf[f] # s
      <3>1. toServer'[LspOf[f]] = toServer[LspOf[f]] BY <1>1, <1>3, <2>1, LspIsServer
      <3>2. QED BY <1>3, <3>1, NothingNewFor
    <2>2. CASE LspOf[f] = s
      <3>1. toServer'[s] = Append(toServer[s], m) BY <1>1, <1>3
      <3>2. ~Announces(m, f) BY <1>2 DEF Announces
      <3>3. QED BY <1>1, <1>2, <1>3, <2>2, <3>1, <3>2, OneMore DEF NoNews
    <2>3. QED BY <2>1, <2>2
  <1>7. QED BY <1>5, <1>6 DEF Quiet

LEMMA GoneQuiet ==
  ASSUME NotesGoRight, NEW S, Gone(S), UNCHANGED docs
  PROVE  Quiet
  <1>1. /\ toServer' = [t \in Servers |-> IF t \in S THEN <<>> ELSE toServer[t]]
        /\ proc' = [t \in Servers |-> IF t \in S THEN "none" ELSE proc[t]]
    BY DEF Gone
  <1>2. NotesGoRight' BY <1>1, ToSetOfEmpty DEF NotesGoRight
  <1>3. ASSUME NEW f \in Files PROVE NoNews(f)
    <2>1. LspOf[f] \in Servers BY LspIsServer
    <2>2. CASE LspOf[f] \in S
      <3>1. proc'[LspOf[f]] # "up" BY <1>1, <2>1, <2>2
      <3>2. QED BY <3>1 DEF NoNews
    <2>3. CASE LspOf[f] \notin S
      <3>1. toServer'[LspOf[f]] = toServer[LspOf[f]] /\ proc'[LspOf[f]] = proc[LspOf[f]]
        BY <1>1, <2>1, <2>3
      <3>2. QED BY <3>1, NothingNewFor
    <2>4. QED BY <2>2, <2>3
  <1>4. QED BY <1>2, <1>3 DEF Quiet

LEMMA NothingSentQuiet ==
  ASSUME NotesGoRight, UNCHANGED <<toServer, docs>>,
         \A s \in Servers : proc'[s] = "up" => proc[s] = "up"
  PROVE  Quiet
  <1>1. NotesGoRight' BY DEF NotesGoRight
  <1>2. \A f \in Files : NoNews(f) BY NothingNewFor, LspIsServer
  <1>3. QED BY <1>1, <1>2 DEF Quiet

(* What is done with the MCP servers.                                      *)
LEMMA ElsewhereQuiet ==
  ASSUME NotesGoRight, NEW s \in Servers \ LspServers, UNCHANGED docs,
         \A t \in Servers \ {s} : toServer'[t] = toServer[t] /\ proc'[t] = proc[t],
         \A m \in ToSet(toServer'[s]) : m \in ToSet(toServer[s]) \/ m.id # 0 \/ m.doc = NoDoc
  PROVE  Quiet
  <1>1. NoDoc.file \notin Files BY ServersAssumption DEF ServersAssumption, NoDoc, Doc
  <1>2. NotesGoRight' BY <1>1 DEF NotesGoRight
  <1>3. \A f \in Files : LspOf[f] \in Servers \ {s} BY LspIsServer DEF LspServers
  <1>4. \A f \in Files : NoNews(f) BY <1>3, NothingNewFor
  <1>5. QED BY <1>2, <1>4 DEF Quiet

LEMMA ServeQuiet ==
  ASSUME RpcInv, NotesGoRight, NEW s \in Servers, Serve(s)
  PROVE  Quiet
  <1> DEFINE m == Head(toServer[s])
  <1>1. /\ toServer[s] \in Seq(Messages) /\ toServer \in [Servers -> Seq(Messages)] /\ RpcTypeOK
        /\ docs \in [Files -> Docs]
    BY DEF RpcInv, RpcTypeOK
  <1>2. /\ toServer[s] # <<>> /\ toServer' = [toServer EXCEPT ![s] = Tail(@)] /\ UNCHANGED proc
    BY DEF Serve
  <1>3. \/ m.id # 0 /\ UNCHANGED docs
        \/ /\ m.id = 0
           /\ docs' = IF m.doc.file \in Files THEN [docs EXCEPT ![m.doc.file] = m.doc] ELSE docs
    BY DEF Serve
  <1>4. ToSet(Tail(toServer[s])) \subseteq ToSet(toServer[s]) /\ m \in ToSet(toServer[s])
        /\ m = toServer[s][1]
    BY <1>1, <1>2, ToSetOfTail
  <1>5. NotesGoRight' BY <1>1, <1>2, <1>4 DEF NotesGoRight
  <1> HIDE DEF m
  <1>6. ASSUME NEW f \in Files PROVE NoNews(f)
    <2>1. CASE LspOf[f] # s
      <3>1. toServer'[LspOf[f]] = toServer[LspOf[f]] BY <1>1, <1>2, <2>1, LspIsServer
      <3>2. m.id = 0 => m.doc.file # f BY <1>4, <2>1 DEF NotesGoRight
      <3>3. docs'[f] = docs[f] BY <1>1, <1>3, <3>2
      <3>4. QED BY <1>2, <3>1, <3>3, NothingNewFor
    <2>2. CASE LspOf[f] = s
      <3>1. toServer'[s] = Tail(toServer[s]) BY <1>1, <1>2
      <3>2. Known(f, 1) = IF Announces(m, f) THEN m.doc ELSE docs[f]
        <4>1. /\ KnownAfter(toServer[s], 0, f, docs[f]) = docs[f]
              /\ KnownAfter(toServer[s], 0 + 1, f, docs[f]) =
                   IF Announces(toServer[s][0 + 1], f) THEN toServer[s][0 + 1].doc
                   ELSE KnownAfter(toServer[s], 0, f, docs[f])
          BY KnownNext
        <4>2. QED BY <1>4, <2>2, <4>1 DEF Known
      <3>3. docs'[f] = Known(f, 1) BY <1>1, <1>3, <3>2 DEF Announces
      <3>4. QED BY <1>1, <1>2, <2>2, <3>1, <3>3, OneLess DEF NoNews
    <2>3. QED BY <2>1, <2>2
  <1>7. QED BY <1>5, <1>6 DEF Quiet

(***************************************************************************)
(* A quiet step of a manager that does not touch the files keeps all but   *)
(* what is said of the query.                                              *)
(***************************************************************************)
LEMMA QuietFiles ==
  ASSUME TextsInv, DocumentsAreInStep, Quiet, UNCHANGED <<opened, diskVars>>,
         pc' \in {"open", "lspInit"} => goal'.text = disk[goal'.file]
  PROVE  TextsInv' /\ DocumentsAreInStep'
  <1>1. UNCHANGED <<opened, disk, edited, roundText>> BY DEF diskVars
  <1>2. \A f \in Files : proc'[LspOf[f]] = "up" =>
          /\ proc[LspOf[f]] = "up" /\ Expected(f)' = Expected(f) /\ (InOrder(f) => InOrder(f)')
    BY DEF Quiet, NoNews
  <1>3. DocumentsAreInStep' BY <1>1, <1>2, InStepParts, InStepPartsPrimed
  <1>4. TextsInv' BY <1>1, <1>2 DEF TextsInv, Expected
  <1>5. QED BY <1>3, <1>4

LEMMA QuietServers ==
  ASSUME FileServersInv, Quiet, UNCHANGED <<started, opened>>,
         pc # "lspInit" \/ UNCHANGED <<pc, goal>>, pc \in Leaving => pc' \in Leaving
  PROVE  FileServersInv'
  <1>1. \A f \in Files : proc'[LspOf[f]] = "up" => proc[LspOf[f]] = "up" BY DEF Quiet, NoNews
  <1>2. NotesGoRight' BY DEF Quiet
  <1>3. UNCHANGED <<pc, goal>> => Lsp' = Lsp BY DEF Lsp
  <1>4. QED BY <1>1, <1>2, <1>3 DEF FileServersInv, NotesGoRight

LEMMA QuietManager ==
  ASSUME ServersInv, DocumentsInv, [Next]_vars, Quiet, UNCHANGED <<started, opened, diskVars>>,
         pc # "lspInit" \/ UNCHANGED <<pc, goal>>, pc \in Leaving => pc' \in Leaving,
         pc' \in {"open", "lspInit"} => goal'.text = disk[goal'.file],
         pc' = "lspQuery" => QueryInv'
  PROVE  DocumentsInv'
  <1>1. KindsApart' /\ ProcTypeOK' BY KindsStep, ProcTypeStep DEF DocumentsInv
  <1>2. FileServersInv' BY QuietServers DEF DocumentsInv
  <1>3. TextsInv' /\ DocumentsAreInStep' BY QuietFiles DEF DocumentsInv
  <1>4. QueryInv' BY DEF QueryInv
  <1>5. QED BY <1>1, <1>2, <1>3, <1>4 DEF DocumentsInv

LEMMA NotesRight == DocumentsInv => NotesGoRight
  BY DEF DocumentsInv, FileServersInv, NotesGoRight

LEMMA ConnectingDocs ==
  ASSUME ServersInv, DocumentsInv, [Next]_vars,
         SpawnMcp \/ SpawnMcpFails \/ McpInitialized \/ McpInitFails \/ McpNextPage \/ McpListed
         \/ Ready
  PROVE  DocumentsInv'
  <1> DEFINE s == Head(toConnect)
  <1>1. /\ UNCHANGED <<started, opened, goal, diskVars>>
        /\ pc \in {"connect", "mcpInit", "mcpList"}
        /\ pc' \in {"connect", "mcpInit", "mcpList", "round"}
    BY DEF SpawnMcp, SpawnMcpFails, Connecting, McpInitialized, McpInitFails, Answered,
       McpNextPage, McpListed, Ready, lspVars, mgrVars
  <1>2. /\ RpcInv /\ NotesGoRight /\ toConnect \in Seq(Servers) /\ NoDoc \in Docs
        /\ ToSet(toConnect) \subseteq ToSet(McpServers)
        /\ pc \in {"mcpInit", "mcpList"} => toConnect # <<>>
        /\ pc = "mcpList" => call.method \in ToSet(Lists)
    BY NotesRight, Constants DEF ServersInv, MgrInv, DocumentsInv, KindsApart
  <1>3. toConnect # <<>> => s \in Servers \ LspServers
    <2>1. toConnect # <<>> => s \in ToSet(toConnect) /\ s \in Servers BY <1>2, ToSetOfTail
    <2>2. QED BY <1>2, <2>1, ServersAssumption DEF ServersAssumption
  <1>4. Quiet
    <2>1. CASE SpawnMcp
      <3>1. /\ toConnect # <<>> /\ UNCHANGED docs
            /\ proc' = [proc EXCEPT ![s] = "up"]
            /\ toServer' = [toServer EXCEPT ![s] = <<Message(1, "initialize", NoDoc)>>]
        BY <2>1 DEF SpawnMcp, Connecting, Spawn
      <3>2. toServer'[s] = <<Message(1, "initialize", NoDoc)>>
        BY <1>2, <1>3, <3>1 DEF RpcInv, RpcTypeOK
      <3>3. \A m \in ToSet(toServer'[s]) : m.id # 0 BY <3>2, ToSetOfOne DEF Message
      <3>4. \A t \in Servers \ {s} : toServer'[t] = toServer[t] /\ proc'[t] = proc[t]
        BY <1>2, <3>1 DEF RpcInv, RpcTypeOK, DocumentsInv, ProcTypeOK
      <3>5. QED BY <1>2, <1>3, <3>1, <3>3, <3>4, ElsewhereQuiet
    <2>2. CASE SpawnMcpFails \/ Ready
      <3>1. UNCHANGED <<rpcVars, docs>> BY <2>2 DEF SpawnMcpFails, Ready
      <3>2. QED BY <1>2, <3>1, NothingSentQuiet DEF rpcVars
    <2>3. CASE McpInitialized
      <3> DEFINE m == Message(nextId[s], Lists[1], NoDoc)
                 note == Note("initialized", NoDoc)
      <3>1. /\ pc = "mcpInit" /\ UNCHANGED docs /\ UNCHANGED proc /\ proc[s] = "up"
            /\ toServer' = [toServer EXCEPT ![s] = @ \o Append(<<note>>, m)]
        BY <2>3 DEF McpInitialized, Answered, Request
      <3>2. s \in Servers \ LspServers /\ Lists[1] \in Methods
        BY <1>2, <1>3, <3>1, ListsAreMethods
      <3>3. nextId[s] \in Nat \ {0} /\ toServer[s] \in Seq(Messages)
            /\ toServer \in [Servers -> Seq(Messages)]
        BY <1>2, <3>2 DEF RpcInv, RpcTypeOK
      <3>4. m \in Messages /\ note \in Messages /\ m.id # 0 /\ note.doc = NoDoc
        BY <1>2, <3>2, <3>3 DEF Message, Messages, Note, Methods
      <3> HIDE DEF m, note
      <3>5. <<note>> \in Seq(Messages) /\ Append(<<note>>, m) \in Seq(Messages) BY <3>4
      <3>6. ToSet(Append(<<note>>, m)) = {note} \cup {m}
        <4>1. ToSet(<<note>>) = {note} BY ToSetOfOne
        <4>2. \A p \in Seq(Messages), e \in Messages : ToSet(Append(p, e)) = ToSet(p) \cup {e}
          BY ToSetOfAppend
        <4>3. ToSet(Append(<<note>>, m)) = ToSet(<<note>>) \cup {m} BY ONLY <3>4, <3>5, <4>2
        <4>4. QED BY <4>1, <4>3
      <3>7. ToSet(toServer[s] \o Append(<<note>>, m)) = ToSet(toServer[s]) \cup ({note} \cup {m})
        <4>1. \A p, q \in Seq(Messages) : ToSet(p \o q) = ToSet(p) \cup ToSet(q) BY ToSetOfConcat
        <4>2. QED BY <3>3, <3>5, <3>6, <4>1
      <3>8. \A o \in ToSet(toServer'[s]) : o \in ToSet(toServer[s]) \/ o.id # 0 \/ o.doc = NoDoc
        BY <3>1, <3>2, <3>3, <3>4, <3>7
      <3>9. \A t \in Servers \ {s} : toServer'[t] = toServer[t] /\ proc'[t] = proc[t]
        BY <3>1, <3>3
      <3>10. QED BY <1>2, <3>1, <3>2, <3>8, <3>9, ElsewhereQuiet
    <2>4. CASE McpInitFails
      BY <1>2, <2>4, GoneQuiet DEF McpInitFails, Dropped
    <2>5. CASE McpNextPage
      <3>1. pc = "mcpList" /\ Request(s, <<>>, call.method, NoDoc) /\ UNCHANGED docs
        BY <2>5 DEF McpNextPage, Answered
      <3>2. s \in Servers /\ call.method \in Methods BY <1>2, <1>3, <3>1, ListsAreMethods
      <3>3. QED BY <1>2, <3>1, <3>2, RequestQuiet
    <2>6. CASE McpListed
      <3> DEFINE i == CHOOSE n \in DOMAIN Lists : Lists[n] = call.method
      <3>1. pc = "mcpList" /\ UNCHANGED docs BY <2>6 DEF McpListed, Answered
      <3>2. \E n \in DOMAIN Lists : Lists[n] = call.method BY <1>2, <3>1 DEF ToSet
      <3>3. i \in DOMAIN Lists BY <3>2
      <3> HIDE DEF i
      <3>4. \/ i < Len(Lists) /\ Request(s, <<>>, Lists[i + 1], NoDoc)
            \/ UNCHANGED rpcVars
        BY <2>6 DEF McpListed, i
      <3>5. CASE i < Len(Lists) /\ Request(s, <<>>, Lists[i + 1], NoDoc)
        <4>1. Lists[i + 1] \in Methods BY <3>3, <3>5, ListsAreMethods
        <4>2. s \in Servers BY <1>2, <1>3, <3>1
        <4>3. QED BY <1>2, <3>1, <3>5, <4>1, <4>2, RequestQuiet
      <3>6. CASE UNCHANGED rpcVars
        BY <1>2, <3>1, <3>6, NothingSentQuiet DEF rpcVars
      <3>7. QED BY <3>4, <3>5, <3>6
    <2>7. QED BY <2>1, <2>2, <2>3, <2>4, <2>5, <2>6
  <1>5. QED BY <1>1, <1>4, QuietManager DEF Leaving

LEMMA RoundDocs ==
  ASSUME ServersInv, DocumentsInv, [Next]_vars,
         \/ \E s \in Servers : CallMcp(s)
         \/ McpCalled \/ ToolsDone
         \/ \E op \in {"query", "diagnostics"}, f \in Files : UseLsp(op, f)
  PROVE  DocumentsInv'
  <1>1. /\ RpcInv /\ NotesGoRight /\ NoDoc \in Docs
    BY NotesRight, Constants DEF ServersInv
  <1>2. ASSUME NEW s \in Servers, CallMcp(s) PROVE DocumentsInv'
    <2>1. /\ Request(s, <<>>, "tools/call", NoDoc) /\ UNCHANGED docs /\ "tools/call" \in Methods
          /\ UNCHANGED <<started, opened, diskVars>> /\ pc = "round" /\ pc' = "mcpCall"
      BY <1>2 DEF CallMcp, Use, Methods, lspVars
    <2>2. Quiet BY <1>1, <2>1, RequestQuiet
    <2>3. QED BY <2>1, <2>2, QuietManager DEF Leaving
  <1>3. ASSUME McpCalled \/ ToolsDone PROVE DocumentsInv'
    <2>1. /\ UNCHANGED <<rpcVars, docs>> /\ UNCHANGED <<started, opened, diskVars>>
          /\ pc \in {"mcpCall", "round"} /\ pc' \in {"round", "notify"}
      BY <1>3 DEF McpCalled, Answered, ToolsDone, lspVars
    <2>2. Quiet BY <1>1, <2>1, NothingSentQuiet DEF rpcVars
    <2>3. QED BY <2>1, <2>2, QuietManager DEF Leaving
  <1>4. ASSUME NEW op, NEW f \in Files, UseLsp(op, f) PROVE DocumentsInv'
    <2>1. /\ UNCHANGED <<rpcVars, docs>> /\ UNCHANGED <<started, opened, diskVars>>
          /\ pc = "round" /\ pc' = "open" /\ goal' = Goal(op, f, disk[f])
      BY <1>4 DEF UseLsp, Use
    <2>2. goal'.text = disk[goal'.file] BY <2>1 DEF Goal
    <2>3. Quiet BY <1>1, <2>1, NothingSentQuiet DEF rpcVars
    <2>4. QED BY <2>1, <2>2, <2>3, QuietManager DEF Leaving
  <1>5. QED BY <1>2, <1>3, <1>4

LEMMA AnnouncedNews ==
  ASSUME RpcInv, NotesGoRight, NEW f \in Files, NEW method \in Methods, NEW doc \in Docs,
         doc.file = f, Notify(LspOf[f], method, doc), UNCHANGED docs,
         InOrder(f), doc.version = Expected(f).version + 1,
         (method = "didOpen") <=> (doc.version = 1)
  PROVE  /\ NotesGoRight' /\ UNCHANGED proc
         /\ \A g \in Files \ {f} : NoNews(g)
         /\ Expected(f)' = doc /\ InOrder(f)'
  <1> DEFINE m == Note(method, doc)
             s == LspOf[f]
  <1>1. /\ toServer[s] \in Seq(Messages) /\ toServer \in [Servers -> Seq(Messages)] /\ RpcTypeOK
        /\ s \in Servers
    BY LspIsServer DEF RpcInv, RpcTypeOK
  <1>2. m \in Messages /\ m.id = 0 /\ m.doc = doc /\ m.method = method
    BY DEF Note, Message, Messages
  <1>3. toServer' = [toServer EXCEPT ![s] = Append(@, m)] /\ UNCHANGED proc BY DEF Notify
  <1> HIDE DEF m
  <1>4. ToSet(Append(toServer[s], m)) = ToSet(toServer[s]) \cup {m} BY <1>1, <1>2, ToSetOfAppend
  <1>5. NotesGoRight' BY <1>1, <1>2, <1>3, <1>4 DEF NotesGoRight
  <1>6. \A g \in Files : LspOf[g] = s => toServer'[LspOf[g]] = Append(toServer[LspOf[g]], m)
    BY <1>1, <1>3
  <1>7. ASSUME NEW g \in Files, g # f PROVE NoNews(g)
    <2>1. CASE LspOf[g] # s
      <3>1. toServer'[LspOf[g]] = toServer[LspOf[g]] BY <1>1, <1>3, <2>1, LspIsServer
      <3>2. QED BY <1>3, <3>1, NothingNewFor
    <2>2. CASE LspOf[g] = s
      <3>1. ~Announces(m, g) BY <1>2, <1>7 DEF Announces
      <3>2. toServer'[LspOf[g]] = Append(toServer[LspOf[g]], m) /\ docs'[g] = docs[g] BY <1>6, <2>2
      <3>3. QED BY <1>1, <1>2, <1>3, <3>1, <3>2, OneMore DEF NoNews
    <2>3. QED BY <2>1, <2>2
  <1>8. Announces(m, f) BY <1>2 DEF Announces
  <1>9. toServer'[LspOf[f]] = Append(toServer[LspOf[f]], m) /\ docs'[f] = docs[f] BY <1>6
  <1>10. Expected(f)' = m.doc /\ InOrder(f)'
    BY <1>1, <1>2, <1>8, <1>9, OneMore
  <1>11. QED BY <1>2, <1>3, <1>5, <1>7, <1>10

LEMMA StartLspDocs == ASSUME ServersInv, DocumentsInv, [Next]_vars, StartLsp PROVE DocumentsInv'
  <1>1. /\ pc = "open" /\ pc' = "lspInit" /\ Lsp \notin started /\ Spawn(Lsp, "initialize")
        /\ docs' = [f \in Files |-> IF LspOf[f] = Lsp THEN NoDoc ELSE docs[f]]
        /\ UNCHANGED <<opened, goal, started, disk, edited, roundText>>
    BY DEF StartLsp, lspVars, diskVars
  <1>2. /\ RpcTypeOK /\ NotesGoRight /\ goal.file \in Files /\ Lsp \in Servers /\ Lsp' = Lsp
        /\ opened \in [Files -> Nat]
    BY <1>1, NotesRight, LspIsServer DEF ServersInv, RpcInv, MgrInv, Lsp
  <1> DEFINE m == Message(1, "initialize", NoDoc)
  <1>3. proc' = [proc EXCEPT ![Lsp] = "up"] /\ toServer' = [toServer EXCEPT ![Lsp] = <<m>>]
    BY <1>1 DEF Spawn
  <1>4. m.id = 1 BY DEF Message
  <1> HIDE DEF m
  <1>5. toServer'[Lsp] = <<m>> BY <1>2, <1>3 DEF RpcTypeOK
  <1>6. NotesGoRight'
    <2>1. ToSet(toServer'[Lsp]) = {m} BY <1>5, ToSetOfOne
    <2>2. \A s \in Servers \ {Lsp} : toServer'[s] = toServer[s] BY <1>2, <1>3 DEF RpcTypeOK
    <2>3. \A o \in ToSet(toServer'[Lsp]) : o.id # 0 BY <1>4, <2>1
    <2>4. QED BY <1>2, <2>2, <2>3 DEF NotesGoRight
  <1>7. ASSUME NEW f \in Files, LspOf[f] = Lsp
        PROVE  opened[f] = 0 /\ Expected(f)' = NoDoc /\ InOrder(f)'
    <2>1. opened[f] = 0 BY <1>1, <1>2, <1>7 DEF DocumentsInv, FileServersInv, Leaving
    <2>2. toServer'[LspOf[f]] = <<m>> /\ docs'[f] = NoDoc BY <1>1, <1>5, <1>7
    <2>3. Len(<<m>>) = 1 /\ <<m>>[1] = m /\ DOMAIN <<m>> = {1} OBVIOUS
    <2>4. ~Announces(m, f) BY <1>4 DEF Announces
    <2>5. KnownAfter(<<m>>, 1, f, NoDoc) = NoDoc
      <3>1. /\ KnownAfter(<<m>>, 0, f, NoDoc) = NoDoc
            /\ KnownAfter(<<m>>, 0 + 1, f, NoDoc) =
                 IF Announces(<<m>>[0 + 1], f) THEN <<m>>[0 + 1].doc
                 ELSE KnownAfter(<<m>>, 0, f, NoDoc)
        BY KnownNext
      <3>2. QED BY <2>3, <2>4, <3>1
    <2>6. Expected(f)' = NoDoc BY <2>2, <2>3, <2>5 DEF Expected, Known
    <2>7. InOrder(f)' BY <2>2, <2>3, <2>4 DEF InOrder
    <2>8. QED BY <2>1, <2>6, <2>7
  <1>8. ASSUME NEW f \in Files, LspOf[f] # Lsp PROVE NoNews(f)
    <2>1. toServer'[LspOf[f]] = toServer[LspOf[f]] /\ proc'[LspOf[f]] = proc[LspOf[f]]
      BY <1>2, <1>3, <1>8, LspIsServer DEF RpcTypeOK, DocumentsInv, ProcTypeOK
    <2>2. docs'[f] = docs[f] BY <1>1, <1>8
    <2>3. QED BY <2>1, <2>2, NothingNewFor
  <1>9. DocumentsAreInStep'
    <2>1. SUFFICES ASSUME NEW f \in Files, proc'[LspOf[f]] = "up"
                   PROVE  /\ Expected(f)'.version = opened[f]
                          /\ opened[f] > 0 /\ f \notin ToSet(edited) => Expected(f)'.text = disk[f]
                          /\ InOrder(f)'
      BY <1>1, InStepPartsPrimed
    <2>2. CASE LspOf[f] = Lsp
      <3>1. NoDoc.version = 0 BY DEF NoDoc, Doc
      <3>2. QED BY <1>7, <2>2, <3>1
    <2>3. CASE LspOf[f] # Lsp BY <1>8, <2>1, <2>3, InStepParts DEF DocumentsInv, NoNews
    <2>4. QED BY <2>2, <2>3
  <1>10. TextsInv'
    <2>1. \A f \in Files : proc'[LspOf[f]] = "up" /\ opened[f] > 0 => Expected(f)'.text >= roundText[f]
      <3>1. SUFFICES ASSUME NEW f \in Files, proc'[LspOf[f]] = "up", opened[f] > 0
                     PROVE  Expected(f)'.text >= roundText[f]
        OBVIOUS
      <3>2. LspOf[f] # Lsp BY <1>7, <3>1
      <3>3. QED BY <1>8, <3>1, <3>2 DEF DocumentsInv, TextsInv, NoNews, Expected
    <2>2. QED BY <1>1, <2>1 DEF DocumentsInv, TextsInv, Expected
  <1>11. FileServersInv'
    <2>1. \A f \in Files : proc'[LspOf[f]] = "up" => LspOf[f] \in started \/ LspOf[f] = Lsp
      <3>1. SUFFICES ASSUME NEW f \in Files, proc'[LspOf[f]] = "up", LspOf[f] # Lsp
                     PROVE  LspOf[f] \in started
        OBVIOUS
      <3>2. proc[LspOf[f]] = "up" BY <1>8, <3>1 DEF NoNews
      <3>3. QED BY <1>1, <3>2 DEF DocumentsInv, FileServersInv
    <2>2. \A f \in Files : opened[f] > 0 => LspOf[f] \in started \/ pc' \in Leaving
      BY <1>1 DEF DocumentsInv, FileServersInv, Leaving
    <2>3. QED BY <1>1, <1>2, <1>6, <2>1, <2>2 DEF FileServersInv, NotesGoRight
  <1>12. QueryInv' BY <1>1 DEF QueryInv
  <1>13. QED BY <1>9, <1>10, <1>11, <1>12, KindsStep, ProcTypeStep DEF DocumentsInv

LEMMA LspInitDocs ==
  ASSUME ServersInv, DocumentsInv, [Next]_vars, LspInitialized \/ LspInitFails
  PROVE  DocumentsInv'
  <1>1. /\ pc = "lspInit" /\ UNCHANGED <<opened, diskVars, docs>>
        /\ \/ /\ pc' = "open" /\ UNCHANGED goal /\ Notify(Lsp, "initialized", NoDoc)
              /\ started' = started \cup {Lsp}
           \/ /\ pc' = "round" /\ UNCHANGED started /\ Gone({Lsp})
    BY DEF LspInitialized, LspInitFails, Answered, ToolEnds, Dropped
  <1>2. /\ RpcInv /\ NotesGoRight /\ goal.file \in Files /\ Lsp \in Servers /\ NoDoc \in Docs
        /\ "initialized" \in Methods
    BY <1>1, NotesRight, LspIsServer, Constants DEF ServersInv, MgrInv, Lsp, Methods
  <1>3. NoDoc.file \notin Files BY ServersAssumption DEF ServersAssumption, NoDoc, Doc
  <1>4. Quiet BY <1>1, <1>2, <1>3, NotifyQuiet, GoneQuiet
  <1>5. goal.text = disk[goal.file] BY <1>1 DEF DocumentsInv, TextsInv
  <1>6. TextsInv' /\ DocumentsAreInStep' BY <1>1, <1>4, <1>5, QuietFiles DEF DocumentsInv
  <1>7. FileServersInv'
    <2>1. \A f \in Files : proc'[LspOf[f]] = "up" =>
            /\ LspOf[f] \in started \/ LspOf[f] = Lsp
            /\ LspOf[f] = Lsp => pc' = "open"
      <3>1. SUFFICES ASSUME NEW f \in Files, proc'[LspOf[f]] = "up"
                     PROVE  /\ LspOf[f] \in started \/ LspOf[f] = Lsp
                            /\ LspOf[f] = Lsp => pc' = "open"
        OBVIOUS
      <3>2. proc[LspOf[f]] = "up" BY <1>4, <3>1 DEF Quiet, NoNews
      <3>3. Gone({Lsp}) => proc'[Lsp] = "none" BY <1>2 DEF Gone
      <3>4. QED BY <1>1, <3>1, <3>2, <3>3 DEF DocumentsInv, FileServersInv
    <2>2. \A f \in Files : opened[f] > 0 => LspOf[f] \in started
      BY <1>1 DEF DocumentsInv, FileServersInv, Leaving
    <2>3. NotesGoRight' BY <1>4 DEF Quiet
    <2>4. QED BY <1>1, <2>1, <2>2, <2>3 DEF FileServersInv, NotesGoRight
  <1>8. QueryInv' BY <1>1 DEF QueryInv
  <1>9. QED BY <1>6, <1>7, <1>8, KindsStep, ProcTypeStep DEF DocumentsInv

LEMMA DidOpenDocs == ASSUME ServersInv, DocumentsInv, [Next]_vars, DidOpen PROVE DocumentsInv'
  <1>0. PICK f : f = goal.file OBVIOUS
  <1> DEFINE doc == Doc(f, 1, goal.text)
  <1>1. /\ pc = "open" /\ UNCHANGED <<pc, goal, started, disk, edited, roundText, docs>>
        /\ Lsp \in started /\ opened[f] = 0 /\ opened' = [opened EXCEPT ![f] = 1]
        /\ Notify(LspOf[f], "didOpen", doc)
    BY <1>0 DEF DidOpen, diskVars, Lsp
  <1>2. /\ RpcInv /\ NotesGoRight /\ f \in Files /\ goal.text = disk[f] /\ goal.text \in Nat
        /\ opened \in [Files -> Nat] /\ disk \in [Files -> Nat]
    BY <1>0, <1>1, NotesRight DEF ServersInv, MgrInv, DocumentsInv, TextsInv
  <1>3. /\ doc \in Docs /\ doc.file = f /\ doc.version = 1 /\ doc.text = disk[f]
        /\ "didOpen" \in Methods
    BY <1>2 DEF Doc, Docs, Methods
  <1>4. proc[LspOf[f]] = "up" BY <1>1 DEF Notify
  <1>5. Lsp = LspOf[f] BY <1>0 DEF Lsp
  <1> HIDE DEF doc
  <1>6. InOrder(f) /\ Expected(f).version = 0
    BY <1>1, <1>2, <1>4, InStepParts DEF DocumentsInv
  <1>7. /\ NotesGoRight' /\ UNCHANGED proc
        /\ \A g \in Files \ {f} : NoNews(g)
        /\ Expected(f)' = doc /\ InOrder(f)'
    BY <1>1, <1>2, <1>3, <1>6, AnnouncedNews
  <1>8. opened'[f] = 1 /\ \A g \in Files \ {f} : opened'[g] = opened[g] BY <1>1, <1>2
  <1>9. DocumentsAreInStep'
    <2>1. SUFFICES ASSUME NEW g \in Files, proc'[LspOf[g]] = "up"
                   PROVE  /\ Expected(g)'.version = opened'[g]
                          /\ opened'[g] > 0 /\ g \notin ToSet(edited) => Expected(g)'.text = disk[g]
                          /\ InOrder(g)'
      BY <1>1, InStepPartsPrimed
    <2>2. CASE g = f BY <1>3, <1>7, <1>8, <2>2
    <2>3. CASE g # f BY <1>7, <1>8, <2>1, <2>3, InStepParts DEF DocumentsInv, NoNews
    <2>4. QED BY <2>2, <2>3
  <1>10. \A g \in Files : proc'[LspOf[g]] = "up" /\ opened'[g] > 0 => Expected(g)'.text >= roundText[g]
    <2>1. SUFFICES ASSUME NEW g \in Files, proc'[LspOf[g]] = "up", opened'[g] > 0
                   PROVE  Expected(g)'.text >= roundText[g]
      OBVIOUS
    <2>2. CASE g = f
      <3>1. roundText[f] <= disk[f] /\ roundText[f] \in Nat /\ disk[f] \in Nat
        BY <1>2 DEF DocumentsInv, TextsInv
      <3>2. QED BY <1>3, <1>7, <2>2, <3>1
    <2>3. CASE g # f BY <1>7, <1>8, <2>1, <2>3 DEF DocumentsInv, TextsInv, NoNews, Expected
    <2>4. QED BY <2>2, <2>3
  <1>11. TextsInv' BY <1>1, <1>10 DEF DocumentsInv, TextsInv, Expected
  <1>12. FileServersInv'
    <2>1. Lsp' = Lsp BY <1>1 DEF Lsp
    <2>2. \A g \in Files : opened'[g] > 0 => LspOf[g] \in started \/ pc' \in Leaving
      BY <1>1, <1>5, <1>8 DEF DocumentsInv, FileServersInv
    <2>3. QED BY <1>1, <1>7, <2>1, <2>2 DEF DocumentsInv, FileServersInv, NotesGoRight
  <1>13. QueryInv' BY <1>1 DEF QueryInv
  <1>14. QED BY <1>9, <1>11, <1>12, <1>13, KindsStep, ProcTypeStep DEF DocumentsInv

LEMMA QueryDocs == ASSUME ServersInv, DocumentsInv, [Next]_vars, Query PROVE DocumentsInv'
  <1>0. PICK f : f = goal.file OBVIOUS
  <1> DEFINE doc == Doc(f, 0, 0)
  <1>1. /\ pc = "open" /\ pc' = "lspQuery" /\ UNCHANGED <<started, opened, goal, diskVars, docs>>
        /\ Request(Lsp, <<>>, "query", doc) /\ opened[f] > 0
    BY <1>0 DEF Query, FileIsOpen, lspVars
  <1>2. /\ RpcInv /\ RpcTypeOK /\ NotesGoRight /\ f \in Files /\ Lsp \in Servers /\ Lsp = LspOf[f]
        /\ Lsp' = Lsp
    BY <1>0, <1>1, NotesRight, LspIsServer DEF ServersInv, RpcInv, MgrInv, Lsp
  <1>3. doc \in Docs /\ doc.file = f /\ "query" \in Methods BY <1>2 DEF Doc, Docs, Methods
  <1> HIDE DEF doc
  <1>4. Quiet BY <1>1, <1>2, <1>3, RequestQuiet
  <1> DEFINE q == toServer[Lsp]
             id == nextId[Lsp]
             m == Message(id, "query", doc)
  <1>5. /\ q \in Seq(Messages) /\ id \in Nat \ {0} /\ m \in Messages /\ m.id = id
        /\ toServer \in [Servers -> Seq(Messages)]
    BY <1>2, <1>3 DEF RpcTypeOK, Message, Messages
  <1>6. CASE proc[Lsp] # "up"
    <2>1. call' = Call(Lsp, id, "query", doc, "done", Failure) BY <1>1, <1>6 DEF Request
    <2>2. call'.step = "done" /\ call'.reply.kind = "failed"
      BY <2>1 DEF Call, Failure, Trouble, Frame
    <2>3. ~Receiving' /\ ~Succeeded' BY <2>2 DEF Receiving, Succeeded
    <2>4. QueryInv' BY <2>3 DEF QueryInv
    <2>5. QED BY <1>1, <1>4, <2>4, QuietManager DEF Leaving
  <1>7. CASE proc[Lsp] = "up"
    <2>1. /\ toServer' = [toServer EXCEPT ![Lsp] = @ \o Append(<<>>, m)]
          /\ call' = Call(Lsp, id, "query", doc, "decode", Failure)
          /\ UNCHANGED <<pipe, buf>>
      BY <1>1, <1>7 DEF Request
    <2>2. /\ call'.server = Lsp /\ call'.doc.file = f /\ call'.id = id /\ call'.step = "decode"
      BY <1>3, <2>1 DEF Call
    <2> HIDE DEF m, q
    <2>3. q \o Append(<<>>, m) = Append(q, m)
      <3>1. Append(<<>>, m) = <<m>> OBVIOUS
      <3>2. QED BY <1>5, <3>1, AppendAfterConcat
    <2>4. toServer'[Lsp] = Append(q, m) BY <1>2, <1>5, <2>1, <2>3 DEF q
    <2>5. Expected(f).text >= roundText[f]
      BY <1>1, <1>2, <1>7 DEF DocumentsInv, TextsInv, Expected
    <2>6. ASSUME NEW i \in DOMAIN toServer'[Lsp], toServer'[Lsp][i].id = id
          PROVE  Known(f, i - 1)'.text >= roundText[f]
      <3>1. \A j \in DOMAIN q : q[j].id < id /\ q[j].id \in Nat
        <4>1. \A o \in ToSet(q) : o.id < id BY <1>2 DEF RpcInv, NumbersAreOld, q
        <4>2. \A j \in DOMAIN q : q[j] \in ToSet(q) BY DEF ToSet
        <4>3. \A j \in DOMAIN q : q[j] \in Messages BY <1>5
        <4>4. QED BY <4>1, <4>2, <4>3 DEF Messages
      <3>2. (i \in DOMAIN q /\ toServer'[Lsp][i] = q[i]) \/ i = Len(q) + 1
        BY <1>5, <2>4, <2>6, AppendAt
      <3>3. i = Len(q) + 1 BY <1>5, <2>6, <3>1, <3>2
      <3>4. \A n : n = Len(q) => Known(f, n)' = Expected(f)
        BY <1>1, <1>2, <1>5, <2>4, OneMore DEF q
      <3>5. i - 1 = Len(q) BY <1>5, <3>3
      <3>6. QED BY <2>5, <3>4, <3>5
    <2>7. \A a \in Answers(Lsp)' : a.id # id
      <3>1. Answers(Lsp)' = Answers(Lsp) BY <1>2, <2>1 DEF Answers
      <3>2. \A a \in Answers(Lsp) : a.id < id /\ a.id \in Nat
        <4>1. ToSet(pipe[Lsp]) \subseteq Frames /\ ToSet(buf[Lsp]) \subseteq Frames
          BY <1>2 DEF RpcTypeOK, ToSet
        <4>2. QED BY <1>2, <4>1 DEF RpcInv, NumbersAreOld, Answers, Frames
      <3>3. QED BY <1>5, <3>1, <3>2
    <2>8. ~Succeeded' BY <2>2 DEF Succeeded
    <2>9. goal'.file = f /\ roundText' = roundText BY <1>0, <1>1 DEF diskVars
    <2>10. QueryInv' BY <1>2, <2>2, <2>6, <2>7, <2>8, <2>9 DEF QueryInv
    <2>11. QED BY <1>1, <1>4, <2>10, QuietManager DEF Leaving
  <1>8. QED BY <1>6, <1>7

LEMMA LspToolDocs ==
  ASSUME ServersInv, DocumentsInv, [Next]_vars,
         StartLspFails \/ DidOpenFails \/ ReportDiagnostics \/ Queried
  PROVE  DocumentsInv'
  <1>1. /\ pc \in {"open", "lspQuery"} /\ pc' = "round"
        /\ UNCHANGED <<rpcVars, docs, started, opened, diskVars>>
    BY DEF StartLspFails, DidOpenFails, ReportDiagnostics, FileIsOpen, Queried, ToolEnds
  <1>2. Quiet BY <1>1, NotesRight, NothingSentQuiet DEF rpcVars
  <1>3. QED BY <1>1, <1>2, QuietManager DEF Leaving

LEMMA EditDocs ==
  ASSUME ServersInv, DocumentsInv, [Next]_vars, NewRound \/ \E f \in Files : Edit(f)
  PROVE  DocumentsInv'
  <1>1. /\ pc \in {"round", "notify"} /\ pc' = "round"
        /\ UNCHANGED <<rpcVars, docs, started, opened, goal>>
    BY DEF NewRound, Edit, lspVars
  <1>2. NotesGoRight /\ edited \in Seq(Files) /\ disk \in [Files -> Nat]
    BY NotesRight DEF ServersInv, MgrInv
  <1>3. Quiet BY <1>1, <1>2, NothingSentQuiet DEF rpcVars
  <1>4. FileServersInv' BY <1>1, <1>3, QuietServers DEF DocumentsInv, Leaving
  <1>5. \A f \in Files : proc'[LspOf[f]] = "up" =>
          /\ proc[LspOf[f]] = "up" /\ Expected(f)' = Expected(f) /\ (InOrder(f) => InOrder(f)')
    BY <1>3 DEF Quiet, NoNews
  <1>6. \A f \in Files : proc[LspOf[f]] = "up" =>
          /\ Expected(f).version = opened[f] /\ InOrder(f)
          /\ opened[f] > 0 /\ f \notin ToSet(edited) => Expected(f).text = disk[f]
    BY InStepParts DEF DocumentsInv
  <1>7. \A f \in Files : proc[LspOf[f]] = "up" /\ opened[f] > 0 => Expected(f).text >= roundText[f]
    BY DEF DocumentsInv, TextsInv, Expected
  <1>8. roundText \in [Files -> Nat] /\ \A f \in Files : roundText[f] <= disk[f]
    BY DEF DocumentsInv, TextsInv
  <1>9. CASE NewRound
    <2>1. edited = <<>> /\ roundText' = disk /\ UNCHANGED <<disk, edited>> BY <1>9 DEF NewRound
    <2>2. ToSet(edited) = {} BY <2>1, ToSetOfEmpty
    <2>3. DocumentsAreInStep' BY <1>1, <1>5, <1>6, <2>1, InStepPartsPrimed
    <2>4. \A f \in Files : proc'[LspOf[f]] = "up" /\ opened[f] > 0 => Expected(f)'.text >= disk[f]
      <3>1. \A f \in Files : disk[f] >= disk[f] BY <1>2
      <3>2. QED BY <1>5, <1>6, <2>2, <3>1
    <2>5. \A f \in Files : disk[f] <= disk[f] BY <1>2
    <2>6. TextsInv' BY <1>1, <1>2, <2>1, <2>4, <2>5 DEF TextsInv, Expected
    <2>7. QED BY <1>1, <1>4, <2>3, <2>6, KindsStep, ProcTypeStep DEF DocumentsInv, QueryInv
  <1>10. ASSUME NEW e \in Files, Edit(e) PROVE DocumentsInv'
    <2>1. /\ disk' = [disk EXCEPT ![e] = @ + 1] /\ edited' = Append(edited, e)
          /\ UNCHANGED roundText
      BY <1>10 DEF Edit
    <2>2. ToSet(edited') = ToSet(edited) \cup {e} BY <1>2, <2>1, ToSetOfAppend
    <2>3. \A f \in Files \ {e} : disk'[f] = disk[f] BY <1>2, <2>1
    <2>4. DocumentsAreInStep' BY <1>1, <1>5, <1>6, <2>2, <2>3, InStepPartsPrimed
    <2>5. \A f \in Files : roundText[f] <= disk'[f]
      <3>1. SUFFICES ASSUME NEW f \in Files PROVE roundText[f] <= disk'[f] OBVIOUS
      <3>2. disk[f] \in Nat /\ roundText[f] \in Nat /\ disk'[f] \in {disk[f], disk[f] + 1}
        BY <1>2, <1>8, <2>1
      <3>3. roundText[f] <= disk[f] BY <1>8
      <3>4. QED BY <3>2, <3>3
    <2>6. TextsInv' BY <1>1, <1>5, <1>7, <1>8, <2>1, <2>5 DEF TextsInv, Expected
    <2>7. QED BY <1>1, <1>4, <2>4, <2>6, KindsStep, ProcTypeStep DEF DocumentsInv, QueryInv
  <1>11. QED BY <1>9, <1>10

LEMMA DidChangeDocs == ASSUME ServersInv, DocumentsInv, [Next]_vars, DidChange PROVE DocumentsInv'
  <1>0. PICK f : f = Head(edited) OBVIOUS
  <1> DEFINE doc == Doc(f, opened[f] + 1, disk[f])
  <1>1. /\ pc = "notify" /\ UNCHANGED <<pc, goal, started, disk, roundText, docs>>
        /\ edited # <<>> /\ edited' = Tail(edited)
        /\ \/ opened[f] = 0 /\ UNCHANGED <<rpcVars, opened>>
           \/ /\ opened' = [opened EXCEPT ![f] = @ + 1] /\ opened[f] # 0
              /\ \/ Notify(LspOf[f], "didChange", doc)
                 \/ proc[LspOf[f]] # "up" /\ UNCHANGED rpcVars
    BY <1>0 DEF DidChange
  <1>2. /\ RpcInv /\ NotesGoRight /\ edited \in Seq(Files)
        /\ opened \in [Files -> Nat] /\ disk \in [Files -> Nat]
    BY NotesRight DEF ServersInv, MgrInv
  <1>3. f \in Files
    BY <1>0, <1>1, <1>2, ToSetOfTail
  <1>4. \A g \in ToSet(edited) : g = f \/ g \in ToSet(edited')
    <2>1. \A i \in DOMAIN edited : i = 1 \/ (i - 1 \in DOMAIN Tail(edited) /\ Tail(edited)[i - 1] = edited[i])
      BY <1>1, <1>2
    <2>2. f = edited[1] BY <1>0, <1>1, <1>2
    <2>3. QED BY <1>1, <2>1, <2>2 DEF ToSet
  <1>5. /\ doc \in Docs /\ doc.file = f /\ doc.version = opened[f] + 1 /\ doc.text = disk[f]
        /\ "didChange" \in Methods /\ opened[f] \in Nat
    BY <1>2, <1>3 DEF Doc, Docs, Methods
  <1> HIDE DEF doc
  <1>6. \A g \in Files : proc[LspOf[g]] = "up" =>
          /\ Expected(g).version = opened[g] /\ InOrder(g)
          /\ opened[g] > 0 /\ g \notin ToSet(edited) => Expected(g).text = disk[g]
          /\ opened[g] > 0 => Expected(g).text >= roundText[g]
    BY InStepParts DEF DocumentsInv, TextsInv, Expected
  <1>7. /\ NotesGoRight' /\ UNCHANGED proc
        /\ \A g \in Files \ {f} : NoNews(g) /\ opened'[g] = opened[g]
        /\ proc[LspOf[f]] = "up" =>
             /\ Expected(f)'.version = opened'[f] /\ InOrder(f)'
             /\ opened'[f] > 0 => Expected(f)'.text = disk[f]
    <2>1. CASE opened[f] = 0 /\ UNCHANGED <<rpcVars, opened>>
      <3>1. Quiet BY <1>1, <1>2, <2>1, NothingSentQuiet DEF rpcVars
      <3>2. QED BY <1>3, <1>6, <2>1, <3>1 DEF Quiet, NoNews, rpcVars
    <2>2. CASE /\ opened' = [opened EXCEPT ![f] = @ + 1] /\ opened[f] # 0
               /\ Notify(LspOf[f], "didChange", doc)
      <3>1. proc[LspOf[f]] = "up" /\ opened'[f] = opened[f] + 1 BY <1>2, <1>3, <2>2 DEF Notify
      <3>2. doc.version # 1 BY <1>5, <2>2
      <3>3. Expected(f).version = opened[f] /\ InOrder(f) BY <1>3, <1>6, <3>1
      <3>4. /\ NotesGoRight' /\ UNCHANGED proc
            /\ \A g \in Files \ {f} : NoNews(g)
            /\ Expected(f)' = doc /\ InOrder(f)'
        BY <1>1, <1>2, <1>3, <1>5, <2>2, <3>2, <3>3, AnnouncedNews
      <3>5. QED BY <1>2, <1>5, <2>2, <3>1, <3>4
    <2>3. CASE /\ opened' = [opened EXCEPT ![f] = @ + 1]
               /\ proc[LspOf[f]] # "up" /\ UNCHANGED rpcVars
      <3>1. Quiet BY <1>1, <1>2, <2>3, NothingSentQuiet DEF rpcVars
      <3>2. QED BY <1>2, <2>3, <3>1 DEF Quiet, rpcVars
    <2>4. QED BY <1>1, <2>1, <2>2, <2>3
  <1>8. DocumentsAreInStep'
    <2>1. SUFFICES ASSUME NEW g \in Files, proc'[LspOf[g]] = "up"
                   PROVE  /\ Expected(g)'.version = opened'[g]
                          /\ opened'[g] > 0 /\ g \notin ToSet(edited') => Expected(g)'.text = disk[g]
                          /\ InOrder(g)'
      BY <1>1, InStepPartsPrimed
    <2>2. CASE g = f BY <1>7, <2>1, <2>2
    <2>3. CASE g # f BY <1>4, <1>6, <1>7, <2>1, <2>3 DEF NoNews
    <2>4. QED BY <2>2, <2>3
  <1>9. \A g \in Files : proc'[LspOf[g]] = "up" /\ opened'[g] > 0 => Expected(g)'.text >= roundText[g]
    <2>1. SUFFICES ASSUME NEW g \in Files, proc'[LspOf[g]] = "up", opened'[g] > 0
                   PROVE  Expected(g)'.text >= roundText[g]
      OBVIOUS
    <2>2. CASE g = f
      <3>1. roundText[f] <= disk[f] /\ roundText[f] \in Nat /\ disk[f] \in Nat
        BY <1>2, <1>3 DEF DocumentsInv, TextsInv
      <3>2. QED BY <1>7, <2>1, <2>2, <3>1
    <2>3. CASE g # f BY <1>6, <1>7, <2>1, <2>3 DEF NoNews
    <2>4. QED BY <2>2, <2>3
  <1>10. TextsInv' BY <1>1, <1>9 DEF DocumentsInv, TextsInv, Expected
  <1>11. FileServersInv'
    <2>1. \A g \in Files : opened'[g] > 0 => LspOf[g] \in started \/ pc' \in Leaving
      <3>1. \A g \in Files : opened'[g] > 0 => opened[g] > 0 BY <1>1, <1>2, <1>5, <1>7
      <3>2. QED BY <1>1, <3>1 DEF DocumentsInv, FileServersInv
    <2>2. QED BY <1>1, <1>7, <2>1 DEF DocumentsInv, FileServersInv, NotesGoRight
  <1>12. QED BY <1>1, <1>8, <1>10, <1>11, KindsStep, ProcTypeStep DEF DocumentsInv, QueryInv

LEMMA LeavingDocs ==
  ASSUME ServersInv, DocumentsInv, [Next]_vars,
         Quit \/ ShutdownLsp \/ LspIsShutDown \/ AllShutDown \/ LeaveWithoutShutdown
  PROVE  DocumentsInv'
  <1>1. /\ RpcInv /\ NotesGoRight /\ NoDoc \in Docs /\ started \subseteq Servers
    BY NotesRight, Constants DEF ServersInv, MgrInv
  <1>2. \A f \in Files : proc[LspOf[f]] = "up" =>
          LspOf[f] \in started \/ (pc = "lspInit" /\ LspOf[f] = Lsp)
    BY DEF DocumentsInv, FileServersInv
  <1>3. CASE Quit
    <2>1. /\ pc = "round" /\ pc' = "closeLsp" /\ Gone(handles)
          /\ UNCHANGED <<docs, started, opened, diskVars>>
      BY <1>3 DEF Quit, lspVars
    <2>2. Quiet BY <1>1, <2>1, GoneQuiet
    <2>3. QED BY <2>1, <2>2, QuietManager DEF Leaving
  <1>4. CASE ShutdownLsp
    <2>1. PICK s \in started : Request(s, <<>>, "shutdown", NoDoc) BY <1>4 DEF ShutdownLsp
    <2>2. /\ pc = "closeLsp" /\ pc' = "lspShutdown" /\ "shutdown" \in Methods /\ s \in Servers
          /\ UNCHANGED docs /\ UNCHANGED <<started, opened, diskVars>>
      BY <1>1, <1>4 DEF ShutdownLsp, lspVars, Methods
    <2>3. Quiet BY <1>1, <2>1, <2>2, RequestQuiet
    <2>4. QED BY <2>2, <2>3, QuietManager DEF Leaving
  <1>5. CASE LspIsShutDown
    <2>1. /\ pc = "lspShutdown" /\ pc' = "closeLsp" /\ Gone({call.server})
          /\ started' = started \ {call.server} /\ UNCHANGED docs /\ UNCHANGED <<opened, diskVars>>
      BY <1>5 DEF LspIsShutDown, Answered, Dropped
    <2>2. Quiet BY <1>1, <2>1, GoneQuiet
    <2>3. TextsInv' /\ DocumentsAreInStep' BY <2>1, <2>2, QuietFiles DEF DocumentsInv
    <2>4. \A f \in Files : proc'[LspOf[f]] = "up" => LspOf[f] \in started'
      <3>1. SUFFICES ASSUME NEW f \in Files, proc'[LspOf[f]] = "up" PROVE LspOf[f] \in started'
        OBVIOUS
      <3>2. proc[LspOf[f]] = "up" BY <2>2, <3>1 DEF Quiet, NoNews
      <3>3. LspOf[f] # call.server BY <2>1, <3>1, LspIsServer DEF Gone
      <3>4. QED BY <1>2, <2>1, <3>2, <3>3
    <2>5. FileServersInv' BY <2>1, <2>2, <2>4 DEF FileServersInv, Leaving, Quiet, NotesGoRight
    <2>6. QueryInv' BY <2>1 DEF QueryInv
    <2>7. QED BY <2>3, <2>5, <2>6, KindsStep, ProcTypeStep DEF DocumentsInv
  <1>6. ASSUME pc' \in {"over", "left"}, Quiet, \A f \in Files : proc'[LspOf[f]] # "up",
               UNCHANGED diskVars
        PROVE  DocumentsInv'
    <2>1. DocumentsAreInStep' BY <1>6, InStepPartsPrimed
    <2>2. TextsInv' BY <1>6 DEF DocumentsInv, TextsInv, diskVars
    <2>3. FileServersInv' BY <1>6 DEF FileServersInv, Leaving, Quiet, NotesGoRight
    <2>4. QueryInv' BY <1>6 DEF QueryInv
    <2>5. QED BY <2>1, <2>2, <2>3, <2>4, KindsStep, ProcTypeStep DEF DocumentsInv
  <1>7. CASE AllShutDown
    <2>1. /\ pc = "closeLsp" /\ pc' = "over" /\ started = {}
          /\ UNCHANGED <<rpcVars, docs>> /\ UNCHANGED diskVars
      BY <1>7 DEF AllShutDown
    <2>2. Quiet BY <1>1, <2>1, NothingSentQuiet DEF rpcVars
    <2>3. \A f \in Files : proc'[LspOf[f]] # "up" BY <1>2, <2>1 DEF rpcVars
    <2>4. QED BY <1>6, <2>1, <2>2, <2>3
  <1>8. CASE LeaveWithoutShutdown
    <2>1. /\ pc = "round" /\ pc' = "left" /\ Gone(handles \cup started)
          /\ UNCHANGED docs /\ UNCHANGED diskVars
      BY <1>8 DEF LeaveWithoutShutdown, Dropped
    <2>2. Quiet BY <1>1, <2>1, GoneQuiet
    <2>3. \A f \in Files : proc'[LspOf[f]] # "up"
      <3>1. SUFFICES ASSUME NEW f \in Files, proc'[LspOf[f]] = "up" PROVE FALSE OBVIOUS
      <3>2. proc[LspOf[f]] = "up" BY <2>2, <3>1 DEF Quiet, NoNews
      <3>3. LspOf[f] \in started BY <1>2, <2>1, <3>2
      <3>4. QED BY <2>1, <3>1, <3>3, LspIsServer DEF Gone
    <2>4. QED BY <1>6, <2>1, <2>2, <2>3
  <1>9. QED BY <1>3, <1>4, <1>5, <1>7, <1>8

-----------------------------------------------------------------------------
(***************************************************************************)
(* What receiving does to the call: it ends with a failure or with an      *)
(* answer that had arrived under its number.                               *)
(***************************************************************************)
LEMMA ReceiveEnds ==
  ASSUME RpcInv, ClientStep
  PROVE  /\ Receiving /\ UNCHANGED <<proc, toServer>>
         /\ \A t \in Servers : Answers(t)' \subseteq Answers(t)
         /\ call'.server = call.server /\ call'.id = call.id /\ call'.doc = call.doc
         /\ Succeeded' => call'.reply \in Answers(call.server) /\ call'.reply.id = call.id
  <1>1. Receiving BY DEF ClientStep, NeedsMore, Read, EndOfFile, TakeFrame, Receiving
  <1>2. /\ call \in Calls /\ call.server \in Servers /\ call.reply.kind = "failed"
        /\ buf \in [Servers -> Seq(Frames)] /\ call.step # "done"
    BY <1>1 DEF RpcInv, RpcTypeOK, CallInv, Receiving, Failure, Trouble, Frame
  <1>3. UNCHANGED <<proc, toServer>> BY DEF ClientStep, NeedsMore, Read, EndOfFile, TakeFrame
  <1>4. \A t \in Servers : Answers(t)' \subseteq Answers(t) BY ReceivedWasThere DEF Answers
  <1>5. CASE NeedsMore \/ Read \/ EndOfFile
    <2>1. \E step \in {"wait", "decode", "done"} : call' = [call EXCEPT !.step = step]
      BY <1>5 DEF NeedsMore, Read, EndOfFile
    <2>2. /\ call'.server = call.server /\ call'.id = call.id /\ call'.doc = call.doc
          /\ call'.reply = call.reply
      BY <1>2, <2>1 DEF Calls
    <2>3. QED BY <1>1, <1>2, <1>3, <1>4, <2>2 DEF Succeeded
  <1>6. CASE TakeFrame
    <2> DEFINE m == Head(Incoming)
    <2>1. /\ buf[call.server] # <<>> /\ m = Head(buf[call.server])
          /\ call' = IF Matches(m) THEN [call EXCEPT !.step = "done", !.reply = m]
                     ELSE IF m.kind = "badJson" THEN [call EXCEPT !.step = "done"]
                     ELSE call
      BY <1>6 DEF TakeFrame, Incoming
    <2>2. m \in ToSet(buf[call.server]) BY <1>2, <2>1, ToSetOfTail
    <2> HIDE DEF m
    <2>3. /\ call'.server = call.server /\ call'.id = call.id /\ call'.doc = call.doc
          /\ call'.reply = call.reply \/ (call'.reply = m /\ Matches(m))
      BY <1>2, <2>1 DEF Calls
    <2>4. Matches(m) => m \in Answers(call.server) /\ m.id = call.id
      BY <2>2 DEF Matches, Answers, IsAnswer
    <2>5. QED BY <1>1, <1>2, <1>3, <1>4, <2>3, <2>4 DEF Succeeded
  <1>7. QED BY <1>5, <1>6 DEF ClientStep

LEMMA ReceiveDocs == ASSUME ServersInv, DocumentsInv, [Next]_vars, Receive PROVE DocumentsInv'
  <1>1. /\ ClientStep /\ UNCHANGED <<pc, started, opened, goal, diskVars>> /\ UNCHANGED docs
    BY DEF Receive, mgrVars, lspVars
  <1>2. RpcInv /\ NotesGoRight BY NotesRight DEF ServersInv
  <1>3. /\ Receiving /\ UNCHANGED <<proc, toServer>>
        /\ \A t \in Servers : Answers(t)' \subseteq Answers(t)
        /\ call'.server = call.server /\ call'.id = call.id /\ call'.doc = call.doc
        /\ Succeeded' => call'.reply \in Answers(call.server) /\ call'.reply.id = call.id
    BY <1>1, <1>2, ReceiveEnds
  <1>4. Quiet BY <1>1, <1>2, <1>3, NothingSentQuiet
  <1>5. ASSUME pc = "lspQuery" PROVE QueryInv'
    <2>1. PICK f : f = goal.file OBVIOUS
    <2>2. /\ call.server = Lsp /\ call.doc.file = f
          /\ \A i \in DOMAIN toServer[Lsp] : toServer[Lsp][i].id = call.id =>
               Known(f, i - 1).text >= roundText[f]
          /\ \A m \in Answers(Lsp) : m.id = call.id /\ m.kind = "result" =>
               m.doc.text >= roundText[f]
      BY <1>3, <1>5, <2>1 DEF DocumentsInv, QueryInv
    <2>3. goal' = goal /\ goal'.file = f /\ roundText' = roundText /\ Lsp' = Lsp
      BY <1>1, <2>1 DEF diskVars, Lsp
    <2>4. \A i : Known(f, i)' = Known(f, i) BY <1>1, <1>3 DEF Known
    <2>5. Lsp \in Servers BY <1>2, <1>3, <2>2 DEF RpcInv, CallInv
    <2>6. Answers(Lsp)' \subseteq Answers(Lsp)
      <3>1. PICK s : s = Lsp OBVIOUS
      <3>2. Answers(s)' \subseteq Answers(s) BY <1>3, <2>5, <3>1
      <3>3. Answers(Lsp)' = Answers(s)' BY <2>3, <3>1 DEF Answers
      <3>4. QED BY <3>1, <3>2, <3>3
    <2>7. Succeeded' => call'.reply.doc.text >= roundText[f]
      <3>1. Succeeded' => call'.reply.kind = "result" BY DEF Succeeded
      <3>2. QED BY <1>3, <2>2, <3>1
    <2>8. \A i \in DOMAIN toServer'[Lsp] : toServer'[Lsp][i].id = call'.id =>
            Known(f, i - 1)'.text >= roundText[f]
      BY <1>3, <2>2, <2>4
    <2>9. \A m \in Answers(Lsp)' : m.id = call'.id /\ m.kind = "result" =>
            m.doc.text >= roundText[f]
      BY <1>3, <2>2, <2>6
    <2>10. call'.server = Lsp /\ call'.doc.file = f BY <1>3, <2>2
    <2>11. QED BY <2>3, <2>7, <2>8, <2>9, <2>10 DEF QueryInv
  <1>6. pc \in {"open", "lspInit"} => goal.text = disk[goal.file] BY DEF DocumentsInv, TextsInv
  <1>7. QED BY <1>1, <1>4, <1>5, <1>6, QuietManager DEF diskVars

-----------------------------------------------------------------------------
(***************************************************************************)
(* What a server sends while a query of f is in flight.                    *)
(***************************************************************************)
LEMMA ServeQuery ==
  ASSUME ServersInv, DocumentsInv, NEW s \in Servers, Serve(s), pc = "lspQuery", Receiving,
         NEW f \in Files, f = goal.file
  PROVE  /\ \A i \in DOMAIN toServer'[Lsp] : toServer'[Lsp][i].id = call.id =>
              Known(f, i - 1)'.text >= roundText[f]
         /\ \A a \in Answers(LspOf[f])' : a.id = call.id /\ a.kind = "result" =>
              a.doc.text >= roundText[f]
  <1>1. /\ RpcInv /\ RpcTypeOK /\ NotesGoRight /\ Lsp = LspOf[f] /\ LspOf[f] \in Servers
        /\ docs \in [Files -> Docs] /\ roundText \in [Files -> Nat]
        /\ toServer \in [Servers -> Seq(Messages)] /\ toServer[s] \in Seq(Messages)
    BY NotesRight, LspIsServer DEF ServersInv, RpcInv, RpcTypeOK, Lsp, DocumentsInv, TextsInv
  <1>2. /\ call.server = LspOf[f] /\ call.doc.file = f /\ call.id # 0
        /\ \A i \in DOMAIN toServer[LspOf[f]] : toServer[LspOf[f]][i].id = call.id =>
             Known(f, i - 1).text >= roundText[f]
        /\ \A a \in Answers(LspOf[f]) : a.id = call.id /\ a.kind = "result" =>
             a.doc.text >= roundText[f]
    BY <1>1 DEF DocumentsInv, QueryInv, RpcInv, CallInv
  <1> DEFINE m == Head(toServer[s])
  <1>3. /\ toServer[s] # <<>> /\ toServer' = [toServer EXCEPT ![s] = Tail(@)] /\ UNCHANGED buf
        /\ \/ m.id # 0 /\ UNCHANGED docs
           \/ /\ m.id = 0
              /\ docs' = IF m.doc.file \in Files THEN [docs EXCEPT ![m.doc.file] = m.doc] ELSE docs
        /\ \/ \E more \in BOOLEAN : Reply(s, <<Result(m, more)>>)
           \/ Reply(s, <<Frame("error", m.id, m.method, m.doc, FALSE)>>)
           \/ Reply(s, <<Frame("notification", 0, "publishDiagnostics", m.doc, FALSE)>>)
           \/ UNCHANGED pipe
    BY DEF Serve
  <1>4. m \in ToSet(toServer[s]) /\ m = toServer[s][1] /\ 1 \in DOMAIN toServer[s]
    BY <1>1, <1>3, ToSetOfTail
  <1> HIDE DEF m
  <1>5. CASE s # LspOf[f]
    <2>1. toServer'[LspOf[f]] = toServer[LspOf[f]] BY <1>1, <1>3, <1>5
    <2>2. m.id = 0 => m.doc.file # f BY <1>1, <1>4, <1>5 DEF NotesGoRight
    <2>3. docs'[f] = docs[f] BY <1>1, <1>3, <2>2
    <2>4. \A n : Known(f, n)' = Known(f, n) BY <2>1, <2>3 DEF Known
    <2>5. pipe'[LspOf[f]] = pipe[LspOf[f]] BY <1>1, <1>3, <1>5 DEF Reply, RpcTypeOK
    <2>6. Answers(LspOf[f])' = Answers(LspOf[f]) BY <1>3, <2>5 DEF Answers
    <2>7. QED BY <1>1, <1>2, <2>1, <2>4, <2>6
  <1>6. CASE s = LspOf[f]
    <2>1. toServer'[LspOf[f]] = Tail(toServer[LspOf[f]]) /\ toServer[LspOf[f]] # <<>>
      BY <1>1, <1>3, <1>6
    <2>2. Known(f, 0) = docs[f] /\ Known(f, 1) = IF Announces(m, f) THEN m.doc ELSE docs[f]
      <3>1. /\ KnownAfter(toServer[s], 0, f, docs[f]) = docs[f]
            /\ KnownAfter(toServer[s], 0 + 1, f, docs[f]) =
                 IF Announces(toServer[s][0 + 1], f) THEN toServer[s][0 + 1].doc
                 ELSE KnownAfter(toServer[s], 0, f, docs[f])
        BY KnownNext
      <3>2. QED BY <1>4, <1>6, <3>1 DEF Known
    <2>3. docs'[f] = Known(f, 1) BY <1>1, <1>3, <2>2 DEF Announces
    <2>4. \A i \in DOMAIN toServer'[LspOf[f]] : Known(f, i - 1)' = Known(f, i)
      BY <1>1, <2>1, <2>3, OneLess
    <2>5. \A i \in DOMAIN toServer'[LspOf[f]] : toServer'[LspOf[f]][i].id = call.id =>
            Known(f, i - 1)'.text >= roundText[f]
      <3>1. SUFFICES ASSUME NEW i \in DOMAIN toServer'[LspOf[f]], toServer'[LspOf[f]][i].id = call.id
                     PROVE  Known(f, i - 1)'.text >= roundText[f]
        OBVIOUS
      <3>2. /\ i + 1 \in DOMAIN toServer[LspOf[f]] /\ (i + 1) - 1 = i
            /\ toServer'[LspOf[f]][i] = toServer[LspOf[f]][i + 1]
        BY <1>1, <2>1, <3>1, TailAt
      <3>3. Known(f, (i + 1) - 1).text >= roundText[f] BY <1>2, <3>1, <3>2
      <3>4. QED BY <2>4, <3>2, <3>3
    <2>6. m.id = call.id => docs[f].text >= roundText[f] /\ m.doc.file = f
      <3>1. m.id = call.id => Known(f, 1 - 1).text >= roundText[f] BY <1>2, <1>4, <1>6
      <3>2. m.id = call.id => m.doc.file = call.doc.file
        BY <1>1, <1>2, <1>4, <1>6 DEF RpcInv, CallInv, FitsCall
      <3>3. QED BY <1>2, <2>2, <3>1, <3>2
    <2>7. ASSUME NEW r, Reply(s, <<r>>),
                 r.id = call.id /\ r.kind = "result" => r.doc.text >= roundText[f]
          PROVE  \A a \in Answers(s)' : a.id = call.id /\ a.kind = "result" =>
                   a.doc.text >= roundText[f]
      <3>1. Answers(s)' \subseteq Answers(s) \cup {r}
        BY <1>1, <1>3, <2>7, ReplyAnswers
      <3>2. QED BY <1>2, <1>6, <2>7, <3>1
    <2>8. \A more \in BOOLEAN : /\ Result(m, more).id = m.id
                                /\ m.doc.file = f => Result(m, more).doc.text = docs[f].text
      <3>1. m.doc.file = f =>
              /\ docs[m.doc.file] \in Docs
              /\ [docs[m.doc.file] EXCEPT !.file = m.doc.file].text = docs[f].text
        BY <1>1 DEF Docs
      <3>2. QED BY <3>1 DEF Result, Frame
    <2>9. \A a \in Answers(s)' : a.id = call.id /\ a.kind = "result" => a.doc.text >= roundText[f]
      <3>1. ASSUME NEW more \in BOOLEAN, Reply(s, <<Result(m, more)>>)
            PROVE  \A a \in Answers(s)' : a.id = call.id /\ a.kind = "result" =>
                     a.doc.text >= roundText[f]
        <4>1. PICK r : r = Result(m, more) OBVIOUS
        <4>2. r.id = call.id => r.doc.text >= roundText[f] BY <2>6, <2>8, <4>1
        <4>3. QED BY <2>7, <3>1, <4>1, <4>2
      <3>2. ASSUME NEW kind \in {"error", "notification"}, NEW id, NEW method,
                   Reply(s, <<Frame(kind, id, method, m.doc, FALSE)>>)
            PROVE  \A a \in Answers(s)' : a.id = call.id /\ a.kind = "result" =>
                     a.doc.text >= roundText[f]
        <4>1. PICK r : r = Frame(kind, id, method, m.doc, FALSE) OBVIOUS
        <4>2. r.kind # "result" BY <3>2, <4>1 DEF Frame
        <4>3. QED BY <2>7, <3>2, <4>1, <4>2
      <3>3. CASE UNCHANGED pipe
        <4>1. Answers(s)' = Answers(s) BY <1>3, <3>3 DEF Answers
        <4>2. QED BY <1>2, <1>6, <4>1
      <3>4. QED BY <1>3, <3>1, <3>2, <3>3
    <2>10. QED BY <1>1, <1>6, <2>5, <2>9
  <1>7. QED BY <1>5, <1>6

LEMMA WrongAnswers ==
  ASSUME RpcTypeOK, NEW s \in Servers, GoesWrong(s)
  PROVE  \A t \in Servers : Answers(t)' \subseteq Answers(t)
  <1>1. UNCHANGED buf BY DEF GoesWrong
  <1>2. ASSUME NEW r, ~IsAnswer(r), Reply(s, <<r>>)
        PROVE  \A t \in Servers : Answers(t)' \subseteq Answers(t)
    BY <1>1, <1>2, ReplyAnswers
  <1>3. ASSUME NEW kind \in {"badJson", "badBody", "badHeader"}, Reply(s, <<Trouble(kind)>>)
        PROVE  \A t \in Servers : Answers(t)' \subseteq Answers(t)
    <2>1. PICK r : r = Trouble(kind) OBVIOUS
    <2>2. ~IsAnswer(r) BY <1>3, <2>1 DEF Trouble, Frame, IsAnswer
    <2>3. QED BY <1>2, <1>3, <2>1, <2>2
  <1>4. ASSUME NEW id, Reply(s, <<Frame("request", id, "ask", NoDoc, FALSE)>>)
        PROVE  \A t \in Servers : Answers(t)' \subseteq Answers(t)
    <2>1. PICK r : r = Frame("request", id, "ask", NoDoc, FALSE) OBVIOUS
    <2>2. ~IsAnswer(r) BY <2>1 DEF Frame, IsAnswer
    <2>3. QED BY <1>2, <1>4, <2>1, <2>2
  <1>5. CASE UNCHANGED pipe BY <1>1, <1>5 DEF Answers
  <1>6. QED BY <1>3, <1>4, <1>5 DEF GoesWrong, TroubleKinds

LEMMA TrafficDocs ==
  ASSUME ServersInv, DocumentsInv, [Next]_vars, NEW s \in Servers,
         Serve(s) \/ SomethingGoesWrong(s)
  PROVE  DocumentsInv'
  <1>1. UNCHANGED <<pc, started, opened, goal, disk, edited, roundText>> /\ UNCHANGED call
    BY DEF Serve, SomethingGoesWrong, GoesWrong, mgrVars, lspVars, diskVars
  <1>2. RpcInv /\ RpcTypeOK /\ NotesGoRight BY NotesRight DEF ServersInv, RpcInv
  <1>3. Quiet
    <2>1. CASE Serve(s) BY <1>2, <2>1, ServeQuiet
    <2>2. CASE SomethingGoesWrong(s)
      <3>1. UNCHANGED <<toServer, docs>> /\ proc[s] = "up"
            /\ (UNCHANGED proc \/ proc' = [proc EXCEPT ![s] = "dead"])
        BY <2>2 DEF SomethingGoesWrong, GoesWrong
      <3>2. \A t \in Servers \ {s} : proc'[t] = proc[t] BY <3>1 DEF DocumentsInv, ProcTypeOK
      <3>3. \A t \in Servers : proc'[t] = "up" => proc[t] = "up" BY <3>1, <3>2
      <3>4. QED BY <1>2, <3>1, <3>3, NothingSentQuiet
    <2>3. QED BY <2>1, <2>2
  <1>4. ASSUME pc = "lspQuery" PROVE QueryInv'
    <2>1. PICK f : f = goal.file OBVIOUS
    <2>2. f \in Files /\ LspOf[f] \in Servers /\ Lsp = LspOf[f] /\ Lsp' = Lsp
      BY <1>1, <1>4, <2>1, LspIsServer DEF ServersInv, MgrInv, Lsp
    <2>3. Succeeded' => call'.reply.doc.text >= roundText[f]
      BY <1>1, <1>4, <2>1 DEF DocumentsInv, QueryInv, Succeeded
    <2>4. ASSUME Receiving
          PROVE  /\ call.server = Lsp /\ call.doc.file = f
                 /\ \A i \in DOMAIN toServer'[Lsp] : toServer'[Lsp][i].id = call.id =>
                      Known(f, i - 1)'.text >= roundText[f]
                 /\ \A a \in Answers(LspOf[f])' : a.id = call.id /\ a.kind = "result" =>
                      a.doc.text >= roundText[f]
      <3>1. /\ call.server = Lsp /\ call.doc.file = f
            /\ \A i \in DOMAIN toServer[Lsp] : toServer[Lsp][i].id = call.id =>
                 Known(f, i - 1).text >= roundText[f]
            /\ \A m \in Answers(Lsp) : m.id = call.id /\ m.kind = "result" =>
                 m.doc.text >= roundText[f]
        BY <1>4, <2>1, <2>4 DEF DocumentsInv, QueryInv
      <3>2. CASE Serve(s) BY <1>4, <2>1, <2>2, <2>4, <3>1, <3>2, ServeQuery
      <3>3. CASE SomethingGoesWrong(s)
        <4>1. GoesWrong(s) /\ UNCHANGED <<toServer, docs>>
          BY <3>3 DEF SomethingGoesWrong, GoesWrong
        <4>2. \A n : Known(f, n)' = Known(f, n) BY <4>1 DEF Known
        <4>3. Answers(LspOf[f])' \subseteq Answers(LspOf[f]) BY <1>2, <2>2, <4>1, WrongAnswers
        <4>4. QED BY <2>2, <3>1, <4>1, <4>2, <4>3
      <3>4. QED BY <3>2, <3>3
    <2>5. Receiving' = Receiving BY <1>1 DEF Receiving
    <2>6. Answers(Lsp)' = Answers(LspOf[f])' BY <2>2 DEF Answers
    <2>7. goal'.file = f BY <1>1, <2>1
    <2>8. QED BY <1>1, <2>2, <2>3, <2>4, <2>5, <2>6, <2>7 DEF QueryInv
  <1>5. pc \in {"open", "lspInit"} => goal.text = disk[goal.file] BY DEF DocumentsInv, TextsInv
  <1>6. QED BY <1>1, <1>3, <1>4, <1>5, QuietManager DEF diskVars

LEMMA DocumentsNext == ServersInv /\ DocumentsInv /\ [Next]_vars => DocumentsInv'
  <1> SUFFICES ASSUME ServersInv, DocumentsInv, [Next]_vars PROVE DocumentsInv' OBVIOUS
  <1>1. CASE UNCHANGED vars \/ Over
    <2>1. /\ UNCHANGED <<pc, started, opened, goal, disk, edited, roundText>>
          /\ UNCHANGED <<call, toServer, docs, proc, pipe, buf>>
          /\ UNCHANGED <<toConnect, handles>>
      BY <1>1 DEF Over, vars, rpcVars, mgrVars, lspVars, diskVars
    <2>2. \A f, n : Known(f, n)' = Known(f, n) BY <2>1 DEF Known
    <2>3. Lsp' = Lsp /\ (Receiving' <=> Receiving) /\ (Succeeded' <=> Succeeded)
          /\ \A s : Answers(s)' = Answers(s)
      BY <2>1 DEF Lsp, Receiving, Succeeded, Answers
    <2>4. Quiet BY <2>1, NotesRight, NothingSentQuiet
    <2>5. QueryInv'
      <3>1. PICK f, s : f = goal.file /\ s = Lsp OBVIOUS
      <3>2. Answers(s)' = Answers(s) /\ Answers(Lsp)' = Answers(s)' BY <2>3, <3>1 DEF Answers
      <3>3. \A n : Known(f, n)' = Known(f, n) BY <2>2
      <3>4. goal'.file = f BY <2>1, <3>1
      <3>5. QED BY <2>1, <2>3, <3>1, <3>2, <3>3, <3>4 DEF DocumentsInv, QueryInv
    <2>6. pc \in {"open", "lspInit"} => goal.text = disk[goal.file] BY DEF DocumentsInv, TextsInv
    <2>7. QED BY <2>1, <2>4, <2>5, <2>6, QuietManager DEF diskVars
  <1>2. QED
    BY <1>1, ConnectingDocs, RoundDocs, StartLspDocs, LspInitDocs, DidOpenDocs, QueryDocs,
       LspToolDocs, EditDocs, DidChangeDocs, LeavingDocs, ReceiveDocs, TrafficDocs
    DEF Next

LEMMA DocumentsInit == Init => DocumentsInv
  <1> SUFFICES ASSUME Init PROVE DocumentsInv OBVIOUS
  <1>1. /\ pc = "connect" /\ opened = [f \in Files |-> 0] /\ disk = [f \in Files |-> 0]
        /\ roundText = disk /\ proc = [s \in Servers |-> "none"]
        /\ toServer = [s \in Servers |-> <<>>]
        /\ toConnect = McpServers /\ handles = {} /\ started = {}
    BY DEF Init, RpcInit
  <1>2. \A f \in Files : proc[LspOf[f]] # "up" /\ opened[f] = 0 BY <1>1, LspIsServer
  <1>3. \A s \in Servers : ToSet(toServer[s]) = {} BY <1>1, ToSetOfEmpty
  <1>4. KindsApart /\ ProcTypeOK BY <1>1 DEF KindsApart, ProcTypeOK
  <1>5. FileServersInv BY <1>2, <1>3 DEF FileServersInv, NotesGoRight
  <1>6. TextsInv BY <1>1, <1>2 DEF TextsInv
  <1>7. DocumentsAreInStep BY <1>2 DEF DocumentsAreInStep
  <1>8. QueryInv BY <1>1 DEF QueryInv
  <1>9. QED BY <1>4, <1>5, <1>6, <1>7, <1>8 DEF DocumentsInv

(***************************************************************************)
(* The language servers work on the text on the disk, but for edits still  *)
(* to be announced (lsp/manager.rs, ensure_file_open and notify_file_      *)
(* changed; agent.rs, the end of a round), however many files, servers,    *)
(* edits and troubles: opening and change notes reach a living server in   *)
(* order with rising versions, and no answer to a query is about a text    *)
(* older than the round.                                                   *)
(***************************************************************************)
THEOREM LanguageServersSeeTheDisk == Spec => []ServersSeeTheDisk
  <1>1. DocumentsInv => ServersSeeTheDisk
    <2>1. DocumentsInv => QueriesSeeThisRoundsText
      BY DEF DocumentsInv, QueryInv, QueriesSeeThisRoundsText, Answered
    <2>2. QED BY <2>1 DEF DocumentsInv, ServersSeeTheDisk
  <1>2. Init => ServersInv /\ DocumentsInv BY InitInv, DocumentsInit
  <1>3. ServersInv /\ DocumentsInv /\ [Next]_vars => (ServersInv /\ DocumentsInv)'
    BY NextInv, DocumentsNext
  <1>4. QED BY <1>1, <1>2, <1>3, PTL DEF Spec
=============================================================================
