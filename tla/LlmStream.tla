----------------------------- MODULE LlmStream -----------------------------
(***************************************************************************)
(* LLMClient::stream_agent_async (src/llm/mod.rs): one request to the      *)
(* model and the reading of its answer, with SseParser (core/net/sse.rs)   *)
(* and StreamAccumulator.                                                  *)
(*                                                                         *)
(* The answer is an HTTP response whose body is a stream of events.  Reads *)
(* return any number of its bytes; they are told apart as finely as the    *)
(* reader can be misled: an event is an opening part and a closing one     *)
(* (with the blank line), and between them, in a text with a character of  *)
(* several bytes, one that ends inside that character.  Token counts and   *)
(* event names, which nothing depends on, are left out.                    *)
(***************************************************************************)
EXTENDS Integers, Sequences, FiniteSets, TLC, SequencesExt

CONSTANTS
    Messages,  \* what the model may answer: [blocks, reason]
    MaxCuts    \* bound: events that a chunk header falls into

Text(pieces) == [type |-> "text", pieces |-> pieces]
ToolUse(pieces) == [type |-> "tool_use", pieces |-> pieces]

LlmAssumption ==
    /\ MaxCuts \in Nat
    /\ \A m \in Messages : \A i \in DOMAIN m.blocks : m.blocks[i].type \in {"text", "tool_use"}

VARIABLES
    message,     \* the model's answer
    httpStatus,  \* of the response
    garbled,     \* events with the header of an HTTP chunk inside their data
    rest,        \* bytes of the response not yet read
    closed,      \* the connection is closed
    lost,        \* bytes were lost by that
    reader,      \* what stream_agent_async is reading
    sseBuf,      \* SseParser.buf
    acc          \* StreamAccumulator, and the text given to on_text

netVars == <<message, httpStatus, garbled, closed, lost>>
vars == <<netVars, rest, reader, sseBuf, acc>>

-----------------------------------------------------------------------------
(* The events of an answer (external) and the bytes they travel as.        *)
Event(type, index, piece) == [type |-> type, index |-> index, piece |-> piece]

BlockEvents(b, i) ==
    <<Event("content_block_start", i, b.type)>>
      \o [p \in DOMAIN b.pieces |-> Event("content_block_delta", i, b.pieces[p])]
      \o <<Event("content_block_stop", i, "")>>

EventsOf(m) ==
    FlattenSeq([i \in DOMAIN m.blocks |-> BlockEvents(m.blocks[i], i)])
      \o <<Event("message_delta", 0, m.reason), Event("message_stop", 0, "")>>

Events == EventsOf(message)

Byte(i, part) == [event |-> i, part |-> part]
Parts(e) == IF e.piece = "wide" THEN <<"open", "lead", "close">> ELSE <<"open", "close">>
HeaderEnd == Byte(0, "close")

Response(events) ==
    <<Byte(0, "open"), HeaderEnd>>
      \o FlattenSeq([i \in DOMAIN events |->
                       [p \in DOMAIN Parts(events[i]) |-> Byte(i, Parts(events[i])[p])]])

-----------------------------------------------------------------------------
(* StreamAccumulator.  Data that is no JSON is passed over; a text is      *)
(* shown whether or not its block is known.                                *)
NewAccumulator ==
    [open |-> <<>>, texts |-> <<>>, uses |-> <<>>, reason |-> "end_turn", shown |-> <<>>]

OnStart(a, e) == [a EXCEPT !.open = (e.index :> [type |-> e.piece, pieces |-> <<>>]) @@ @]

OnDelta(a, e) ==
    LET text == message.blocks[e.index].type = "text" IN
    [a EXCEPT !.shown = IF text THEN Append(@, e.piece) ELSE @,
              !.open = IF e.index \in DOMAIN @
                       THEN [@ EXCEPT ![e.index].pieces = Append(@, e.piece)]
                       ELSE @]

(* The pieces of a tool's input are parsed when its block stops: without   *)
(* the first or the last they are no JSON and {} is taken, but a hole in   *)
(* between may lie in a string and go unnoticed.                           *)
Input(pieces, whole) ==
    IF pieces # <<>> /\ Head(pieces) = Head(whole) /\ Last(pieces) = Last(whole)
    THEN pieces ELSE <<>>

OnStop(a, e) ==
    IF e.index \notin DOMAIN a.open THEN a
    ELSE LET b == a.open[e.index]
             use == [block |-> e.index, input |-> Input(b.pieces, message.blocks[e.index].pieces)]
         IN  [a EXCEPT !.open = [i \in DOMAIN @ \ {e.index} |-> @[i]],
                       !.texts = IF b.type = "text" THEN Append(@, b.pieces) ELSE @,
                       !.uses = IF b.type = "tool_use" THEN Append(@, use) ELSE @]

ProcessEvent(a, i) ==
    LET e == Events[i] IN
    CASE i \in garbled -> a
      [] i \notin garbled /\ e.type = "content_block_start" -> OnStart(a, e)
      [] i \notin garbled /\ e.type = "content_block_delta" -> OnDelta(a, e)
      [] i \notin garbled /\ e.type = "content_block_stop" -> OnStop(a, e)
      [] i \notin garbled /\ e.type = "message_delta" -> [a EXCEPT !.reason = e.piece]
      [] OTHER -> a

-----------------------------------------------------------------------------
Init ==
    /\ message \in Messages
    /\ httpStatus \in {200, 429}
    /\ garbled \in {S \in SUBSET DOMAIN Events : Cardinality(S) <= MaxCuts}
    /\ rest = Response(Events)
    /\ closed = FALSE /\ lost = FALSE
    /\ reader = "header"
    /\ sseBuf = <<>>
    /\ acc = NewAccumulator

Reading == reader \in {"header", "errorBody", "stream"}

(* SseParser::drain: blocks that are whole leave the buffer; one whose     *)
(* beginning is missing has no data line and is no event.                  *)
Drained(bytes) ==
    LET ends == SelectSeq(bytes, LAMBDA b : b.part = "close" /\ Byte(b.event, "open") \in ToSet(bytes))
    IN  [n \in DOMAIN ends |-> ends[n].event]

(* Mutant: what is left of a read is not kept for the next.                *)
KeepsNothing(bytes) == <<>>
Undrained(bytes) ==
    LET whole == {b.event : b \in {c \in ToSet(bytes) : c.part = "close"}}
    IN  SelectSeq(bytes, LAMBDA b : b.event \notin whole)

(* The end is looked for as a word: in all the body read with the header,  *)
(* which a text that mentions it ends as well; later in quotes, in an      *)
(* event's data, where a piece of text may be just that word.              *)
MentionsStop(e) == e.type = "message_stop" \/ e.piece \in {"mentions", "names"}
NamesStop(i) ==
    i \notin garbled /\ (Events[i].type = "message_stop" \/ Events[i].piece = "names")

(* Mutant: only an event that came whole in this read is looked at.        *)
SawStopInRead(drained, bytes) ==
    \E i \in ToSet(drained) : NamesStop(i) /\ Byte(i, "open") \in ToSet(bytes)
SawStop(drained, bytes) == \E i \in ToSet(drained) : NamesStop(i)

(* Bytes that end inside a character are an error, although the next read  *)
(* would complete it.                                                      *)
IsUtf8(bytes) == bytes = <<>> \/ Last(bytes).part # "lead"

Feed(bytes) ==
    /\ sseBuf' = Undrained(sseBuf \o bytes)
    /\ acc' = FoldLeft(ProcessEvent, acc, Drained(sseBuf \o bytes))

Fail == reader' = "failed" /\ UNCHANGED <<sseBuf, acc>>

Take(n) == rest' = SubSeq(rest, n + 1, Len(rest)) /\ UNCHANGED netVars

(* Mutant: the body that was read with the header is skipped.              *)
BodyAfterNextRead(bytes) == <<>>
Body(bytes) == SelectSeq(bytes, LAMBDA b : b.event > 0)

ReadHeader ==
    /\ reader = "header"
    /\ \E n \in DOMAIN rest :
         LET bytes == SubSeq(rest, 1, n) IN
         /\ Take(n)
         /\ \/ /\ HeaderEnd \notin ToSet(bytes)
               /\ UNCHANGED <<reader, sseBuf, acc>>
            \/ /\ HeaderEnd \in ToSet(bytes) /\ httpStatus # 200
               /\ reader' = "errorBody"
               /\ UNCHANGED <<sseBuf, acc>>
            \/ /\ HeaderEnd \in ToSet(bytes) /\ httpStatus = 200
               /\ IF IsUtf8(Body(bytes))
                  THEN /\ Feed(Body(bytes))
                       /\ reader' = IF \E b \in ToSet(Body(bytes)) : MentionsStop(Events[b.event])
                                    THEN "done" ELSE "stream"
                  ELSE Fail

ReadStream ==
    /\ reader = "stream"
    /\ \E n \in DOMAIN rest :
         LET bytes == SubSeq(rest, 1, n) IN
         /\ Take(n)
         /\ IF IsUtf8(bytes)
            THEN /\ Feed(bytes)
                 /\ reader' = IF SawStop(Drained(sseBuf \o bytes), bytes) THEN "done" ELSE "stream"
            ELSE Fail

(* The body of an error is read to the end of the connection.              *)
ReadErrorBody ==
    /\ reader = "errorBody"
    /\ \E n \in DOMAIN rest : Take(n)
    /\ UNCHANGED <<reader, sseBuf, acc>>

(* read() returns 0: what there is of the answer is the answer.            *)
ReadEnd ==
    /\ Reading /\ closed /\ rest = <<>>
    /\ reader' = IF reader = "stream" THEN "done" ELSE "failed"
    /\ UNCHANGED <<netVars, rest, sseBuf, acc>>

(* The connection breaks: read() returns an error.                         *)
ReadFails ==
    /\ Reading
    /\ Fail
    /\ UNCHANGED <<netVars, rest>>

(* The server, external, closes the connection, at any time if at all.     *)
Close ==
    /\ ~closed
    /\ closed' = TRUE
    /\ \/ UNCHANGED <<rest, lost>>
       \/ rest # <<>> /\ rest' = <<>> /\ lost' = TRUE
    /\ UNCHANGED <<message, httpStatus, garbled, reader, sseBuf, acc>>

Read == ReadHeader \/ ReadStream \/ ReadErrorBody \/ ReadEnd

(* All was read and the reader waits for more, on an open connection.      *)
WaitsForClose == Reading /\ rest = <<>> /\ ~closed

Over == (~Reading \/ WaitsForClose) /\ UNCHANGED vars

Next == Read \/ ReadFails \/ Close \/ Over

Spec == Init /\ [][Next]_vars

(* Fairness: the reader goes on reading what has arrived.                  *)
FairSpec == Spec /\ WF_vars(Read)

-----------------------------------------------------------------------------
BlocksOf(type) == SelectSeq([i \in DOMAIN message.blocks |-> i],
                            LAMBDA i : message.blocks[i].type = type)
TextsSent == [n \in DOMAIN BlocksOf("text") |-> message.blocks[BlocksOf("text")[n]].pieces]
UsesSent == [n \in DOMAIN BlocksOf("tool_use") |->
               LET i == BlocksOf("tool_use")[n]
               IN  [block |-> i, input |-> message.blocks[i].pieces]]

SpeaksOfStop == \E i \in DOMAIN Events : Events[i].piece \in {"mentions", "names"}

(***************************************************************************)
(* However the stream is cut into reads, the reader has what was sent so   *)
(* far, in order, and an answer it returns is the whole one: every text,   *)
(* all of which was shown, every use and the reason it stopped.  What may  *)
(* truncate an answer without an error: a connection that closes early, a  *)
(* text that speaks of message_stop; what may punch holes into it: a chunk *)
(* header, since chunked encoding is not decoded.                          *)
(***************************************************************************)
ReplyIsAsSent ==
    garbled = {} =>
        /\ IsPrefix(acc.texts, TextsSent) /\ IsPrefix(acc.uses, UsesSent)
        /\ IsPrefix(acc.shown, FlattenSeq(TextsSent))
        /\ reader = "done" /\ ~lost /\ ~SpeaksOfStop =>
              /\ acc.texts = TextsSent /\ acc.uses = UsesSent
              /\ acc.shown = FlattenSeq(TextsSent)
              /\ acc.reason = message.reason

(***************************************************************************)
(* A tool use is never returned with a part of its input: it has all of it *)
(* or is not there, however early the stream ends; only a chunk header     *)
(* inside one of its own events can leave it with less.                    *)
(***************************************************************************)
UsesAreWhole ==
    \A n \in DOMAIN acc.uses :
        LET use == acc.uses[n] IN
        (\A i \in garbled : Events[i].index # use.block) =>
            use.input = message.blocks[use.block].pieces

(***************************************************************************)
(* What the model said is what the agent is given, in order and whole.     *)
(***************************************************************************)
AnswerIsAsSent == ReplyIsAsSent /\ UsesAreWhole

(***************************************************************************)
(* The call returns although the server keeps the connection open: it sees *)
(* the end of the message.  Only the body of an error, or a message whose  *)
(* last event a chunk header garbled, is waited for until the close.       *)
(***************************************************************************)
EndIsHidden == httpStatus # 200 \/ Len(Events) \in garbled
StreamEnds == Reading ~> ~Reading \/ (WaitsForClose /\ EndIsHidden)

=============================================================================
