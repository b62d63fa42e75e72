------------------------------ MODULE JsonRpc ------------------------------
(***************************************************************************)
(* The JSON-RPC client that viv runs over the pipes of a child process:    *)
(* McpClient and LspClient (src/mcp/client.rs, src/lsp/client.rs) have the *)
(* same request loop, over StdioTransport (mcp/transport/stdio.rs).        *)
(*                                                                         *)
(* All clients live on the agent thread, so one request at most is in      *)
(* flight: `call`.  A frame is one message; bytes of a frame that has not  *)
(* arrived whole are as good as a frame still in the pipe.                 *)
(***************************************************************************)
EXTENDS Integers, Sequences, FiniteSets, SequencesExt

CONSTANTS
    Servers,        \* names of the configured servers
    ContentLength,  \* those whose frames have a header (LSP), not a newline
    MaxTroubles     \* bound: things that go wrong in the servers

VARIABLES
    proc,      \* the process behind each server's client
    nextId,    \* id of each client's next request
    toServer,  \* the pipe to each server
    pipe,      \* the pipe from each server
    buf,       \* read_buf: frames read and not decoded
    call,      \* the request in flight, or the last one
    troubles   \* how many things went wrong in the servers

rpcVars == <<proc, nextId, toServer, pipe, buf, call, troubles>>

(* What a message is about: a text document and what is known of it.       *)
Doc(file, version, text) == [file |-> file, version |-> version, text |-> text]
NoDoc == Doc("none", 0, 0)

Message(id, method, doc) == [id |-> id, method |-> method, doc |-> doc]
Note(method, doc) == Message(0, method, doc)

(* A frame from the server.  `method` is what it answers or announces,     *)
(* `more` a nextCursor.                                                    *)
Frame(kind, id, method, doc, more) ==
    [kind |-> kind, id |-> id, method |-> method, doc |-> doc, more |-> more]
Trouble(kind) == Frame(kind, 0, "none", NoDoc, FALSE)
Failure == Trouble("failed")

Call(s, id, method, doc, step, reply) ==
    [server |-> s, id |-> id, method |-> method, doc |-> doc, step |-> step, reply |-> reply]
NoCall == Call("none", 0, "none", NoDoc, "done", Failure)

Receiving == call.step \in {"decode", "wait"}
Succeeded == call.step = "done" /\ call.reply.kind = "result"

RpcInit ==
    /\ proc = [s \in Servers |-> "none"]
    /\ nextId = [s \in Servers |-> 1]
    /\ toServer = [s \in Servers |-> <<>>]
    /\ pipe = [s \in Servers |-> <<>>]
    /\ buf = [s \in Servers |-> <<>>]
    /\ call = NoCall
    /\ troubles = 0

-----------------------------------------------------------------------------
(* A client and its process: spawned with empty pipes and its first        *)
(* request sent; gone.                                                     *)
Spawn(s, method) ==
    /\ proc' = [proc EXCEPT ![s] = "up"]
    /\ nextId' = [nextId EXCEPT ![s] = 2]
    /\ toServer' = [toServer EXCEPT ![s] = <<Message(1, method, NoDoc)>>]
    /\ pipe' = [pipe EXCEPT ![s] = <<>>]
    /\ buf' = [buf EXCEPT ![s] = <<>>]
    /\ call' = Call(s, 1, method, NoDoc, "decode", Failure)
    /\ UNCHANGED troubles

Gone(S) ==
    /\ proc' = [s \in Servers |-> IF s \in S THEN "none" ELSE proc[s]]
    /\ toServer' = [s \in Servers |-> IF s \in S THEN <<>> ELSE toServer[s]]
    /\ pipe' = [s \in Servers |-> IF s \in S THEN <<>> ELSE pipe[s]]
    /\ buf' = [s \in Servers |-> IF s \in S THEN <<>> ELSE buf[s]]
    /\ nextId' = [s \in Servers |-> IF s \in S THEN 1 ELSE nextId[s]]
    /\ call' = NoCall
    /\ UNCHANGED troubles

(* request(): the notes a caller sent just before, then the request.  To a *)
(* process that is gone neither can be written.                            *)
Request(s, notes, method, doc) ==
    LET id == nextId[s] IN
    /\ nextId' = [nextId EXCEPT ![s] = id + 1]
    /\ IF proc[s] = "up"
       THEN /\ toServer' = [toServer EXCEPT ![s] = @ \o Append(notes, Message(id, method, doc))]
            /\ call' = Call(s, id, method, doc, "decode", Failure)
       ELSE /\ call' = Call(s, id, method, doc, "done", Failure)
            /\ UNCHANGED toServer
    /\ UNCHANGED <<proc, pipe, buf, troubles>>

(* notify() to a process that is there.                                    *)
Notify(s, method, doc) ==
    /\ proc[s] = "up"
    /\ toServer' = [toServer EXCEPT ![s] = Append(@, Note(method, doc))]
    /\ UNCHANGED <<proc, nextId, pipe, buf, call, troubles>>

-----------------------------------------------------------------------------
(* recv(): frames are decoded from read_buf while it has a whole one, then *)
(* the pipe is waited for and read.                                        *)
Incoming == buf[call.server]
Undecodable == {"badBody", "badHeader"}

NeedsMore ==
    /\ call.step = "decode"
    /\ \/ Incoming = <<>> /\ UNCHANGED buf
       \/ /\ Incoming # <<>> /\ Head(Incoming).kind \in Undecodable
          /\ buf' = [buf EXCEPT ![call.server] =
                        IF Head(Incoming).kind = "badHeader" THEN @ ELSE Tail(@)]
    /\ call' = [call EXCEPT !.step = "wait"]
    /\ UNCHANGED <<proc, nextId, toServer, pipe, troubles>>

Read ==
    /\ call.step = "wait"
    /\ \E n \in 1..Len(pipe[call.server]) :
          /\ buf' = [buf EXCEPT ![call.server] = @ \o SubSeq(pipe[call.server], 1, n)]
          /\ pipe' = [pipe EXCEPT ![call.server] = SubSeq(@, n + 1, Len(@))]
    /\ call' = [call EXCEPT !.step = "decode"]
    /\ UNCHANGED <<proc, nextId, toServer, troubles>>

(* Mutant: the end of the pipe is taken for no bytes yet.                  *)
EndOfFileIsRetried ==
    /\ call.step = "wait"
    /\ pipe[call.server] = <<>> /\ proc[call.server] = "dead"
    /\ call' = [call EXCEPT !.step = "decode"]
    /\ UNCHANGED <<proc, nextId, toServer, pipe, buf, troubles>>
EndOfFile ==
    /\ call.step = "wait"
    /\ pipe[call.server] = <<>> /\ proc[call.server] = "dead"
    /\ call' = [call EXCEPT !.step = "done"]
    /\ UNCHANGED <<proc, nextId, toServer, pipe, buf, troubles>>

(* The loop of request(): what is not the answer is skipped - a server's   *)
(* own request too, which nobody answers - and a notification is kept.     *)
(* Mutant: the number of a response is not looked at.                      *)
IsAResponse(m) == m.kind \in {"result", "error"}
Matches(m) == m.kind \in {"result", "error"} /\ m.id = call.id

TakeFrame ==
    /\ call.step = "decode"
    /\ Incoming # <<>> /\ Head(Incoming).kind \notin Undecodable
    /\ buf' = [buf EXCEPT ![call.server] = Tail(@)]
    /\ LET m == Head(Incoming) IN
       call' = IF Matches(m) THEN [call EXCEPT !.step = "done", !.reply = m]
               ELSE IF m.kind = "badJson" THEN [call EXCEPT !.step = "done"]
               ELSE call
    /\ UNCHANGED <<proc, nextId, toServer, pipe, troubles>>

ClientStep == NeedsMore \/ Read \/ EndOfFile \/ TakeFrame

-----------------------------------------------------------------------------
(* The servers, external: what they may do wrong, or unasked.              *)
Reply(s, frames) == pipe' = [pipe EXCEPT ![s] = @ \o frames]

TroubleKinds(s) == {"badJson", "badBody"} \cup IF s \in ContentLength THEN {"badHeader"} ELSE {}

GoesWrong(s) ==
    /\ proc[s] = "up"
    /\ troubles < MaxTroubles
    /\ troubles' = troubles + 1
    /\ \/ \E kind \in TroubleKinds(s) : Reply(s, <<Trouble(kind)>>) /\ UNCHANGED proc
       \/ \E id \in 1..2 : Reply(s, <<Frame("request", id, "ask", NoDoc, FALSE)>>) /\ UNCHANGED proc
       \/ proc' = [proc EXCEPT ![s] = "dead"] /\ UNCHANGED pipe
    /\ UNCHANGED <<nextId, toServer, buf, call>>

-----------------------------------------------------------------------------
(***************************************************************************)
(* A request gets the answer to itself: never one that was on its way to a *)
(* request that had failed, nor a question of the server with its number.  *)
(***************************************************************************)
AnswersMatchRequests ==
    call.step = "done" /\ call.reply.kind \in {"result", "error", "request"} =>
        call.reply.method = call.method /\ call.reply.doc.file = call.doc.file

(* A frame was read and lies in read_buf while more bytes are waited for.  *)
FrameIsStuck == call.step = "wait" /\ Incoming # <<>>

=============================================================================
