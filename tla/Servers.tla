------------------------------ MODULE Servers ------------------------------
(***************************************************************************)
(* The MCP and language servers of a session, from Agent::new to its       *)
(* shutdown (McpManager, LspManager, the tools over them and the parts of  *)
(* agent.rs that use them).  MCP servers are started and asked for what    *)
(* they offer at the start, language servers when a file first needs one.  *)
(* An edit is announced to a language server only after all the tools of   *)
(* the round have run.                                                     *)
(*                                                                         *)
(* Everything here runs on the agent thread; concurrency is with the       *)
(* servers.  Texts are numbered by the edits of the file.                  *)
(***************************************************************************)
EXTENDS JsonRpc

CONSTANTS
    McpServers,  \* configured MCP servers, in order
    LspOf,       \* the language server that handles each file
    MaxEdits,    \* bound: edits of all files
    MaxUses,     \* bound: other uses of the servers
    MaxPages     \* bound: nextCursors that a server gives

Files == DOMAIN LspOf
LspServers == {LspOf[f] : f \in Files}
Lists == <<"tools/list", "resources/list", "prompts/list">>

ASSUME ServersAssumption ==
    /\ McpServers \in Seq(Servers) /\ LspServers \subseteq Servers
    /\ LspServers \cap ToSet(McpServers) = {}
    /\ ContentLength = LspServers
    /\ "none" \notin Files
    /\ MaxTroubles \in Nat /\ MaxEdits \in Nat /\ MaxUses \in Nat /\ MaxPages \in Nat \ {0}

VARIABLES
    pc,         \* what the agent thread is doing
    toConnect,  \* MCP servers still to be connected
    handles,    \* McpManager.servers
    started,    \* LspManager.servers that hold a client
    opened,     \* LspManager.open_documents: version of each file, or 0
    goal,       \* the language server tool being executed
    disk,       \* text of each file
    edited,     \* files edited in this round, in order, still to be announced
    roundText,  \* text of each file when the round began
    docs,       \* language servers' view of their documents
    uses,       \* uses of the servers so far
    strays      \* processes that were started and that no client knows

lspVars == <<started, opened, goal>>
diskVars == <<disk, edited, roundText>>
mgrVars == <<pc, toConnect, handles, lspVars, diskVars, uses, strays>>
vars == <<rpcVars, mgrVars, docs>>

Goal(op, f, text) == [op |-> op, file |-> f, text |-> text]
NoGoal == Goal("none", "none", 0)

Init ==
    /\ RpcInit
    /\ pc = "connect" /\ toConnect = McpServers
    /\ handles = {} /\ started = {}
    /\ opened = [f \in Files |-> 0]
    /\ goal = NoGoal
    /\ disk = [f \in Files |-> 0]
    /\ edited = <<>> /\ roundText = disk
    /\ docs = [f \in Files |-> NoDoc]
    /\ uses = 0 /\ strays = 0

(* A client is dropped: its pipes close, its process is not killed.        *)
Dropped(S) ==
    /\ strays' = strays + Cardinality({s \in S : proc[s] = "up"})
    /\ Gone(S)

Answered(at) == pc = at /\ call.step = "done"

-----------------------------------------------------------------------------
(* McpManager::from_config: one server after the other is spawned,         *)
(* initialized and asked for its lists.  A list that fails counts as       *)
(* empty, any failure before as no server.                                 *)
Connecting == pc = "connect" /\ toConnect # <<>>

SpawnMcp ==
    /\ Connecting
    /\ Spawn(Head(toConnect), "initialize")
    /\ pc' = "mcpInit"
    /\ UNCHANGED <<toConnect, handles, lspVars, diskVars, docs, uses, strays>>

SpawnMcpFails ==
    /\ Connecting
    /\ toConnect' = Tail(toConnect)
    /\ UNCHANGED <<rpcVars, pc, handles, lspVars, diskVars, docs, uses, strays>>

McpInitialized ==
    /\ Answered("mcpInit") /\ Succeeded
    /\ LET s == Head(toConnect) IN
       /\ proc[s] = "up"
       /\ Request(s, <<Note("initialized", NoDoc)>>, Lists[1], NoDoc)
    /\ pc' = "mcpList"
    /\ UNCHANGED <<toConnect, handles, lspVars, diskVars, docs, uses, strays>>

McpInitFails ==
    /\ Answered("mcpInit")
    /\ ~Succeeded \/ proc[Head(toConnect)] = "dead"
    /\ Dropped({Head(toConnect)})
    /\ toConnect' = Tail(toConnect)
    /\ pc' = "connect"
    /\ UNCHANGED <<handles, lspVars, diskVars, docs, uses>>

McpNextPage ==
    /\ Answered("mcpList") /\ Succeeded /\ call.reply.more
    /\ Request(Head(toConnect), <<>>, call.method, NoDoc)
    /\ UNCHANGED <<mgrVars, docs>>

McpListed ==
    /\ Answered("mcpList")
    /\ ~Succeeded \/ ~call.reply.more
    /\ LET s == Head(toConnect)
           i == CHOOSE n \in DOMAIN Lists : Lists[n] = call.method
       IN  IF i < Len(Lists)
           THEN /\ Request(s, <<>>, Lists[i + 1], NoDoc)
                /\ UNCHANGED <<pc, toConnect, handles>>
           ELSE /\ handles' = handles \cup {s}
                /\ toConnect' = Tail(toConnect)
                /\ pc' = "connect"
                /\ UNCHANGED rpcVars
    /\ UNCHANGED <<lspVars, diskVars, docs, uses, strays>>

Ready ==
    /\ pc = "connect" /\ toConnect = <<>>
    /\ pc' = "round"
    /\ UNCHANGED <<rpcVars, toConnect, handles, lspVars, diskVars, docs, uses, strays>>

-----------------------------------------------------------------------------
(* The tools of a round, one after the other.  A tool whose server failed  *)
(* reports an error and the round goes on.                                 *)
Use == pc = "round" /\ uses < MaxUses /\ uses' = uses + 1

CallMcp(s) ==
    /\ Use
    /\ s \in handles
    /\ Request(s, <<>>, "tools/call", NoDoc)
    /\ pc' = "mcpCall"
    /\ UNCHANGED <<toConnect, handles, lspVars, diskVars, docs, strays>>

McpCalled ==
    /\ Answered("mcpCall")
    /\ pc' = "round"
    /\ UNCHANGED <<rpcVars, toConnect, handles, lspVars, diskVars, docs, uses, strays>>

(* ensure_file_open reads the file, then starts its server if it has none, *)
(* announces the file if it is not open, and the tool goes on.             *)
UseLsp(op, f) ==
    /\ Use
    /\ goal' = Goal(op, f, disk[f])
    /\ pc' = "open"
    /\ UNCHANGED <<rpcVars, toConnect, handles, started, opened, diskVars, docs, strays>>

Lsp == LspOf[goal.file]

ToolEnds(at) ==
    /\ pc = at
    /\ pc' = "round" /\ goal' = NoGoal

StartLsp ==
    /\ pc = "open" /\ Lsp \notin started
    /\ Spawn(Lsp, "initialize")
    /\ pc' = "lspInit"
    /\ docs' = [f \in Files |-> IF LspOf[f] = Lsp THEN NoDoc ELSE docs[f]]
    /\ UNCHANGED <<toConnect, handles, lspVars, diskVars, uses, strays>>

StartLspFails ==
    /\ pc = "open" /\ Lsp \notin started
    /\ ToolEnds("open")
    /\ UNCHANGED <<rpcVars, toConnect, handles, started, opened, diskVars, docs, uses, strays>>

LspInitialized ==
    /\ Answered("lspInit") /\ Succeeded
    /\ Notify(Lsp, "initialized", NoDoc)
    /\ started' = started \cup {Lsp}
    /\ pc' = "open"
    /\ UNCHANGED <<toConnect, handles, opened, goal, diskVars, docs, uses, strays>>

LspInitFails ==
    /\ ToolEnds("lspInit") /\ call.step = "done"
    /\ ~Succeeded \/ proc[Lsp] = "dead"
    /\ Dropped({Lsp})
    /\ UNCHANGED <<toConnect, handles, started, opened, diskVars, docs, uses>>

DidOpen ==
    /\ pc = "open" /\ Lsp \in started /\ opened[goal.file] = 0
    /\ Notify(Lsp, "didOpen", Doc(goal.file, 1, goal.text))
    /\ opened' = [opened EXCEPT ![goal.file] = 1]
    /\ UNCHANGED <<pc, toConnect, handles, started, goal, diskVars, docs, uses, strays>>

DidOpenFails ==
    /\ pc = "open" /\ Lsp \in started /\ opened[goal.file] = 0 /\ proc[Lsp] = "dead"
    /\ ToolEnds("open")
    /\ UNCHANGED <<rpcVars, toConnect, handles, started, opened, diskVars, docs, uses, strays>>

FileIsOpen == pc = "open" /\ Lsp \in started /\ opened[goal.file] > 0

Query ==
    /\ FileIsOpen /\ goal.op = "query"
    /\ Request(Lsp, <<>>, "query", Doc(goal.file, 0, 0))
    /\ pc' = "lspQuery"
    /\ UNCHANGED <<toConnect, handles, lspVars, diskVars, docs, uses, strays>>

(* LspDiagnostics asks nothing: it reports what earlier requests received. *)
ReportDiagnostics ==
    /\ FileIsOpen /\ goal.op = "diagnostics"
    /\ ToolEnds("open")
    /\ UNCHANGED <<rpcVars, toConnect, handles, started, opened, diskVars, docs, uses, strays>>

Queried ==
    /\ ToolEnds("lspQuery") /\ call.step = "done"
    /\ UNCHANGED <<rpcVars, toConnect, handles, started, opened, diskVars, docs, uses, strays>>

Edit(f) ==
    /\ pc = "round"
    /\ FoldFunction(LAMBDA a, b : a + b, 0, disk) < MaxEdits
    /\ disk' = [disk EXCEPT ![f] = @ + 1]
    /\ edited' = Append(edited, f)
    /\ UNCHANGED <<rpcVars, pc, toConnect, handles, lspVars, roundText, docs, uses, strays>>

-----------------------------------------------------------------------------
(* The results are complete: each edit is announced with a new version and *)
(* the text now on the disk, if the file is open.  An announcement that    *)
(* cannot be written has its version all the same.                         *)
(* Mutant: edits are forgotten at the end of the round.                    *)
ToolsDoneUnannounced ==
    /\ pc = "round" /\ edited # <<>>
    /\ edited' = <<>> /\ roundText' = disk
    /\ UNCHANGED <<rpcVars, pc, toConnect, handles, lspVars, disk, docs, uses, strays>>

ToolsDone ==
    /\ pc = "round"
    /\ pc' = "notify"
    /\ UNCHANGED <<rpcVars, toConnect, handles, lspVars, diskVars, docs, uses, strays>>

(* Mutant: the new version is sent and not noted.                          *)
DidChangeForgetsVersion ==
    /\ pc = "notify" /\ edited # <<>>
    /\ edited' = Tail(edited)
    /\ LET f == Head(edited) IN
       IF opened[f] > 0 /\ proc[LspOf[f]] = "up"
       THEN Notify(LspOf[f], "didChange", Doc(f, opened[f] + 1, disk[f]))
       ELSE UNCHANGED rpcVars
    /\ UNCHANGED <<pc, toConnect, handles, lspVars, disk, roundText, docs, uses, strays>>

DidChange ==
    /\ pc = "notify" /\ edited # <<>>
    /\ edited' = Tail(edited)
    /\ LET f == Head(edited) IN
       IF opened[f] = 0 THEN UNCHANGED <<rpcVars, opened>>
       ELSE /\ opened' = [opened EXCEPT ![f] = @ + 1]
            /\ IF proc[LspOf[f]] = "up"
               THEN Notify(LspOf[f], "didChange", Doc(f, opened[f] + 1, disk[f]))
               ELSE UNCHANGED rpcVars
    /\ UNCHANGED <<pc, toConnect, handles, started, goal, disk, roundText, docs, uses, strays>>

NewRound ==
    /\ pc = "notify" /\ edited = <<>>
    /\ pc' = "round"
    /\ roundText' = disk
    /\ UNCHANGED <<rpcVars, toConnect, handles, lspVars, disk, edited, docs, uses, strays>>

-----------------------------------------------------------------------------
(* Agent::shutdown: MCP servers are killed; language servers are asked to  *)
(* shut down, told to exit and killed.  One that does not answer properly  *)
(* is dropped.                                                             *)
(* Mutant: the MCP clients are dropped and not killed.                     *)
QuitWithoutKilling ==
    /\ pc = "round" /\ edited = <<>>
    /\ handles' = {}
    /\ pc' = "closeLsp"
    /\ UNCHANGED <<rpcVars, toConnect, lspVars, diskVars, docs, uses, strays>>

Quit ==
    /\ pc = "round" /\ edited = <<>>
    /\ Gone(handles)
    /\ handles' = {}
    /\ pc' = "closeLsp"
    /\ UNCHANGED <<toConnect, lspVars, diskVars, docs, uses, strays>>

ShutdownLsp ==
    /\ pc = "closeLsp"
    /\ \E s \in started : Request(s, <<>>, "shutdown", NoDoc)
    /\ pc' = "lspShutdown"
    /\ UNCHANGED <<toConnect, handles, lspVars, diskVars, docs, uses, strays>>

LspIsShutDown ==
    /\ Answered("lspShutdown")
    /\ IF Succeeded /\ proc[call.server] = "up" THEN Gone({call.server}) /\ UNCHANGED strays
       ELSE Dropped({call.server})
    /\ started' = started \ {call.server}
    /\ pc' = "closeLsp"
    /\ UNCHANGED <<toConnect, handles, opened, goal, diskVars, docs, uses>>

AllShutDown ==
    /\ pc = "closeLsp" /\ started = {}
    /\ opened' = [f \in Files |-> 0]
    /\ pc' = "over"
    /\ UNCHANGED <<rpcVars, toConnect, handles, started, goal, diskVars, docs, uses, strays>>

(* run() ends without shutdown(): evolve failed or the UI is gone.         *)
LeaveWithoutShutdown ==
    /\ pc = "round"
    /\ Dropped(handles \cup started)
    /\ handles' = {} /\ started' = {}
    /\ pc' = "left"
    /\ UNCHANGED <<toConnect, opened, goal, diskVars, docs, uses>>

-----------------------------------------------------------------------------
(* The servers, external: requests are answered in order, each once, with  *)
(* what the server knows of the document; an error answer is a trouble.    *)
Result(m, more) ==
    LET doc == IF m.doc.file \in Files THEN docs[m.doc.file] ELSE m.doc
    IN  Frame("result", m.id, m.method, [doc EXCEPT !.file = m.doc.file], more)

Serve(s) ==
    /\ proc[s] = "up" /\ toServer[s] # <<>>
    /\ toServer' = [toServer EXCEPT ![s] = Tail(@)]
    /\ LET m == Head(toServer[s]) IN
       \/ /\ m.id # 0
          /\ \E more \in IF m.method \in ToSet(Lists) /\ nextId[s] < 3 + MaxPages
                         THEN BOOLEAN ELSE {FALSE} :
                Reply(s, <<Result(m, more)>>)
          /\ UNCHANGED <<docs, troubles>>
       \/ /\ m.id # 0 /\ troubles < MaxTroubles
          /\ Reply(s, <<Frame("error", m.id, m.method, m.doc, FALSE)>>)
          /\ troubles' = troubles + 1
          /\ UNCHANGED docs
       \/ /\ m.id = 0
          /\ docs' = IF m.doc.file \in Files THEN [docs EXCEPT ![m.doc.file] = m.doc] ELSE docs
          /\ \E published \in BOOLEAN :
                IF published /\ m.doc.file \in Files
                THEN Reply(s, <<Frame("notification", 0, "publishDiagnostics", m.doc, FALSE)>>)
                ELSE UNCHANGED pipe
          /\ UNCHANGED troubles
    /\ UNCHANGED <<proc, nextId, buf, call, mgrVars>>

SomethingGoesWrong(s) == GoesWrong(s) /\ UNCHANGED <<mgrVars, docs>>

-----------------------------------------------------------------------------
Receive == ClientStep /\ UNCHANGED <<mgrVars, docs>>

(* The session is over, or the agent waits for bytes that need never come. *)
Over == (pc \in {"over", "left"} \/ FrameIsStuck) /\ UNCHANGED vars

Next ==
    \/ SpawnMcp \/ SpawnMcpFails \/ McpInitialized \/ McpInitFails \/ McpNextPage \/ McpListed \/ Ready
    \/ \E s \in Servers : CallMcp(s)
    \/ McpCalled
    \/ \E op \in {"query", "diagnostics"}, f \in Files : UseLsp(op, f)
    \/ StartLsp \/ StartLspFails \/ LspInitialized \/ LspInitFails
    \/ DidOpen \/ DidOpenFails \/ Query \/ ReportDiagnostics \/ Queried
    \/ \E f \in Files : Edit(f)
    \/ ToolsDone \/ DidChange \/ NewRound
    \/ Quit \/ ShutdownLsp \/ LspIsShutDown \/ AllShutDown \/ LeaveWithoutShutdown
    \/ Receive
    \/ \E s \in Servers : Serve(s) \/ SomethingGoesWrong(s)
    \/ Over

Spec == Init /\ [][Next]_vars

(* Fairness: the agent thread goes on receiving, and a server that lives   *)
(* answers what it is sent.                                                *)
FairSpec == Spec /\ WF_vars(Receive) /\ \A s \in Servers : WF_vars(Serve(s))

-----------------------------------------------------------------------------
(***************************************************************************)
(* A living language server and the manager agree on every open document:  *)
(* once the server has read what is on its way it knows the version that   *)
(* the manager noted and the text on the disk, but for edits still to be   *)
(* announced; it is told of the opening once and first, and each change    *)
(* raises the version by one.                                              *)
(***************************************************************************)
Announces(m, f) == m.id = 0 /\ m.doc.file = f

(* What is known of f after the first n messages of q, if it was doc.      *)
KnownAfter(q, n, f, doc) ==
    LET told == {i \in 1..n : Announces(q[i], f)}
    IN  IF told = {} THEN doc ELSE q[Max(told)].doc
Known(f, n) == KnownAfter(toServer[LspOf[f]], n, f, docs[f])

DocumentsAreInStep ==
    \A f \in Files : proc[LspOf[f]] = "up" =>
        LET q == toServer[LspOf[f]] IN
        /\ Known(f, Len(q)).version = opened[f]
        /\ opened[f] > 0 /\ f \notin ToSet(edited) => Known(f, Len(q)).text = disk[f]
        /\ \A i \in DOMAIN q : Announces(q[i], f) =>
              /\ q[i].doc.version = Known(f, i - 1).version + 1
              /\ (q[i].method = "didOpen") <=> (q[i].doc.version = 1)

(***************************************************************************)
(* The answer to a query is about a text at least as new as the file was   *)
(* when the round began: edits of earlier rounds are never missed.  Those  *)
(* of the same round are, since they are announced after its last tool.    *)
(***************************************************************************)
QueriesSeeThisRoundsText ==
    Answered("lspQuery") /\ Succeeded => call.reply.doc.text >= roundText[goal.file]

(***************************************************************************)
(* The language servers work on the text on the disk, but for edits that   *)
(* are still to be announced to them.                                      *)
(***************************************************************************)
ServersSeeTheDisk == DocumentsAreInStep /\ QueriesSeeThisRoundsText

(***************************************************************************)
(* A session in which no server misbehaves and that is shut down leaves no *)
(* process behind.  (After a failed initialize or a failed shutdown, or    *)
(* when run() ends without shutdown(), the processes are never killed.)    *)
(***************************************************************************)
NoProcessIsLeft ==
    pc = "over" /\ troubles = 0 => strays = 0 /\ \A s \in Servers : proc[s] = "none"

(***************************************************************************)
(* Every request comes to an end when a living server answers: with its    *)
(* answer, or with an error when the server dies or sends nonsense.  One   *)
(* thing stands in the way: a frame that cannot be decoded makes recv()    *)
(* wait for more bytes although a whole frame lies in read_buf.            *)
(***************************************************************************)
RequestsEnd == Receiving ~> ~Receiving \/ FrameIsStuck

=============================================================================
