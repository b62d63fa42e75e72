# A verification of viv

viv is a terminal coding assistant: a text user interface on one thread, an
agent that talks to a language model and runs tools on another, on an
asynchronous runtime, a TLS stack and protocol clients of its own. This
directory models the parts of it whose correctness depends on the order in
which things happen, and the algorithms over cut, nested or bounded input on
which the rest relies; it checks them with TLC on small instances and proves the
most important results with TLAPS for every value of the constants.

    tlc -workers 2 -config session.cfg MCVivSession      one run
    tlc -workers 2 -config local.cfg MCLocal             (two to three minutes)
    tlapm AgentLoop_proofs.tla                           one module of proofs

PROJECT.json lists the runs, the mutants that show each property can fail, the
source lines each definition stands for, the hazards and the theorems.

## The system

| component | state | operations | talks to |
|---|---|---|---|
| program (`main.rs`) | the two threads and their channels | start, join | agent, UI |
| protocol (`agent/protocol.rs`, `permissions/manager.rs`) | messages; tools allowed this session | send, receive; is_allowed, allow | agent, UI |
| agent loop (`agent/agent.rs`, `agent/message.rs`, `memory/compaction.rs`) | conversation, grants, round, uses of the reply in hand | run, handle_input, agentic_loop, check_permission, compact_if_needed, shutdown | LLM, tools, servers, memory, UI |
| UI session (`tui/terminal.rs` run, `tui/session.rs`, `tui/live_region.rs`, `tui/permission.rs`, `tui/content.rs`) | busy, quitting, pending permission, live blocks, Markdown held back | drain messages, render, handle keys | agent, editor |
| sub-agent tool (`tools/sub_agent.rs`, `core/runtime/join.rs`) | the child loop, the monitor, the text collected | run_sub_agent | a second agent loop |
| async channel (`core/runtime/channel.rs`, `notifier.rs`) | queue, pipe, reference count, registration | send, clone, drop, recv, poll | reactor, executor |
| io_uring reactor (`platform/unix/io_uring.rs`) | submission queue, wakers, tokens | register, deregister, poll | kernel, executor |
| executor, tasks, timers (`core/runtime/*`, `core/net/tcp.rs`) | ready queue, tasks, tokens of waiting futures | spawn, run_ready, block_on, block_on_local, wake | all futures, reactor |
| LLM client (`llm/mod.rs`) | the stream read so far, the blocks under construction | stream_agent_async | network, agent loop |
| MCP and LSP clients and servers (`mcp/*`, `lsp/*`) | processes, next request id, open documents and versions | connect, request, notify, shutdown | child processes, agent loop |
| memory (`memory/*`, `agent/evolution.rs`) | index file, episodes, knowledge | retrieve, add, save, evolve | file system, LLM |
| live region (`tui/live_region.rs`, `terminal.rs` render_frame, `ansi_serialize.rs`) | live blocks, rows of the last frame | commit, paint, clear | terminal |
| VT simulator (`core/terminal/simulator.rs`) | cells, cursor, parser state | feed bytes | the live region's tests |
| terminal input (`core/terminal/input.rs`, `events.rs`, `platform/unix/terminal.rs`) | parser buffer, self-pipe, raw mode | read, parse, poll, restore | terminal, UI session |
| line editor (`tui/terminal.rs` LineEditor) | lines, cursor, mode, history, search | handle_key | UI session |
| tools (`tools/*`) | files, child processes, todo list | execute | file system, network |
| network and TLS (`core/net/*`) | handshake state, keys, record buffers | connect, read, write, drop | kernel, LLM client |
| JSON (`core/json.rs`) | none | parse, print | everybody |
| QR code (`tui/qrcode/*`) | none | encode, build, draw | a library widget, not shown yet |
| cryptography, Windows platform, logging, configuration, skills | keys, settings | pure functions, reading of files | TLS, agent |

### What is hard here

* **Two threads, two queues, no acknowledgements.** The UI draws its picture of
  the agent from messages that are already old; the agent takes events that
  were sent when the screen showed something else. A permission answer names no
  tool. An Interrupt is read only at two places, and means something at one.
* **A conversation with a grammar.** The API refuses a conversation in which a
  tool use is not followed by its result or a result has no use. Uses are
  answered by many paths (denied, unknown, failed, run alone, run side by side)
  and compaction cuts the conversation by a count.
* **A hand-written runtime.** Wake-ups pass through a pipe, a one-shot
  registration and a bounded submission queue; a lost one hangs a task for
  ever. A future that blocks in its poll stops every other future.
* **Input that comes in pieces.** Keys, server-sent events, TLS records, JSON-RPC
  frames and escape sequences are cut anywhere by the reads that bring them.
* **A screen drawn by arithmetic.** The live region counts rows to know what to
  erase; a count that is off by one eats the conversation above it.
* **Files several programs write.** Two agents share one memory index, and an
  editor may write the file a tool has just read.
* **Endings.** Quit from the editor, `/exit`, a forced exit, a failed evolve
  step, either side's return: the other side has to notice each time, and
  main() has to get its join() back.

Per component, what makes it correct: the *agent loop* never leaves a use unanswered
or a result without its use, asks before it runs what needs asking, and returns when
told to or when its UI is gone; the *UI* shows what the agent is doing, can be used
to answer an agent that waits for it as long as the user has not quit, commits the
text it held back; the *program* ends when either side does; the *sub-agent* returns
the child's whole answer; the *channel* delivers every value and its end; the
*reactor* wakes what is ready and nothing else; the *executor* polls every woken
task; the *clients* match answers to requests; a *TLS* connection understands what
an honest server sends in the packings named below; *Bash* reports what its command
did; the *memory* forgets nothing it saved; the *live region* is on the screen
exactly once and the conversation stays above it; the *keys* that are typed arrive;
the *editor*'s cursor stays on its text and the draft comes back; *edits* replace
what they were asked to, or do not begin to write; *JSON*, *glob patterns*, *pages*
and *QR codes* mean what their definitions say, up to the exceptions listed at the
end.

## The modules

| module | models | state | actions |
|---|---|---|---|
| `Protocol` | the two channels | `eventQ`, `msgQ`, which ends exist | `Send`, `SendEvent` |
| `AgentLoop` | the agent thread, against any peer | program counter, conversation, grants, uses | one per segment of code between two awaits |
| `TuiSession` | the UI thread | `busy`, `quitting`, `pending`, `blocks`, `parser` | one per message, key and phase of the loop |
| `VivSession` | `main.rs`: both threads | both | either thread's |
| `SubAgent` | `run_sub_agent`: a child `AgentLoop` and its monitor under one Join | who is being polled | child, monitor, wake |
| `Channel` | what a channel promises | a queue | one per operation |
| `AsyncChannel` | the channel of `channel.rs`, step by step | queue, handles, count, pipe, registration | one per atomic step |
| `IoUring` | the reactor and the kernel's side of the ring | submissions, wakers, completions | register, deregister, poll, kernel |
| `Runtime` | one thread's driver, its tasks and the leaf futures they wait on | ready queue, leaves, registrations, submissions | poll of each kind of leaf, run_ready, wait |
| `JsonRpc` | the request loop of `McpClient` and `LspClient` over `StdioTransport` | processes, pipes, `read_buf`, next id, the request in flight | request, notify, one per branch of recv() |
| `Servers` | the MCP and LSP managers and the tools over them, against their servers | handles, started servers, open documents and versions, texts on disk | connect, start on demand, open, query, announce edits, shut down |
| `LlmStream` | one request to the model: `stream_agent_async`, `SseParser`, `StreamAccumulator` | bytes not yet read, parser buffer, blocks under construction | one per kind of read, close |
| `Tls` | `TlsStream`: both handshakes, records, read, write, drop, against a server | client, server, records under way, plaintext | client: one per record taken or call made; server: one per answer |
| `Bash` | the Bash tool, its shell and the clock | where execute() is, pipe, shell, what the shell left behind | start, try_wait, kill, sleep, read; write, end; tick |
| `Memory` | the store, the index, retrieval and evolve() for several agents | files, index file, each agent's index | start, recall, end, extract, write, save in two steps, break off |
| `Files` | Edit, MultiEdit and Write beside another program | file, what was read, what is to be written, how far fs::write is | read and edit, truncate, store, fail, cut off, other |
| `Screen` over `Vt` | the live region and the frame on a terminal with scrollback | terminal, blocks, rows of the last frame | add, finish, commit, edit, render, cleanup |
| `VtParser` over `Vt` | the VT simulator byte by byte | terminal, parser | feed |
| `TermInput` | raw mode, the key parser and the resize pipe | bytes, events, sizes, where the UI thread is | press, read, resize, handler, drain, leave |
| `Editor` | the line editor key by key | lines, cursor, mode, history, search | one per key |
| `Json`, `JsonText` | reader and printer; every small text | a text | type a symbol |
| `Glob` | the walk of a tree along a pattern | tree, pattern | add a segment |
| `Html` | the conversion of a page to text | page | add a piece |
| `Qr` | a text to codewords, modules, characters | the stage and its result | encode, place, build, draw |
| `Subsequences` | `Vec::retain`: what is left of a sequence, by positions | | |
| `AgentLoop_proofs`, `VivSession_proofs`, `SubAgent_proofs`, `Reactor_proofs` (of `AsyncChannel`, `IoUring` and `Runtime`), `Peers_proofs` (of `Tls` and of `Bash`), `Servers_proofs`, `Local_proofs` (of `TermInput` and of `Editor`) | | | theorems |
| `SequenceLemmas` | the elements of a sequence that is built, read, cut or thinned out, and how many of them are of a kind | | lemmas for the proofs |
| `MCVivSession`, `MCSubAgent`, `MCAsyncChannel` | | | one machine each, for TLC |
| `MCAsync`, `MCPeers`, `MCLocal` | | | several machines, of which a behaviour runs one |

Who composes whom: `VivSession` is `AgentLoop` and `TuiSession` over `Protocol`;
`SubAgent` is a second `AgentLoop` with its monitor; `Servers` extends `JsonRpc`;
`Screen` draws on `Vt`; `Memory` keeps its index with `Json`. `LlmStream` returns
the replies that `AgentLoop` takes as a constant, and `Tls` carries its bytes.

**AgentLoop.** `pc` says where the thread stands: `idle` is `recv().await` of
`run()`; `retrieving`, `compacting`, `streaming` are the awaits of
`handle_input` and `agentic_loop`; `tools`, `asking`, `executing` are the
execution of a reply; `evolving`, `closingMcp`, `closingLsp` are `shutdown()`.
A segment that sends several messages sends them in one step, since nothing the
agent does depends on the UI seeing one of them early. `status` follows each
use of the reply: an ordinary use goes from `todo` through `running` to
`answered`; an Agent use is `approved` or `refused` when it is decided,
`running` once started, `finished` when its future is done, and `answered` when
the batch is reported. The LLM, the tools and the servers are the outcomes the
code tells apart. The *peer* is open: `PeerSends`, `PeerReceives` and
`PeerLeaves` allow every behaviour of a user interface, so a theorem about
`LoopSpec` holds for any UI; that the real UI (`VivSession`) and the monitor of
a sub-agent (`SubAgent`) are such peers is the property `IsAgentLoop`.

**TuiSession.** `uiPc` separates the two halves of a pass of
`TerminalUI::run`: messages are drained one by one until none is found, then
the frame is painted and keys are handled, while more messages may arrive. The
text of a chunk is a piece of a line: text, blanks, backticks that are not yet a
fence, a fence, with or without the line break (`ChunkKinds`). The parser holds the
line as the pieces join to one (`Line`): the fence is looked for on the whole line
when it is complete, so backticks and more backticks make one, and a blank and text
make text. `Completed` and `Flushed` say which block, if any, comes of it.
A tool block remembers the use it was started for and the use whose result it
got; the code keeps name and output there. `answers` and `interrupts` are
history variables, read by properties only.

**AsyncChannel.** `send` is push then notify; `drop` of a handle is
decrement, notify if last, then (Rust drops fields after `drop()` returns) drop
of the mpsc sender; a poll is drain, try_recv, register, and the registration may be
refused (`RegisterFails`: no reactor, or its submission queue is full), which makes
recv() an Err though the channel is open. `Channel` has such an ending too (`Fail`):
the values stay, and a caller may call recv() again. `Consumer` tells a
spawned task, polled again only when woken, from a future under
`block_on_local`, which polls again after every wait.

**IoUring.** Registration, removal and the timeout compete for a bounded
submission queue. The kernel is an external component, modelled from how the
code uses it; `ready` and `woken` are history.

**Runtime.** The three drivers (`block_on_local` of the agent thread,
`block_on`, the `Runtime` thread) differ in when they poll, and the leaf futures
in what they take a second poll for: a socket read tries again, a pipe wait and
a sleep take it for their wake-up. A task joins its leaves. `regs` counts the
registrations armed for a leaf's handle and `held` says whether the future
still has the token of one, so a forgotten token is visible; a POLL_REMOVE and
the TIMEOUT take room in the submission queue as in `IoUring`. Under
`block_on_local` wakers have no effect.

**JsonRpc, Servers.** The clients differ in framing only, so one request loop
serves both. Every client lives on the agent thread and a tool holds its
manager while it waits, so at most one request is in flight (`call`); what runs
beside it is the servers, which are external: they answer in order and once,
may answer with an error, send nonsense, ask something themselves, or die
(`MaxTroubles` counts these). `pc` is the await at which the agent thread
stands: connecting each MCP server and listing what it offers, starting a
language server when a file first needs one, opening a document, querying,
announcing the round's edits, shutting down. A text is the number of edits its
file has seen; `docs` is what a language server has read so far.

**LlmStream.** The answer is a sequence of events, each of two or three parts, and
a read returns any number of parts; that is as finely as cutting matters: within
an event, or within a character. `garbled` holds the events into whose data the
header of an HTTP chunk falls (the code does not decode chunked encoding). `acc`
is the accumulator together with the text passed to `on_text`. What it returns
is what `AgentLoop` takes as a member of `Replies`.

**Tls.** A key is what it is derived from: who writes with it, the stage, the
messages hashed into it, and the number of the next record; a record opens under
exactly the key it was closed with. So a transcript that misses a message, a
number that is not reset or a key that changes too late all show up as a record
one side refuses. `wire` and `arrived` are the records under way and how much of
them has arrived, in halves. `Coalescing` and `Notifying` say which versions'
servers put several messages in one record and say close_notify. The bytes of the
reply are numbered, and `Cuts` lists the ways to cut a row of messages or bytes into
records, so nothing in the machine recurs and it can be proved about.

**Bash.** A tick is one 50 ms sleep. The shell writes pieces into a pipe nobody
reads before it has ended (`PipeSize`), may leave a process behind that holds the
pipe (`heir`), and may run for ever. What is read, when, and what the answer then
says follow the code; system calls of viv next to each other take no time.

**Memory.** `disk` is the index file as a sequence of `Json`'s symbols, so that an
index cut short, or one whose summary was not escaped, is read by the reader the
program uses. Each agent has the index it loaded (`base` remembers its version);
a save writes the file in two steps. `Recall` lets the ranking model answer
anything. `damaged` marks what the code does not promise: a save over a newer
index, a save cut short, a backslash in a summary.

**Files.** `ReadAndEdit` is the read with everything computed from it. fs::write is
`Truncate`, which empties the file, and `Store`, which fills it, or `OpenFails`
before and `CutOff` in between; another program may write between any two of these.
Edits are found by their own definition (`Follows`) in the property, by position in
the model.

**Vt, VtParser, Screen.** `Vt` translates the repository's own simulator; a
terminal is a record, each control sequence an operator. `VtParser` feeds it any
byte after any other. `Screen` sends it what the live region writes, with the
rows that scroll off the top kept in `gone`. A row is one glyph of `Marks`, so
that a row that is lost, doubled or out of order can be seen.

**TermInput.** Bytes have names; a key is the bytes terminals send for it. A read
returns any number of bytes, and `clean` says that none ended within a key, that
none of the keys is one the parser has no event for, and that no `[` was typed behind
an Escape, which in one read looks like the start of a sequence. The
window has a size counted by its changes, a pending signal and the self-pipe.
The MC module takes it twice, once with keys and once with sizes.

**Editor.** Text is bytes, `lead` and `tail` making one character, so that a
cursor between them can be seen. `Join` and `Split` go through lines and bytes by
recursive functions, which can be reasoned about where the folds of the library
cannot. `draft` and `spoiled` are history variables.

**Json, Glob, Html, Qr.** Algorithms over bounded inputs. Each has its
translation, and beside it a definition of what it should compute that shares
nothing with it: the grammar of a text (`IsValue`), what a pattern means
(`PathFits`), the words of a page (`Kept`), the standard's way of reading a QR
code back (`WordsRead`, `IsCodeword`). The input grows by a symbol, a segment or
a piece at a time, so that every input up to the bound is a state.

## The runs

Each run asks one question. Every property of a passing run has a mutant (a
plausible bug in one mapped definition) that makes TLC find it violated.

| run | question | bounds |
|---|---|---|
| `session` | Do the two threads agree, whatever the user does and whenever? | one turn of replies with two tools that need consent in a row, or an Agent use; 2 submitted lines, 2 events in flight, 1 interrupt |
| `session_live` | Do turns end, does each side's end end the other, is streamed text shown and committed? | 2 chunks of six shapes (with a fence that comes as two pieces, blanks and an empty piece), 1 line, 1 interrupt, one tool at a time |
| `async` | Is any wake-up lost or misdirected in the runtime, from the ring up to the sub-agent's Join? | ring: queue of 2, 3 tokens, 2 timeouts; channel: 2 handles, 3 sends of 2 values; drivers: a read, a wait and a sleep, joined or in two tasks; sub-agent: 2 rounds, tools it has and has not, 2 chunks |
| `peers` | Do viv and what it talks to understand each other: servers, the model's stream, a TLS server, a shell? | one MCP and one language server, one file, 2 edits, 2 uses, 1 trouble; four answers of one or two blocks, one garbled event; replies of 4 bytes in records of 1 or 3; deadline of 3 ticks, pipe of 1 piece, 3 pieces of output |
| `local` | Does what viv does by itself do what it promises? | see below |
| `stale_answer` | Does an answer decide the request it was given for? **No.** | as `session` |
| `two_agents` | Does a result appear on the block of its own call? **No.** | two Agent uses side by side |
| `sub_agent_hangs` | Does the Agent tool return when the child's I/O is pending? **No.** | as `async` |
| `lost_close` | Does recv() in a spawned task see the end of the channel? **Not always.** | 1 sender |
| `scrollback_lost` | Is a committed row still there to scroll back to? **No.** | as `local` |
| `page_lost` | Is every page converted? **No.** | as `local` |
| `tls_standstill` | Does connect() ever wait for a server that waits for it? **Yes.** | as `peers`, but TLS 1.2 servers may put messages together too |

`async`, `peers` and `local` hold several machines that share nothing; the
variable `machine` says which one a behaviour runs, and the others stay in their
initial states. It is a way to check related modules in one run and adds no
behaviour.

| machine of `local` | what it checks | bounds |
|---|---|---|
| screen | `FrameIsOnScreen` | 3 columns, 8 rows, 4 marks; blocks of 1 or 2 rows; 1 or 2 editor lines |
| simulator | `TextStaysInPlace` | a screen of 2 by 2, one byte per class and per control sequence, parameters of one byte |
| keyboard | `KeysArrive` | 3 keys of 12 kinds, a read of any length |
| window | `SizeIsKnown` | 2 changes of size |
| editor | `CursorIsOnText`, `DraftComesBack` | texts of 3 bytes, 2 submitted lines, a wide character and a slash |
| json | `JsonIsRead` | every text of 6 symbols over four alphabets: strings with their escapes, surrogates and control characters, nesting, numbers with the digits 0 and 1 |
| memory | `MemoryIsKept` | 2 agents, 3 sessions, 2 learnings under one id, 1 second |
| files | `EditsAreMade` | texts of 3 letters over two, 2 edits a call, 1 write of another program, a write cut off anywhere |
| glob | `GlobFindsWhatFits` | patterns of 3 segments out of 7, four trees three deep |
| html | `WordsAreKept` | pages of 5 pieces |
| qr | `QrIsReadable` | texts of 0, 14, 15, 106, 122, 152, 180 and 213 bytes (an empty one and both sides of a change of version, up to version 10), all 8 masks, areas one cell too small, exact, and 3 too large |

**What each property says.** `ScreenMatchesAgent`: at most one question is out,
an agent that waits can still be answered until the user quits, `busy`
and the running blocks tell the truth about the agent. `HeldTextIsKept`: what the
parser holds back is on the screen, and a held line that is neither blank nor a
fence is committed when it is let go of. `CalmGrantsMatchAnswers`:
until the first interrupt every answer decides its own question.
`ServersSeeTheDisk`: what a language server has read is what was opened or
announced last, and a query sees at least the rounds before it.
`AnswerIsAsSent`: the reply is the one the model sent, up to the exceptions named
below, and its uses are whole. `BothUnderstand`, `NoStandstill`: neither end of a
TLS connection refuses what the other sent, nor do both wait.
`AnswerFitsTheCommand`: no command that ended in time is reported as timed out,
and output is complete. `JsonIsRead`: the reader takes the texts of RFC 8259, and
what it read prints as a text that reads as the same value, both up to the exceptions
named in the module. `EditsAreMade`: a file is touched only when every edit fits, and
is then left as all of them make it, or with a beginning of that when the write fails.
`WakersFitPolls`: no registered waker is forgotten and
none fires for another's readiness. `LeavesAreServed`: whoever waits is
registered, and whoever is done is not. `MonitorKeepsItsWord`: the child's whole
answer is collected and it is told to quit once. The comment above each property
in its module states it in full.

*Why the bounds are enough.* The agent's behaviour in a turn depends on the
reply in hand, on the grants and on the queues. Two uses that need consent in
one reply are the smallest case in which an answer can meet a second request;
two lines and two events in flight let an input, an interrupt or a quit stand
before an answer; `MaxIterations = 1` reaches both sides of the limit. With
`KeepRecent = 1` compaction happens within two turns. Two events in flight,
two handles and a queue of two are each the smallest at which a slot is taken
by somebody else. In `peers` two edits let one be announced while the other
waits, two uses let a query follow an answer that came too late or not at all,
and one trouble is tried at every point of the session; the MCP and the language
server share nothing but the agent thread, so one of each is enough. An event of
the model's stream spans three reads at most before it is whole, and a tool input
in three pieces is the smallest that can have a hole in the middle. Records of 1
and 3 bytes and a buffer of 2 give read() fewer and more bytes than it asked for.
A pipe of one piece is full, empty and refilled with three pieces of output, and a
deadline of three ticks lets a command end before, at and after it. Four rows on
a screen of eight, under an input box of three or four, let a block grow, shrink,
be committed under another and push rows into the scrollback. Three keys are a key
with one before and one behind it. Three sessions of two agents let each save over
the other and a third load what is left. Patterns of three segments hold a
double star with something before and behind it, and two of them in a row.

*Deadlock* is checked in the runs over threads and the runtime: a state in which
no thread can move is an error unless the program is over (`BothReturned`,
`Joined` stutter there). It is not checked in `local`, whose inputs are bounded
and end, nor in `peers`, where a session, a call or a command is over at some
time; there `NoStandstill`, `StreamEnds`, `RequestsEnd` and `CommandReturns` say
what must not stop.

### Fairness

* `VivSession`: weak fairness of the agent's steps other than streaming one
  more chunk (the stream ends or fails, a tool ends, and recv() is polled at
  the latest 10 ms after an event arrived, since `wait_for_io` has a timeout),
  and of the UI loop, which polls with a timeout of 16 ms. **Nothing is assumed of
  the user**: `TurnEndsOrAsks` therefore ends in a question.
* `SubAgent`: a poll that can go on goes on; a woken Join is polled. The
  child's progress is strongly fair because its step is enabled only while the
  Join polls it, and a Join is polled again and again while wakers fire.
* `AsyncChannel`: a send, drop or poll once begun is finished, the reactor's
  thread waits for I/O again and again; nobody is obliged to begin anything.
* `IoUring`: a timeout fires, the thread calls poll() again and again, a wait
  with a completion returns. No handle has to become ready.
* `Runtime`: the thread goes on with its loop, and a completion in the ring ends
  the wait. No handle has to become ready, no task has to be submitted.
* `Servers`: the agent thread goes on with recv(), and a living server answers
  what it is sent; without that no client could promise anything. Nobody has to
  use a tool, edit or quit.
* `LlmStream`: bytes that have arrived are read. The server need not close.
* `Bash`: viv goes on once it has begun, a command writes when it can, what a
  shell leaves behind ends, and the clock ticks. The shell may run for ever.
* In `MCAsync` and `MCPeers` each machine has the fairness its own module states,
  and is asked for it only while it is the one that runs.

## The proofs

TLAPS 1.4.5 with Z3, Zenon and LS4; the only assumptions are the named ones on the
constants (`ProtocolAssumption`, `AgentAssumption`, `AsyncChannelAssumption`,
`IoUringAssumption`, `RuntimeAssumption`, `SubAgentAssumption`, `BashAssumption`,
`ServersAssumption`, `TlsAssumption`, `EditorAssumption`, `KeysAssumption`), which
say what kind of value each constant is (a sub-agent's that it is built with `Mode =
"Auto"` and without the Agent tool, as `run_sub_agent` does; a character's, that no
tail stands in it before its lead; a key's, that one that is its own byte is none of
those that mean more), and hypotheses of single theorems, of which see below:
`Consistent`, `OneAgentUse`, and of a TLS 1.2 server that it neither puts handshake
messages together nor announces its end.

* **`LoopTypeCorrect`**. `LoopTypeOK` is not inductive: that `iter` stays in
  its range and `current` names a use depends on where the thread stands.
  `LoopInv` adds: a round in progress is within `MaxIterations`; while asking or
  executing `current` is a use of the reply; compaction is tried only on a
  conversation longer than what it keeps (otherwise `Compacted` would be no
  sequence).
* **`ResultsAnswerTheirUses`**: `LoopSpec => []ResultsAnswerUses`, for every
  set of tools, mode, reply, limit and peer. `PairInv` adds that while a reply is
  executed the conversation ends with the assistant message of exactly those
  uses; results are appended only from there, and compaction, which shifts
  positions, runs only elsewhere and puts the summary before what it keeps.
* **`UsesAreAnswered`**: if no reply carries uses together with the stop reason
  end_turn (`Consistent`), every use is followed by its results. The assumption
  is needed: see the divergences.
* **`VivIsAgentLoop`**: the whole program implements `LoopSpec`: each step of
  the UI is a step of the open peer. With it the theorems above hold of the
  program (`VivResultsAnswerUses`), for any number of tools, inputs, chunks and
  interrupts. The invariant is that the UI's ends are open exactly until its
  run() returns.
* **`VivGrantsAreConsented`**: until the first interrupt every answer taken for
  a tool is the one given to its own prompt, for any number of tools, rounds and
  lines. `QuestionInv` says why: a request that the agent waits on is in exactly
  one place - among the messages, on the screen, or answered among the events -
  and nowhere while the agent does not ask; an Interrupt breaks just this, since
  it ends the asking and leaves the prompt.
* **`VivTypeCorrect`, `VivQuestionsAndSpinner`**: `Spec => []TypeOK`, and three of
  the four parts of `ScreenMatchesAgent`, for every program: that an agent which
  waits can be answered is said of the time until the user quits, since after that
  the UI takes no key but the forced exit. `PromptInv`: the block of a prompt is the
  pending tool's, so the menu on the screen is. `AnswerableInv` follows a question
  through the queues: while the agent asks, its request, its prompt or an event that
  ends the asking is there, or the UI is gone and its end of the channel with it.
  `SpinnerInv` looks through the messages under way: the last of `Thinking`, `Done`
  and `Error` among them, or `busy` if there is none, says whether a turn goes on;
  each path of the agent into and out of a turn (turn, failed turn, shutdown, closed
  channel) has to send its own.
* **`VivScreenMatchesAgent`**: with `OneAgentUse` (no reply has two Agent uses) the
  blocks that run are the tools that run. `ActiveInv`: a use is started only when
  none runs. `RunningInv`: one block runs at most, and the last tool message
  under way, or that block, names the running use. Without the hypothesis it is
  not so, which is what the run `two_agents` shows; the run `session` has an
  Agent use, but no two of them.
* **`VivHeldTextIsKept`**: text the Markdown parser holds back stands in a Live
  block (`TextInv`), and a held line outside a fence, neither blank nor a fence
  itself, is let go of in a step that commits Markdown, or by becoming a fence.
  Blocks are taken out of the middle of the list by `Vec::retain`; `Keep` of
  `Subsequences` says what that leaves by positions (of `SelectSeq`, which recurs,
  the prover can show nothing), and `KeepProperties` that each of them is there once
  and in order.
* **`SubAgentIsAgentLoop`, `SubAgentResultsAnswerUses`**: the monitor and the Join
  are a peer of the kind AgentLoop's theorems are about.
* **`MonitorDoesItsPart`**: `JoinSpec => []MonitorKeepsItsWord`. `JoinInv` follows
  the call through its life: the prompt waits for the child (`PromptWaits`), the
  turn runs, it is over and its Done is the last message the monitor will find
  (`TurnIsOver`), the child has its Quit or leaves (`Leaving`); in all of them what
  was collected and the chunks in the channel are what was streamed. A sub-agent
  never asks for permission (its mode is Auto), or it would wait for ever: that is
  part of the invariant too.
* **`RefsAreRight`, `NoValueIsLost`**: the reference count equals the live
  handles; a pending receiver with a value waiting is armed and its byte is
  written or about to be. Both are inductive with the type invariant.
* **`ImplementsChannel`**: `AsyncChannel` implements `Channel` for any number of
  handles and values: every step is an abstract operation or a stutter, the refused
  registration being the abstract recv()'s `Fail`.

* **`WakersAreFired`**: for every size of the submission queue and any number of
  registrations and timers, no registered waker is forgotten before it fires and
  none fires but by its own handle's readiness. The property is not inductive:
  `TokensAreOld` adds that a token is given out once, so that a completion of an
  old registration never meets a new waker; `FiresForReady` that a registration
  being removed has no waker any more (the code takes it from the map before it
  submits the POLL_REMOVE) and that a completion that finds its waker is a ready
  handle's. The lemmas on `SetToSeq` and concatenation say what the batch of
  completions contains.
* **`RuntimeServesLeaves`**: `RuntimeSpec => []LeavesAreServed`, for any number of
  tasks and leaves of every kind, joined in any way, under each driver and with any
  room in the submission queue. None of the three parts is inductive. `AloneInv`
  says why a leaf that has its task to itself is never polled too soon: its task is
  on its way to one poll at most - submitted, ready, being polled or to be woken by a
  registration, counted together - and a token that is held without a registration
  is that of a readable handle. `RestIsOfTask` and `OnlySubmittedRun` keep others'
  leaves and ids out of that count. `WakesOfFire` shows that the order in which
  completions come makes no difference.
* **`AnswersFit`**: for every deadline, pipe and output, no command that ended
  before the deadline is reported as timed out, and an answer with output has all
  of it. `DeadlineInv` follows the shell through the moment between try_wait and
  the look at the clock; `OutputInv` counts the pieces: written are those read,
  those in the pipe and those to come.
* **`TlsBothUnderstand`, `TlsNoStandstill`**: `TlsSpec => []BothUnderstand` and
  `TlsSpec => []NoStandstill` for both versions, any reply, any of the ways to put
  messages and bytes into records, and a peer that may go at any moment. One
  invariant, `TlsInv`, gives both. `Shapes` says what the parts of the state are;
  `Reads` that what read() returned, and what it holds for the next call, are the
  bytes of the reply in their order. The rest says of each version how far the
  connection is: at its beginning, failed or closed, or going on. Going on it is
  `Inbound`: what of the server's handshake stands on the wire is what the client
  has yet to take, cut where the client's place is a cut too, under the keys the
  client will have by then (`Front13`, `Front12`), and after it the rest of the
  reply, without a gap and under consecutive numbers. And it is `Outbound`: the
  records the server took and those under way are what the client sent, each the
  one the server expects at its number. That keys are installed on both sides
  between the same two messages is what makes it inductive. The two hypotheses
  (`"1.2" \notin Coalescing`, `"1.2" \notin Notifying`) are needed: the run
  `tls_standstill` shows it of the first, the divergences below name the second.

* **`AnswersReachTheirRequests`**: `Spec => []AnswersMatchRequests` of `Servers`,
  for any number of servers, files, edits, uses and troubles. The property speaks
  of the call that is done; what keeps it is said of what is still under way.
  `NumbersAreOld`: every message on its way to a server, and every answer in its
  pipe or in read_buf, has a number below the client's next. `CallInv`: what is
  under way with the number of the request in flight is that request or its
  answer, so the late answer to a request that failed on nonsense is passed over.
  A server's own request may carry any number; it is no answer and is skipped.
  `MgrInv` adds that the managers name servers and files that exist.
* **`ShutdownEndsProcesses`**: `Spec => []NoProcessIsLeft` of `Servers`. `CleanInv`:
  as long as nothing went wrong, the processes that run are exactly those of a
  client that is connected, started or being set up (`ClientsRun`), every frame
  under way is an answer or a notification, and a call that is done succeeded, so
  no client is ever dropped. `KindsApart`: no MCP server is a language server, so
  killing the one kind takes nothing from the other (from `ServersAssumption`).
* **`LanguageServersSeeTheDisk`**: `Spec => []ServersSeeTheDisk` of `Servers`.
  `Known(f, n)` is what the server of `f` will know after `n` more messages.
  `FileServersInv`: a file is open only on a server the manager has, and a note
  about it is on its way to no other. `TextsInv`: what will be known of an open file
  is no older than the round, and the text `ensure_file_open` read is still the
  disk's when it is announced, since nothing edits between the two. `QueryInv`: what
  precedes a query on its way makes the server know a text of this round, and so
  does the answer in the pipe; the match of answers to requests (`CallInv`) is
  needed here. Instead of going through the notes one by one, the last of them is
  found as the largest position (`LargestElement`).

* **`WindowSizeIsKnown`**: `InputSpec => []SizeIsKnown`, for any keys and number of
  changes, wherever the signal interrupts the UI thread. `SizeInv`: as long as the UI
  thread runs and no change came before its handler, the size is known, or the signal
  is pending, its byte is in the pipe, or the size is about to be asked for. That the
  pipe is emptied before the size is asked for is what keeps it.
* **`KeysTypedArrive`**: `InputSpec => []KeysArrive`, for any keys, typed at any time
  between reads of any length that stop where a key ends. `KeysArrive` speaks only of
  the moment when nothing waits; `KeyInv` says of every other that there is a key up to
  which all was read and its events given out, and that what waits is the bytes of the
  keys behind it. The heart is `KeyIsRead`: a key the parser knows is read as what it
  is, and takes exactly its bytes, whatever follows, for each of the sequences
  (arrows, Delete, the three formats of the mouse). `DrainedKeys` carries it through
  the loop of `drain_stdin`, whose turns are a recursive function; that it, and where
  keys end, exist at all is shown by a smallest counterexample.
* **`EditorCursorIsOnText`**: `EditorSpec => []CursorIsOnText`, for any characters and
  texts, entries and searches of any length. What is on the screen must be such that
  the next key finds a boundary, so `EditorInv` says of every line, entry and saved
  draft that it is a *text*: no tail stands where no character has begun. Inserting at
  a boundary, cutting between two, joining lines and taking a text apart at its line
  breaks keep that (`EditsOnText`, `JoinText`, `LinesOfText`). `Join` and `Split` are
  recursive functions: that they exist, and what they return, is shown by the smallest
  length at which it fails.
* **`EditorDraftComesBack`**: `EditorSpec => DraftComesBack`, an action property.
  `DraftInv`: while somebody browses and nothing has spoiled it, `original` is what was
  being typed when browsing began. Only the first Up and Ctrl+R write it, and Ctrl+R
  while browsing is one of the things that spoil it. `EditOfDraft` says what each key
  makes of the line that comes back.

Only model-checked: everything under fairness (the prover has no ENABLED); what
recursive operators compute (`Json`, `Glob`, `Html`, `Files`, `Memory` through
`Json`, `LlmStream` through `SelectSeq`, `Qr` through its folds and bitwise
operators): the prover takes no induction theorem over an arbitrary predicate, and
cannot unfold an operator that recurs. Where one recursive function is enough the
smallest counterexample takes the place of induction, as in `Editor` and `TermInput`.
And, for want of a proof so far, the properties of `VtParser` and of `Screen`
(`FrameIsOnScreen`, `TextStaysInPlace`).

## What the models show that the code's own words do not say

Seven have a run of their own (PROJECT.json, "findings"):

* an answer may decide a later request (`stale_answer`): after an Interrupt
  denied a request its prompt stays, and the answer given to it grants
  whichever tool is asked for next. `CalmGrantsMatchAnswers` shows that it takes
  an Interrupt.
* results of Agent uses side by side cross (`two_agents`).
* the monitor of a sub-agent never lets the child run again once the child's
  I/O was pending and it had nothing to say (`sub_agent_hangs`).
* the end of a channel is announced before it happens (`lost_close`).
* a frame of the live region is painted over committed rows that nothing scrolled
  out of the way (`scrollback_lost`).
* a link of wide characters at the end of a page panics the conversion
  (`page_lost`).
* a TLS 1.2 server that puts its certificate into the ServerHello's record is
  waited for in vain (`tls_standstill`).

Others are visible in the models and stated in the properties that hold:

* `Allow` is remembered for the session like `AlwaysAllow` (`AnswerAllows`;
  `agent.rs:599-602`).
* A Quit taken while a permission is asked for is forgotten (`AskSwallows`,
  `agent.rs:606`); `QuitEndsAgent` excepts exactly that.
* Once the user has quit (Ctrl+D in a turn), a question that the agent asks before it
  takes the Quit swallows it, and its prompt is on the screen of a UI that takes no
  key but Ctrl+C, the forced exit (`Ask`, `AskSwallows`, `quitting`; `agent.rs:606`,
  `terminal.rs:129-138`). `QuestionIsAnswerable` excepts it.
* A recv() whose registration the reactor refuses ends with an Err on an open channel
  (`RegisterFails`; `channel.rs:103-109`). The agent takes any Err of recv() for the
  end of the channel: in its loop it stops (`agent.rs:218`), while it asks it
  denies (`agent.rs:597`). `AgentLoop` has the closed channel only.
* Ctrl+C does not stop a turn that is streaming or running a tool
  (`RecvIgnored`, `agent.rs:239`); it denies the next request asked for.
* `/exit` typed in the editor's Chat mode becomes a SlashCommand and is sent to
  the model; only an Input with a leading blank reaches the agent's test for
  it (`SubmitExit`).
* A reply with uses and stop reason end_turn leaves its uses unanswered
  (`EndsTurn`, `agent.rs:347`). The model need not contradict itself for that: a
  connection that closes after the uses and before message_delta gives such a
  reply, since end_turn is the accumulator's first value (`ReadEnd`,
  `llm/mod.rs:476`).
* A connection that closes early is a success: the open text block, shown on the
  screen already, is not in the reply (`ReadEnd`, `llm/mod.rs:712`), though
  `StreamResult` is "the complete result" (`llm/mod.rs:335`). `AnswerIsAsSent`
  excepts `lost`.
* A read that ends inside a character fails the call (`IsUtf8`,
  `llm/mod.rs:716`); `stream_agent()`, whose "async version" this is (line 638),
  decodes the whole body at once.
* A text that contains message_stop in the bytes read with the header, or is
  just that word later, ends the answer (`MentionsStop`, `NamesStop`).
* Chunked transfer encoding is not decoded: a chunk's header between two events
  does no harm, one inside an event's data loses it; a piece of a tool's input
  may be missing unnoticed (`Input`).
* The body of an HTTP error is read until the connection closes, and nothing
  asks the server to close it (`ReadErrorBody`); `StreamEnds` excepts that.
* Compaction may keep results whose uses went into the summary
  (`memory/compaction.rs:21`); `ResultsAnswerUses` excepts exactly that.
* A failed evolve step, or a closed channel, leaves the servers running
  (`EvolveFails`, `RecvClosed`).
* A code block that was on the screen while it streamed is dropped when its
  fence closes (`CommitBlocks`, `session.rs:149-156`), and so is a held line that
  turns out to be a fence at the end of the message (`Flushed`, `content.rs:430-446`).
* The view of a held line stays on the screen beside the line it became: the
  committed block is pushed behind it, and only trailing Live blocks are dropped
  (`DropTrailingLive`; `session.rs:150-158`, `live_region.rs:84-90`). A later chunk may
  find it trailing again; with a tool block behind it, it stays. `HeldTextIsKept` says
  that text is not lost, and not that it is shown once.
* With a full submission queue the TIMEOUT is lost and poll() waits for a
  handle or a signal (`Enter`); `TimedPollReturns` excepts that.
* A Sleep takes any second poll for its timer (`PollSleep`, `timer.rs:26`). Its
  tests run it alone under `block_on`; under `block_on_local` it ends at the next
  pass, at most 10 ms later. Nothing in the program sleeps yet.
* A pipe wait polled without being woken forgets an armed registration
  (`PollWait`, `stdio.rs:149`).
* A Sleep that finds the submission queue full wakes itself, so `run_ready`
  never returns and the reactor, which would make room, is never polled
  (`SleepFoundNoRoom`).
* LspDiagnostics opens the file "so diagnostics are available"
  (`lsp/tools.rs:433`), but nothing is received before it reads its cache: what
  it reports is what earlier requests on that server happened to receive
  (`ReportDiagnostics`).
* Edits are announced to the language server after the last tool of the round:
  a query in the same round is answered from the text before it
  (`QueriesSeeThisRoundsText`, a part of `ServersSeeTheDisk`; `agent.rs:541`).
* An initialize or an LSP shutdown that fails drops the client without killing
  the process, and so does a run() that ends without shutdown()
  (`Dropped`); `NoProcessIsLeft` excepts these.
* A language server that dies stays `Some` in the manager and is never started
  again (`lsp/mod.rs:92-97`): its tools fail for the rest of the session.
* A frame that is not UTF-8, or whose header has no length, is answered like one
  that is not whole: recv() waits for bytes although a whole frame may lie in
  `read_buf` (`NeedsMore`, `stdio.rs:102-130`); a bad header stays there for
  ever. `RequestsEnd` excepts exactly that (`FrameIsStuck`).
* A request of the server itself is never answered (`lsp/client.rs:256`).

Of TLS and Bash:

* A TLS 1.2 close_notify, which comes encrypted, is taken for an unknown alert;
  hence `Notifying` has 1.3 only.
* A handshake message split over two records is refused (`tls/mod.rs:129-132`; the
  model's servers do not split one), a KeyUpdate is ignored;
  the TLS 1.2 handshake does blocking I/O on the reactor's thread; an application
  record without data looks like the end of the stream.
* At the deadline only `sh` is killed (`KillLate`), and a process that a command
  left behind and that holds its pipe keeps the call waiting past any deadline
  (`Finish`); `CommandReturns` assumes that it ends. Standard input is inherited.

Of memory, files and pages:

* An agent that saves over an index it has not read drops the other agent's
  entries; an index cut short loads as empty and is written back so; a backslash
  in a summary is not escaped. `damaged` excepts these three.
* Two episodes of one second have one id, and the second takes the place of the
  first (`MemoryIsKept` speaks of the text an id was saved with last).
* Edit and Write do not look whether the file has changed since it was read; what
  another program wrote in between is overwritten (`Other` between
  `ReadAndEdit` and `Store`). Edit counts matches that do not overlap, so `aa` in
  `aaa` counts as unique.
* MultiEdit promises to edit "atomically" (`edit.rs:96`), but writes with fs::write,
  which empties the file first: a full disk or a crash leaves it empty or cut short
  (`Truncate`, `CutOff`). What its next sentence says is so: an edit that does not fit
  leaves the file unchanged.
* Glob returns a path more than once for a pattern with two double stars.
* A text between link tags is decoded twice (`web.rs`).

Of the screen, the keyboard and the editor:

* clear_live_region goes up by the height of the whole frame although the cursor
  stands inside the input box, so it erases committed rows above the frame
  (`CommitText`; `live_region.rs:177`).
* A frame taller than the screen panics (`fate`); one that fills it leaves rows
  behind that nothing clears (`tall`); with seven lines or more in the editor the
  cursor is put below the box.
* An escape sequence split over two reads becomes an Escape and characters; an
  unknown sequence takes up to four bytes with it; keys behind a mouse event
  wait for the next read. `clean` excepts the first two.
* A change of the window between TerminalUI::new and EventLoop::new goes
  unnoticed until the next one (`missed`).
* A clear or a submitted command while the history is browsed leaves the position
  and the draft of the browsing behind (`spoiled`).
* The first Down from an older entry shows the same entry again: the place is
  moved, but the entry is looked up with the old one (`Down`,
  `terminal.rs:415-416`; the comment at 402 says "moves to newer entries"). A
  draft of several lines comes back as one line with line breaks in it.

Of JSON and QR codes:

* Raw control characters in strings and a form feed between values are accepted
  (`Tamed`, `json.rs:189-193`); escaped surrogates, which the grammar has, and integers
  beyond an i64 are refused (`EscapesSurrogate`, `json.rs:298-300`, `384-388`).
* A float without a fraction prints as an integer and is read as one; from 1e19 on,
  and at "inf", what is printed is not read at all; a negative zero loses its sign
  (`PrintedFloat`, `json.rs:36-43`). `PrintsWhatItRead` names these.
* From version 7 on, the alignment patterns that touch the timing lines are
  skipped, since those were placed first (`matrix.rs:133`), and the bits of the
  format word stand at transposed places, one of them on the dark module. A
  standard reader would stumble over both; `QrIsReadable` reads the format word
  where this code writes it and compares the fill only below version 7.

## Not modelled, and why

* **LLM client**: building the request; the older `stream()` and
  `stream_agent()`, which the program does not call.
* **Network**: `http.rs` and `ws.rs`, which the program does not call; the check of
  certificates, a function from bytes to a verdict.
* **Cryptography and encodings**: arithmetic over numbers no model checker
  enumerates; `Tls` takes a cipher to be what it promises.
* **Tools**: Read, LS, Grep, Todo, Notebook, WebSearch: one read or write each,
  and formatting.
* **Rendering**: syntax colours, wrapped paragraphs, Markdown layout and the
  full-screen widgets the program does not use: functions from text to cells that
  nothing reads back.
* **QR code**: versions above 10 (the tables go on in the same way), the colours of
  function patterns, and the penalty that chooses the mask: the model allows any.
* **Memory**: the prompts; what the model answers is any value the parsers tell
  apart.
* **The epoll reactor**: not the backend in use. **Windows**: the same components
  over another API. **Logging, configuration, skills**: sequential reading of
  files.
* Within the modelled parts: texts, formatting and painting; the diagnostics
  cache and MCP's buffered notifications; resources and prompts of MCP servers
  (the same request with another method); errors of system calls other than
  those the code handles.

## Plan

Theorems: `FrameIsOnScreen`, then `TextStaysInPlace` (from what each control sequence
does to the rows of a terminal).

Modules: nothing left outside has a state of its own that several actors share.
A finer `Screen` with wrapped rows and a window that is resized between a commit
and the next frame is the extension most likely to show something.
