------------------------------- MODULE MCPeers -------------------------------
(***************************************************************************)
(* Viv and those it talks to, for TLC: the MCP and language servers, the   *)
(* model's answer, a TLS server, a command in a shell; a behaviour runs    *)
(* one.  One MCP server, one language server for one file; a text with a   *)
(* wide character and a tool use in three pieces, two uses, and texts that *)
(* speak of the end of the message.                                        *)
(***************************************************************************)
EXTENDS Servers, Bash, Tls

CONSTANTS
  Messages, MaxCuts

VARIABLES
  machine,
  message, httpStatus, garbled, rest, closed, lost, reader, sseBuf, acc

L == INSTANCE LlmStream

ASSUME L!LlmAssumption
ASSUME BashAssumption /\ TlsAssumption

llmVars == <<message, httpStatus, garbled, rest, closed, lost, reader, sseBuf, acc>>
mcVars == <<machine, vars, llmVars, tlsVars, bashVars>>

InServers(step) == machine = "servers" /\ step /\ UNCHANGED <<machine, llmVars, tlsVars, bashVars>>
InLlm(step) == machine = "llm" /\ step /\ UNCHANGED <<machine, vars, tlsVars, bashVars>>
InTls(step) == machine = "tls" /\ step /\ UNCHANGED <<machine, vars, llmVars, bashVars>>
InBash(step) == machine = "bash" /\ step /\ UNCHANGED <<machine, vars, llmVars, tlsVars>>

MCInit ==
  /\ machine \in {"servers", "llm", "tls", "bash"}
  /\ Init /\ L!Init /\ TlsInit /\ BashInit
  /\ machine # "llm" =>
       message = (CHOOSE m \in Messages : TRUE) /\ httpStatus = 200 /\ garbled = {}

MCNext == InServers(Next) \/ InLlm(L!Next) \/ InTls(TlsNext) \/ InBash(BashNext)

(* The fairness of each machine, as its module states it.                  *)
MCFairness ==
  /\ WF_mcVars(InServers(Receive)) /\ \A s \in Servers : WF_mcVars(InServers(Serve(s)))
  /\ WF_mcVars(InLlm(L!Read))
  /\ WF_mcVars(InBash(Viv /\ execute # "idle")) /\ WF_mcVars(InBash(Writes \/ RestEnds))
  /\ WF_mcVars(InBash(Tick))

MCSpec == MCInit /\ [][MCNext]_mcVars /\ MCFairness

AnswerIsAsSent == L!AnswerIsAsSent
StreamEnds == machine = "llm" => L!StreamEnds

OneMcp == <<"mcp">>
OneFile == [f \in {"a.rs"} |-> "lsp"]

Text(pieces) == [type |-> "text", pieces |-> pieces]
Uses(pieces) == [type |-> "tool_use", pieces |-> pieces]
Says(blocks, reason) == [blocks |-> blocks, reason |-> reason]
FourAnswers ==
  {Says(<<Text(<<"plain", "wide">>), Uses(<<"a", "b", "c">>)>>, "tool_use"),
   Says(<<Uses(<<"a">>), Uses(<<"a", "b">>)>>, "tool_use"),
   Says(<<Text(<<"mentions", "plain">>)>>, "max_tokens"),
   Says(<<Text(<<"names">>), Uses(<<"a">>)>>, "tool_use")}
=============================================================================
