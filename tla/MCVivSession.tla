--------------------------- MODULE MCVivSession ---------------------------
(***************************************************************************)
(* Instances of VivSession for TLC: the replies of the model that the runs *)
(* draw from.                                                              *)
(***************************************************************************)
EXTENDS VivSession

NoUses == [uses |-> <<>>, endTurn |-> TRUE]
Calls(names) == [uses |-> names, endTurn |-> FALSE]

(* Two tools that need consent, one after the other; a concurrent use.     *)
MixedReplies == {NoUses, Calls(<<"Bash", "Write">>), Calls(<<"Agent">>)}

(* One tool that needs consent; one that starts a language server.         *)
SingleReplies == {NoUses, Calls(<<"Bash">>), Calls(<<"LspHover">>)}

(* Two Agent uses side by side.                                            *)
TwoAgentReplies == {NoUses, Calls(<<"Agent", "Agent">>)}

=============================================================================
