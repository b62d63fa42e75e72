----------------------------- MODULE MCSubAgent -----------------------------
(***************************************************************************)
(* Instances of SubAgent for TLC: a model that answers with text, calls    *)
(* ordinary tools or asks for the Agent tool the child does not have.      *)
(***************************************************************************)
EXTENDS SubAgent

ChildReplies ==
    {[uses |-> <<>>, endTurn |-> TRUE],
     [uses |-> <<"Bash", "Read">>, endTurn |-> FALSE],
     [uses |-> <<"Agent", "Nothing">>, endTurn |-> FALSE]}

=============================================================================
