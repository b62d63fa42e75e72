--------------------------- MODULE MCAsyncChannel ---------------------------
(***************************************************************************)
(* Instances of AsyncChannel for TLC.                                      *)
(***************************************************************************)
EXTENDS AsyncChannel, TLC

HandleSymmetry == Permutations(Senders)

=============================================================================
