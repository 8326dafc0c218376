---------------------------- MODULE MCExactReplay ----------------------------
(***************************************************************************)
(* ExactReplay with two replays of a conversation while it goes on.        *)
(***************************************************************************)
EXTENDS ExactReplay, TLC

RequestSymmetry == Permutations(Requests)
=============================================================================
