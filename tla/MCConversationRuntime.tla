----------------------- MODULE MCConversationRuntime -----------------------
(***************************************************************************)
(* ConversationRuntime on small instances: the requests are interchangeable *)
(* where no liveness property is checked.                                  *)
(***************************************************************************)
EXTENDS ConversationRuntime, TLC

RequestSymmetry == Permutations(Requests)
=============================================================================
