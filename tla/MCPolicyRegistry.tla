-------------------------- MODULE MCPolicyRegistry --------------------------
(***************************************************************************)
(* PolicyRegistry with two documents a builder may send, one that leaves   *)
(* its settings to the defaults and one beyond the generator's bounds, and *)
(* evidence on either side of the generator's thresholds.                  *)
(***************************************************************************)
EXTENDS PolicyRegistry, TLC

Plain == [[f \in Fields |-> Missing] EXCEPT !["id"] = EmptyDict]

Generous ==
  [Plain EXCEPT !["retrieval_policy"] = [EmptyDict EXCEPT !["context_k"] = 11],
                !["termination_policy"] = [EmptyDict EXCEPT !["max_turns"] = 50],
                !["knowledge_snapshot_ref"] = [EmptyDict EXCEPT !["other"] = 1]]

MCBodies == {Plain, Generous}

Scores(grounding, quality, progress) ==
  [grounding |-> grounding, conversation_quality |-> quality,
   state_progress |-> progress]

MCEvidences == {Scores(100, 100, 100), Scores(94, 85, 85), Scores(95, 84, 84)}

RequestSymmetry == Permutations(Requests)
=============================================================================
