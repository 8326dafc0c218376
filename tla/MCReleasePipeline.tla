-------------------------- MODULE MCReleasePipeline --------------------------
(***************************************************************************)
(* ReleasePipeline with one document and evidence that asks for one        *)
(* candidate at a time.                                                    *)
(***************************************************************************)
EXTENDS ReleasePipeline, TLC

LOCAL DSL == INSTANCE PolicyDSL

MCBodies ==
  {[[f \in DSL!Fields |-> Missing] EXCEPT !["id"] = DSL!EmptyDict]}

MCEvidences ==
  {[grounding |-> 100, conversation_quality |-> 100, state_progress |-> 100]}

BuilderSymmetry == Permutations(Builders)
=============================================================================
