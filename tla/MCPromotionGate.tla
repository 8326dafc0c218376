---------------------------- MODULE MCPromotionGate ----------------------------
(***************************************************************************)
(* Conversations of no, two or five answers, and sheets over two criteria. *)
(***************************************************************************)
EXTENDS PromotionGate

SomeConversations ==
  {e \in [answers : {0, 2, 5}, repeated : 0 .. 2, ungrounded : 0 .. 3] :
     /\ e.ungrounded <= e.answers
     /\ e.repeated < e.answers \/ (e.answers = 0 /\ e.repeated = 0)}

Submitted == [task_outcome |-> {-240, -120, 0, 240}, grounding |-> {-240, 240}]

TwoCriteria ==
  UNION {{s \in [D -> {-240, -120, 0, 240}] : \A k \in D : s[k] \in Submitted[k]} : D \in SUBSET DOMAIN Submitted}
=============================================================================
