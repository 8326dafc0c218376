----------------------- MODULE MCTenantAdministration -----------------------
(***************************************************************************)
(* TenantAdministration with patches that switch, that set a budget, that  *)
(* do both and that name no column.  Value 3 is another spelling of 1.     *)
(***************************************************************************)
EXTENDS TenantAdministration, TLC

MCValues == 0 .. 3
MCStored == [v \in MCValues |-> IF v = 3 THEN 1 ELSE v]

MCPatches ==
  {"id" :> 1, "kill_switch" :> 1, "kill_switch" :> 0, "hard_budget_usd" :> 1,
   "hard_budget_usd" :> 3, ("kill_switch" :> 0) @@ ("hard_budget_usd" :> 2)}

RequestSymmetry == Permutations(Requests)
=============================================================================
