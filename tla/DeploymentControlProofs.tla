----------------------- MODULE DeploymentControlProofs -----------------------
(***************************************************************************)
(* DeploymentControl for any number of policies, deployments, rollbacks    *)
(* and conversations: what its runs check on a small instance is proved of *)
(* every instance, from one inductive invariant.                           *)
(***************************************************************************)
EXTENDS DeploymentControl, TLAPS

\* A rollback target is the id of an earlier deployment.
TargetsAreEarlier == \A d \in Ids : deployments[d].target < d

\* What a rollback read of its deployment and never changes is still true.
DepIsCurrent(r) ==
  pc[r] \in {"target", "commit"} =>
    /\ dep[r] \in Ids
    /\ memDep[r] \in Deployment
    /\ memDep[r].target = deployments[dep[r]].target
    /\ memDep[r].target # 0

\* The target can only have moved towards production since it was read.
TargetOnlyPromoted(r) ==
  pc[r] = "commit" =>
    LET row == deployments[memDep[r].target] IN
    /\ memTarget[r] \in Deployment
    /\ memTarget[r].stage = "production" => row.stage = "production"
    /\ memTarget[r].traffic = 100 => row.traffic = 100

\* A conversation is bound to a deployment that is there, and whatever
\* answered in it is what would answer now.
BoundForLife(c) ==
  IF served[c] = Absent THEN used[c] = {}
  ELSE served[c] \in Ids \cup {0} /\ used[c] \subseteq {PolicyOf(served[c])}

IInv ==
  /\ TypeOK
  /\ DeployedIsSigned
  /\ TargetsAreEarlier
  /\ RolledBackHasTarget
  /\ \A r \in Requests : DepIsCurrent(r) /\ TargetOnlyPromoted(r)
  /\ \A c \in Conversations : BoundForLife(c)

-----------------------------------------------------------------------------
\* What changes in the table, whatever action changes it: rows are added or
\* two columns-groups of existing ones change, in one direction.

\* Every row keeps its policy and its target, and goes only to production.
Keeps ==
  /\ Len(deployments) <= Len(deployments')
  /\ \A d \in Ids :
       /\ deployments'[d].policy = deployments[d].policy
       /\ deployments'[d].target = deployments[d].target
       /\ deployments[d].stage = "production" => deployments'[d].stage = "production"
       /\ deployments[d].traffic = 100 => deployments'[d].traffic = 100

LEMMA InitIInv == Init => IInv
  BY DEF Init, IInv, TypeOK, DeployedIsSigned, TargetsAreEarlier, RolledBackHasTarget,
         DepIsCurrent, TargetOnlyPromoted, BoundForLife, Ids, Read, Unread, Deployment

\* The two rows a rollback writes, and no other, change.
LEMMA RollbackRows ==
  ASSUME IInv, NEW r \in Requests, CommitRollback(r)
  PROVE  /\ dep[r] \in Ids
         /\ memDep[r].target \in Ids
         /\ memDep[r].target # dep[r]
         /\ deployments' \in Seq(Deployment)
         /\ Len(deployments') = Len(deployments)
         /\ deployments'[dep[r]] = RolledBack(deployments[dep[r]], memDep[r])
         /\ deployments'[memDep[r].target] =
              Promoted(deployments[memDep[r].target], memTarget[r])
         /\ \A d \in Ids \ {dep[r], memDep[r].target} : deployments'[d] = deployments[d]
<1> DEFINE d == dep[r]
           t == memDep[r].target
<1>1. /\ d \in Ids /\ memDep[r] \in Deployment /\ t = deployments[d].target /\ t # 0
      /\ memTarget[r] \in Deployment
  BY DEF IInv, CommitRollback, DepIsCurrent, TargetOnlyPromoted
<1>2. deployments \in Seq(Deployment)
  BY DEF IInv, TypeOK
<1>3. deployments[d] \in Deployment
  BY <1>1, <1>2 DEF Ids
<1>4. t \in Nat /\ t < d
  BY <1>1, <1>3 DEF IInv, TargetsAreEarlier, Deployment
<1>5. t \in Ids /\ t # d
  BY <1>1, <1>2, <1>4 DEF Ids
<1>6. deployments[t] \in Deployment
  BY <1>5, <1>2 DEF Ids
<1>7. RolledBack(deployments[d], memDep[r]) \in Deployment
  BY <1>1, <1>3 DEF RolledBack, Flushed, Deployment
<1>8. Promoted(deployments[t], memTarget[r]) \in Deployment
  BY <1>1, <1>6 DEF Promoted, Flushed, Deployment, Stages
<1>9. deployments' = [deployments EXCEPT ![d] = RolledBack(@, memDep[r]),
                                         ![t] = Promoted(@, memTarget[r])]
  BY DEF CommitRollback
<1> HIDE DEF d, t
<1>10. QED
  BY <1>1, <1>2, <1>5, <1>7, <1>8, <1>9 DEF Ids, d, t

LEMMA StepKeeps ==
  ASSUME IInv, Next
  PROVE  Keeps
<1> USE DEF Ids
<1>1. deployments \in Seq(Deployment)
  BY DEF IInv, TypeOK
<1>2. CASE UNCHANGED deployments
  BY <1>1, <1>2 DEF Keeps
<1>3. CASE \E p \in Policies, stage \in Stages, traffic \in Traffic, target \in Ids \cup {0} :
             CreateDeployment(p, stage, traffic, target)
  <2>1. PICK row : deployments' = Append(deployments, row)
    BY <1>3 DEF CreateDeployment
  <2>2. QED
    BY <1>1, <2>1 DEF Keeps
<1>4. ASSUME NEW r \in Requests, CommitRollback(r)
      PROVE  Keeps
  <2> DEFINE t == memDep[r].target
  <2>1. memDep[r] \in Deployment /\ memTarget[r] \in Deployment
    BY <1>4 DEF IInv, CommitRollback, DepIsCurrent, TargetOnlyPromoted
  <2>2. SUFFICES ASSUME NEW d \in Ids
                 PROVE  /\ deployments'[d].policy = deployments[d].policy
                        /\ deployments'[d].target = deployments[d].target
                        /\ deployments[d].stage = "production" =>
                             deployments'[d].stage = "production"
                        /\ deployments[d].traffic = 100 => deployments'[d].traffic = 100
    BY <1>1, <1>4, RollbackRows DEF Keeps
  <2>3. deployments[d] \in Deployment
    BY <1>1
  <2>4. CASE d = dep[r]
    BY <1>4, <2>3, <2>4, RollbackRows DEF RolledBack, Deployment
  <2>5. CASE d = t
    <3>1. deployments'[d] = Promoted(deployments[d], memTarget[r])
      BY <1>4, <2>5, RollbackRows
    <3>2. QED
      BY <2>1, <2>3, <3>1 DEF Promoted, Flushed, Deployment
  <2>6. CASE d \notin {dep[r], t}
    BY <1>4, <2>6, RollbackRows
  <2>7. QED
    BY <2>4, <2>5, <2>6
<1>5. QED
  BY <1>2, <1>3, <1>4 DEF Next, Sign, ReadDeployment, ReadTarget, CrashRollback,
     OpenConversation, Branch, Turn, OpenChat, table

-----------------------------------------------------------------------------
LEMMA StepTypeOK ==
  ASSUME IInv, Next
  PROVE  TypeOK'
<1> USE DEF IInv, TypeOK, Ids
<1>1. ASSUME NEW p \in Policies, Sign(p) PROVE TypeOK'
  BY <1>1 DEF Sign
<1>2. ASSUME NEW p \in Policies, NEW stage \in Stages, NEW traffic \in Traffic,
             NEW target \in Ids \cup {0}, CreateDeployment(p, stage, traffic, target)
      PROVE  TypeOK'
  BY <1>2, TrafficAssumption DEF CreateDeployment, Deployment
<1>3. ASSUME NEW r \in Requests, NEW d \in Ids, ReadDeployment(r, d) PROVE TypeOK'
  BY <1>3 DEF ReadDeployment, table, Read
<1>4. ASSUME NEW r \in Requests, ReadTarget(r) PROVE TypeOK'
  <2>1. deployments[dep[r]] \in Deployment /\ memDep[r].target = deployments[dep[r]].target
        /\ dep[r] \in Ids /\ memDep[r].target # 0
    BY <1>4 DEF ReadTarget, DepIsCurrent
  <2>2. memDep[r].target \in Ids
    BY <2>1 DEF TargetsAreEarlier, Deployment
  <2>3. deployments[memDep[r].target] \in Read
    BY <2>2 DEF Read
  <2>4. QED
    BY <1>4, <2>3 DEF ReadTarget, table
<1>5. ASSUME NEW r \in Requests, CommitRollback(r) PROVE TypeOK'
  <2>1. deployments' \in Seq(Deployment)
    BY <1>5, RollbackRows
  <2>2. QED
    BY <1>5, <2>1 DEF CommitRollback, Close, Read
<1>6. ASSUME NEW r \in Requests, CrashRollback(r) PROVE TypeOK'
  BY <1>6 DEF CrashRollback, Close, table, Read
<1>7. ASSUME NEW c \in Conversations, NEW d \in Ids \cup {0}, OpenConversation(c, d)
      PROVE  TypeOK'
  BY <1>7 DEF OpenConversation
<1>8. ASSUME NEW c \in Conversations, NEW source \in Conversations, Branch(source, c)
      PROVE  TypeOK'
  BY <1>8 DEF Branch
<1>9. ASSUME NEW c \in Conversations, Turn(c) PROVE TypeOK'
  <2>1. PolicyOf(served[c]) \in Policies \cup {Default}
    <3>1. served[c] \in Ids \cup {0}
      BY <1>9 DEF Turn, BoundForLife
    <3>2. served[c] # 0 => deployments[served[c]] \in Deployment
      BY <3>1
    <3>3. QED
      BY <3>1, <3>2 DEF PolicyOf, Deployment
  <2>2. QED
    BY <1>9, <2>1 DEF Turn
<1>10. ASSUME NEW c \in Conversations, NEW d \in Ids, OpenChat(c, d) PROVE TypeOK'
  <2>1. deployments[d] \in Deployment /\ PolicyOf(d) = deployments[d].policy
    BY DEF PolicyOf
  <2>2. QED
    BY <1>10, <2>1 DEF OpenChat, Deployment
<1>11. QED
  BY <1>1, <1>2, <1>3, <1>4, <1>5, <1>6, <1>7, <1>8, <1>9, <1>10 DEF Next

LEMMA StepTargetsAreEarlier ==
  ASSUME IInv, Next
  PROVE  TargetsAreEarlier'
<1> USE DEF Ids
<1>1. deployments \in Seq(Deployment) /\ TargetsAreEarlier /\ Keeps
  BY StepKeeps DEF IInv, TypeOK
<1>2. CASE Len(deployments') = Len(deployments)
  BY <1>1, <1>2 DEF TargetsAreEarlier, Keeps
<1>3. ASSUME NEW p \in Policies, NEW stage \in Stages, NEW traffic \in Traffic,
             NEW target \in Ids \cup {0}, CreateDeployment(p, stage, traffic, target)
      PROVE  TargetsAreEarlier'
  BY <1>1, <1>3 DEF CreateDeployment, TargetsAreEarlier
<1>4. ASSUME NEW r \in Requests, CommitRollback(r)
      PROVE  Len(deployments') = Len(deployments)
  BY <1>4, RollbackRows
<1>5. QED
  BY <1>2, <1>3, <1>4 DEF Next, Sign, ReadDeployment, ReadTarget, CrashRollback,
     OpenConversation, Branch, Turn, OpenChat, table

LEMMA StepDeployedIsSigned ==
  ASSUME IInv, Next
  PROVE  DeployedIsSigned'
<1> USE DEF Ids
<1>1. deployments \in Seq(Deployment) /\ DeployedIsSigned /\ Keeps
  BY StepKeeps DEF IInv, TypeOK
<1>2. CASE Len(deployments') = Len(deployments) /\ signed \subseteq signed'
  BY <1>1, <1>2 DEF DeployedIsSigned, Keeps
<1>3. ASSUME NEW p \in Policies, NEW stage \in Stages, NEW traffic \in Traffic,
             NEW target \in Ids \cup {0}, CreateDeployment(p, stage, traffic, target)
      PROVE  DeployedIsSigned'
  BY <1>1, <1>3 DEF CreateDeployment, DeployedIsSigned
<1>4. ASSUME NEW r \in Requests, CommitRollback(r)
      PROVE  Len(deployments') = Len(deployments) /\ signed \subseteq signed'
  BY <1>4, RollbackRows DEF CommitRollback
<1>5. QED
  BY <1>2, <1>3, <1>4 DEF Next, Sign, ReadDeployment, ReadTarget, CrashRollback,
     OpenConversation, Branch, Turn, OpenChat, table

LEMMA StepRolledBackHasTarget ==
  ASSUME IInv, Next
  PROVE  RolledBackHasTarget'
<1> USE DEF Ids
<1>1. deployments \in Seq(Deployment) /\ RolledBackHasTarget
  BY DEF IInv, TypeOK
<1>2. CASE UNCHANGED deployments
  BY <1>1, <1>2 DEF RolledBackHasTarget
<1>3. ASSUME NEW p \in Policies, NEW stage \in Stages, NEW traffic \in Traffic,
             NEW target \in Ids \cup {0}, CreateDeployment(p, stage, traffic, target)
      PROVE  RolledBackHasTarget'
  BY <1>1, <1>3 DEF CreateDeployment, RolledBackHasTarget
<1>4. ASSUME NEW r \in Requests, CommitRollback(r)
      PROVE  RolledBackHasTarget'
  <2>1. SUFFICES ASSUME NEW d \in Ids, deployments'[d].status = "rolled_back"
                 PROVE  deployments'[d].target \in 1..(d - 1)
    BY <1>4, RollbackRows DEF RolledBackHasTarget
  <2>2. deployments'[d].target = deployments[d].target
    BY <2>1, StepKeeps DEF Keeps
  <2>3. deployments[d] \in Deployment
    BY <1>1
  <2>4. CASE d = dep[r]
    <3>1. /\ memDep[r].target = deployments[d].target
          /\ memDep[r].target # 0
      BY <1>4, <2>4 DEF IInv, CommitRollback, DepIsCurrent
    <3>2. deployments[d].target < d
      BY <2>1 DEF IInv, TargetsAreEarlier
    <3>3. QED
      BY <2>1, <2>2, <2>3, <3>1, <3>2 DEF Deployment
  <2>5. CASE d = memDep[r].target /\ d # dep[r]
    <3>1. deployments'[d] = Promoted(deployments[d], memTarget[r])
      BY <1>4, <2>5, RollbackRows
    <3>2. deployments'[d].status = Flushed(deployments[d].status, memTarget[r].status,
                                           "active")
      BY <2>3, <3>1 DEF Promoted, Deployment
    <3>3. deployments[d].status = "rolled_back"
      BY <2>1, <3>2 DEF Flushed
    <3>4. QED
      BY <1>1, <2>1, <2>2, <3>3 DEF RolledBackHasTarget
  <2>6. CASE d \notin {dep[r], memDep[r].target}
    <3>1. deployments'[d] = deployments[d]
      BY <1>4, <2>6, RollbackRows
    <3>2. QED
      BY <1>1, <2>1, <3>1 DEF RolledBackHasTarget
  <2>7. QED
    BY <2>4, <2>5, <2>6
<1>5. QED
  BY <1>2, <1>3, <1>4 DEF Next, Sign, ReadDeployment, ReadTarget, CrashRollback,
     OpenConversation, Branch, Turn, OpenChat, table

-----------------------------------------------------------------------------
\* What a session has read does not change while others write.

LEMMA StepDepIsCurrent ==
  ASSUME IInv, Next, NEW r \in Requests
  PROVE  DepIsCurrent(r)'
<1> USE DEF Ids
<1>1. /\ deployments \in Seq(Deployment) /\ Keeps /\ DepIsCurrent(r)
      /\ pc \in [Requests -> {"idle", "target", "commit", "ok", "failed"}]
      /\ dep \in [Requests -> Nat]
      /\ memDep \in [Requests -> Read]
  BY StepKeeps DEF IInv, TypeOK
<1>2. CASE pc'[r] \notin {"target", "commit"}
  BY <1>2 DEF DepIsCurrent
<1>3. CASE /\ pc[r] \in {"target", "commit"}
           /\ dep'[r] = dep[r] /\ memDep'[r] = memDep[r]
  <2>1. DepIsCurrent(r)!2
    BY <1>1, <1>3 DEF DepIsCurrent
  <2>2. dep[r] \in Ids' /\ deployments'[dep[r]].target = deployments[dep[r]].target
    BY <1>1, <2>1 DEF Keeps
  <2>3. QED
    BY <1>3, <2>1, <2>2 DEF DepIsCurrent
<1>4. ASSUME NEW d \in Ids, ReadDeployment(r, d)
      PROVE  DepIsCurrent(r)'
  BY <1>1, <1>4 DEF ReadDeployment, DepIsCurrent, table
<1>5. CASE pc'[r] = pc[r] /\ dep'[r] = dep[r] /\ memDep'[r] = memDep[r]
  BY <1>2, <1>3, <1>5
<1>6. ASSUME NEW s \in Requests, ReadTarget(s)
      PROVE  DepIsCurrent(r)'
  BY <1>1, <1>3, <1>5, <1>6 DEF ReadTarget
<1>7. ASSUME NEW s \in Requests, CommitRollback(s) \/ CrashRollback(s)
      PROVE  DepIsCurrent(r)'
  BY <1>1, <1>2, <1>5, <1>7 DEF CommitRollback, CrashRollback, Close
<1>8. ASSUME NEW s \in Requests, NEW d \in Ids, ReadDeployment(s, d)
      PROVE  DepIsCurrent(r)'
  BY <1>1, <1>4, <1>5, <1>8 DEF ReadDeployment
<1>9. QED
  BY <1>5, <1>6, <1>7, <1>8 DEF Next, Sign, CreateDeployment, OpenConversation, Branch, Turn, OpenChat

LEMMA StepTargetOnlyPromoted ==
  ASSUME IInv, Next, NEW r \in Requests
  PROVE  TargetOnlyPromoted(r)'
<1> USE DEF Ids
<1>1. /\ deployments \in Seq(Deployment) /\ Keeps
      /\ DepIsCurrent(r) /\ TargetOnlyPromoted(r)
      /\ pc \in [Requests -> {"idle", "target", "commit", "ok", "failed"}]
      /\ memDep \in [Requests -> Read]
      /\ memTarget \in [Requests -> Read]
  BY StepKeeps DEF IInv, TypeOK
<1>2. pc[r] \in {"target", "commit"} => memDep[r].target \in Ids
  <2>1. SUFFICES ASSUME pc[r] \in {"target", "commit"}
                 PROVE  memDep[r].target \in Ids
    OBVIOUS
  <2>2. /\ dep[r] \in Ids /\ memDep[r].target = deployments[dep[r]].target
        /\ memDep[r].target # 0
    BY <1>1, <2>1 DEF DepIsCurrent
  <2>3. deployments[dep[r]] \in Deployment /\ deployments[dep[r]].target < dep[r]
    BY <1>1, <2>2 DEF IInv, TargetsAreEarlier
  <2>4. deployments[dep[r]].target \in Nat
    BY <2>3 DEF Deployment
  <2>5. QED
    BY <1>1, <2>2, <2>3, <2>4
<1>3. CASE pc'[r] # "commit"
  BY <1>3 DEF TargetOnlyPromoted
<1>4. CASE pc[r] = "commit" /\ memDep'[r] = memDep[r] /\ memTarget'[r] = memTarget[r]
  BY <1>1, <1>2, <1>4 DEF TargetOnlyPromoted, Keeps
<1>5. CASE pc'[r] = pc[r] /\ memDep'[r] = memDep[r] /\ memTarget'[r] = memTarget[r]
  BY <1>3, <1>4, <1>5
<1>6. ASSUME ReadTarget(r)
      PROVE  TargetOnlyPromoted(r)'
  <2>1. deployments[memDep[r].target] \in Deployment
    BY <1>1, <1>2, <1>6 DEF ReadTarget
  <2>2. /\ memTarget'[r] = deployments[memDep[r].target]
        /\ memDep' = memDep /\ deployments' = deployments
    BY <1>1, <1>6 DEF ReadTarget, table
  <2>3. QED
    BY <2>1, <2>2 DEF TargetOnlyPromoted
<1>7. ASSUME NEW s \in Requests, s # r, ReadTarget(s)
      PROVE  TargetOnlyPromoted(r)'
  BY <1>1, <1>5, <1>7 DEF ReadTarget
<1>8. ASSUME NEW s \in Requests, CommitRollback(s) \/ CrashRollback(s)
      PROVE  TargetOnlyPromoted(r)'
  BY <1>1, <1>3, <1>5, <1>8 DEF CommitRollback, CrashRollback, Close
<1>9. ASSUME NEW s \in Requests, NEW d \in Ids, ReadDeployment(s, d)
      PROVE  TargetOnlyPromoted(r)'
  BY <1>1, <1>3, <1>5, <1>9 DEF ReadDeployment
<1>10. QED
  BY <1>5, <1>6, <1>7, <1>8, <1>9 DEF Next, Sign, CreateDeployment, OpenConversation,
     Branch, Turn, OpenChat

LEMMA StepBoundForLife ==
  ASSUME IInv, Next, NEW c \in Conversations
  PROVE  BoundForLife(c)'
<1> USE DEF Ids
<1>1. /\ deployments \in Seq(Deployment) /\ Keeps
      /\ \A b \in Conversations : BoundForLife(b)
      /\ served \in [Conversations -> Nat \cup {Absent}]
      /\ used \in [Conversations -> SUBSET (Policies \cup {Default})]
  BY StepKeeps DEF IInv, TypeOK
<1>2. ASSUME NEW d \in Ids \cup {0}
      PROVE  d \in Ids' \cup {0} /\ PolicyOf(d)' = PolicyOf(d)
  BY <1>1, <1>2 DEF Keeps, PolicyOf
<1>3. CASE served'[c] = served[c] /\ used'[c] = used[c]
  BY <1>1, <1>2, <1>3 DEF BoundForLife
<1>4. ASSUME NEW b \in Conversations, NEW d \in Ids \cup {0}, OpenConversation(b, d)
      PROVE  BoundForLife(c)'
  <2>1. CASE b # c
    BY <1>1, <1>3, <1>4, <2>1 DEF OpenConversation
  <2>2. CASE b = c
    <3>1. served'[c] = d /\ used'[c] = {}
      BY <1>1, <1>4, <2>2 DEF OpenConversation, BoundForLife
    <3>2. d # Absent
      BY <1>1, AbsentAssumption
    <3>3. QED
      BY <1>2, <3>1, <3>2 DEF BoundForLife
  <2>3. QED
    BY <2>1, <2>2
<1>5. ASSUME NEW source \in Conversations, NEW b \in Conversations, Branch(source, b)
      PROVE  BoundForLife(c)'
  <2>1. CASE b # c
    BY <1>1, <1>3, <1>5, <2>1 DEF Branch
  <2>2. CASE b = c
    <3>1. served'[c] = served[source] /\ used'[c] = {} /\ served[source] # Absent
      BY <1>1, <1>5, <2>2 DEF Branch, BoundForLife
    <3>2. served[source] \in Ids \cup {0}
      BY <1>1, <3>1 DEF BoundForLife
    <3>3. QED
      BY <1>2, <3>1, <3>2 DEF BoundForLife
  <2>3. QED
    BY <2>1, <2>2
<1>6. ASSUME NEW b \in Conversations, Turn(b)
      PROVE  BoundForLife(c)'
  <2>1. CASE b # c
    BY <1>1, <1>3, <1>6, <2>1 DEF Turn
  <2>2. CASE b = c
    <3>1. /\ served'[c] = served[c] /\ served[c] # Absent
          /\ used'[c] = used[c] \cup {PolicyOf(served[c])}
      BY <1>1, <1>6, <2>2 DEF Turn
    <3>2. served[c] \in Ids \cup {0} /\ used[c] \subseteq {PolicyOf(served[c])}
      BY <1>1, <3>1 DEF BoundForLife
    <3>3. QED
      BY <1>2, <3>1, <3>2 DEF BoundForLife
  <2>3. QED
    BY <2>1, <2>2
<1>7. ASSUME NEW b \in Conversations, NEW d \in Ids, OpenChat(b, d)
      PROVE  BoundForLife(c)'
  <2>1. CASE b # c
    BY <1>1, <1>3, <1>7, <2>1 DEF OpenChat
  <2>2. CASE b = c
    <3>1. served'[c] = d /\ used'[c] = {PolicyOf(d)}
      BY <1>1, <1>7, <2>2 DEF OpenChat, BoundForLife
    <3>2. d # Absent
      BY <1>1, AbsentAssumption
    <3>3. QED
      BY <1>2, <3>1, <3>2 DEF BoundForLife
  <2>3. QED
    BY <2>1, <2>2
<1>8. QED
  BY <1>3, <1>4, <1>5, <1>6, <1>7 DEF Next, Sign, CreateDeployment, ReadDeployment, ReadTarget,
     CommitRollback, CrashRollback, table

LEMMA StepIInv == IInv /\ [Next]_vars => IInv'
<1>1. ASSUME IInv, Next
      PROVE  IInv'
  BY <1>1, StepTypeOK, StepTargetsAreEarlier, StepDeployedIsSigned,
     StepRolledBackHasTarget, StepDepIsCurrent, StepTargetOnlyPromoted, StepBoundForLife
     DEF IInv
<1>2. ASSUME IInv, UNCHANGED vars
      PROVE  IInv'
  BY <1>2 DEF vars, IInv, TypeOK, DeployedIsSigned, TargetsAreEarlier,
     RolledBackHasTarget, DepIsCurrent, TargetOnlyPromoted, BoundForLife, PolicyOf, Ids
<1>3. QED
  BY <1>1, <1>2

LEMMA InvariantHolds == Spec => []IInv
  BY InitIInv, StepIInv, PTL DEF Spec

-----------------------------------------------------------------------------
\* Every variable keeps its type, for any number of deployments.
THEOREM TypeCorrectness == Spec => []TypeOK
<1>1. IInv => TypeOK
  BY DEF IInv
<1>2. QED
  BY <1>1, InvariantHolds, PTL

\* Whatever was rolled back, every deployment's policy is signed.
THEOREM OnlySignedIsDeployed == Spec => []DeployedIsSigned
<1>1. IInv => DeployedIsSigned
  BY DEF IInv
<1>2. QED
  BY <1>1, InvariantHolds, PTL

\* A deployment that is rolled back has an earlier one to fall back on, so
\* the first of every chain is active, whatever rollbacks race.
THEOREM RollbackHasRefuge == Spec => []RolledBackHasTarget
<1>1. IInv => RolledBackHasTarget
  BY DEF IInv
<1>2. QED
  BY <1>1, InvariantHolds, PTL

\* One policy answers a conversation from its first turn to its last.
THEOREM ConversationKeepsPolicy == Spec => []OnePolicyPerConversation
<1>1. IInv => OnePolicyPerConversation
  BY DEF IInv, BoundForLife, OnePolicyPerConversation
<1>2. QED
  BY <1>1, InvariantHolds, PTL

\* A rollback that commits leaves its target in production with all the
\* traffic, although it may have read that target before others wrote it.
THEOREM RollbackPromotes == Spec => RollbackPromotesTarget
<1> DEFINE Promotes == \A r \in Requests : pc[r] = "commit" /\ pc'[r] = "ok" =>
                         /\ deployments'[memDep[r].target].stage = "production"
                         /\ deployments'[memDep[r].target].traffic = 100
<1>1. IInv /\ [Next]_vars => [Promotes]_vars
  <2>1. SUFFICES ASSUME IInv, Next, NEW r \in Requests, pc[r] = "commit", pc'[r] = "ok"
                 PROVE  /\ deployments'[memDep[r].target].stage = "production"
                        /\ deployments'[memDep[r].target].traffic = 100
    OBVIOUS
  <2>2. CommitRollback(r)
    BY <2>1 DEF IInv, TypeOK, Next, Sign, CreateDeployment, ReadDeployment, ReadTarget,
       CommitRollback, CrashRollback, Close, OpenConversation, Branch, Turn, OpenChat
  <2> DEFINE row == deployments[memDep[r].target]
  <2>3. /\ deployments'[memDep[r].target] = Promoted(row, memTarget[r])
        /\ memDep[r].target \in Ids
    BY <2>1, <2>2, RollbackRows
  <2>4. row \in Deployment
    BY <2>1, <2>3 DEF IInv, TypeOK, Ids
  <2>5. /\ memTarget[r].stage = "production" => row.stage = "production"
        /\ memTarget[r].traffic = 100 => row.traffic = 100
    BY <2>1 DEF IInv, TargetOnlyPromoted
  <2>6. QED
    BY <2>3, <2>4, <2>5 DEF Promoted, Flushed, Deployment
<1>2. QED
  BY <1>1, InvariantHolds, PTL DEF Spec, RollbackPromotesTarget
=============================================================================
