----------------------- MODULE NodeOperatorAddresses -----------------------
(***************************************************************************)
(* Proofs about NodeOperator, for any number of Eips, nodes, addresses and *)
(* ports: the types; that the addresses are safe; and that it implements   *)
(* the ledger.  What is not a step of the Eip controller or of a user      *)
(* leaves the addresses alone.                                             *)
(***************************************************************************)
EXTENDS NodeOperator, EipAddressesProofs

\* The idle task is a task.
LEMMA IdleTaskType == IdleTask \in Task
BY DEF IdleTask, Task

\* The types hold at first.
LEMMA InitTypes == Init => TypeOK
BY CoreInitTypes, NoneTypes, IdleTaskType
DEF Init, NodeControllerInit, TypeOK, CoreTypeOK, NodeControllerTypeOK

\* Every step of the reconciliation of an Eip keeps the types.
LEMMA EipStepTypes ==
  ASSUME TypeOK, NEW e \in Eip, UNCHANGED nodeCtlVars,
         EipStep(e) \/ EipFault(e) \/ EipResync(e)
  PROVE  TypeOK'
<1>1. CoreTypeOK'
  BY EipControllerTypes DEF TypeOK, CoreTypeOK
<1> QED BY <1>1 DEF TypeOK, CoreTypeOK, NodeControllerTypeOK, nodeCtlVars

-----------------------------------------------------------------------------
(* Types: the node controller.                                             *)

\* The task goes on to another task state.
LEMMA ContinueType ==
  ASSUME task \in [Resource -> Task], NEW n \in Resource, NEW t \in Task, Continue(n, t)
  PROVE  task' \in [Resource -> Task]
BY DEF Continue

\* The reconciliation of a node ends.
LEMMA NodeEndType ==
  ASSUME task \in [Resource -> Task], resQueue \in SUBSET Resource,
         NEW n \in Resource, NEW again \in BOOLEAN, NodeEnd(n, again)
  PROVE  task' \in [Resource -> Task] /\ resQueue' \in SUBSET Resource
BY IdleTaskType DEF NodeEnd, Continue

\* Every step of the reconciliation of a node keeps the types.
LEMMA NodeControllerTypes ==
  ASSUME TypeOK, NEW n \in Resource, UNCHANGED eipCtlVars,
         NodeStep(n, FreeAssocs) \/ NodeFails(n) \/ NodeResync(n)
  PROVE  TypeOK'
<1> USE DEF TypeOK, ClusterTypeOK, EipControllerTypeOK, NodeControllerTypeOK,
            eipVars, resVars, awsVars, eipCtlVars
<1>a. /\ task[n] \in Task
      /\ res[n] \in ResourceObject
      /\ cachedRes[n] \in ResourceObject
      /\ \A e \in Eip : status[e] \in EipStatus
  OBVIOUS
<1>b. n \in Holder
  BY DEF Holder
<1>c. /\ task[n].eip \in Eip \cup {None}
      /\ task[n].port \in Port \cup {None}
      /\ task[n].alloc \in AllocId \cup {None}
      /\ task[n].assoc \in AssocId \cup {None}
      /\ task[n].todo \in SUBSET (Eip \X (AllocId \cup {None}))
  BY <1>a DEF Task
<1>d. cachedRes[n].port \in Port \cup {None}
  BY <1>a DEF ResourceObject
<1>e. \A e \in Eip : status[e].alloc \in AllocId \cup {None}
  BY <1>a DEF EipStatus
<1>f. \A a \in AllocId : attached[a].assoc \in AssocId \cup {None}
  BY DEF Attachment
<1>1. CASE NodeWatch(n)
  BY <1>1 DEF NodeWatch
<1>2. CASE NodeResync(n)
  BY <1>2 DEF NodeResync
<1>3. CASE NodeAddFinalizer(n)
  <2>1. [res[n] EXCEPT !.finalizer = TRUE] \in ResourceObject
    BY <1>a DEF ResourceObject
  <2>2. ClusterTypeOK'
    BY <1>3, <2>1, PutResourceType DEF NodeAddFinalizer
  <2> QED BY <1>3, <2>2 DEF NodeAddFinalizer
<1>4. CASE NodeFails(n)
  <2>1. task' \in [Resource -> Task] /\ resQueue' \in SUBSET Resource
    BY <1>4, NodeEndType DEF NodeFails
  <2>2. seen' \in [Eip -> SUBSET Holder]
    BY <1>4, CopyTypes DEF NodeFails
  <2> QED BY <1>4, <2>1, <2>2 DEF NodeFails
<1>5. CASE NodeApply(n)
  <2>1. \A e \in Eip, a \in AllocId \cup {None}, p \in Port \cup {None} :
          /\ [IdleTask EXCEPT !.pc = "describe", !.eip = e, !.port = p, !.alloc = a] \in Task
          /\ [IdleTask EXCEPT !.pc = "release", !.eip = e] \in Task
    BY NoneTypes, IdleTaskType DEF Task
  <2>2. MatchedEips(n) \subseteq Eip
    BY NodeControllerAssumption DEF MatchedEips
  <2>3. ASSUME NEW e \in MatchedEips(n),
               \/ Continue(n, [IdleTask EXCEPT !.pc = "describe", !.eip = e,
                                 !.port = cachedRes[n].port, !.alloc = status[e].alloc])
               \/ Continue(n, [IdleTask EXCEPT !.pc = "release", !.eip = e])
        PROVE  task' \in [Resource -> Task]
    <3>1. e \in Eip /\ status[e].alloc \in AllocId \cup {None}
      BY <1>e, <2>2
    <3> QED BY <1>d, <2>1, <2>3, <3>1, ContinueType
  <2>5. task' \in [Resource -> Task]
    <3> DEFINE open == {e \in MatchedEips(n) : Claimable(n, e)}
               describe(e) == [IdleTask EXCEPT !.pc = "describe", !.eip = e,
                                 !.port = cachedRes[n].port, !.alloc = status[e].alloc]
               release(e) == [IdleTask EXCEPT !.pc = "release", !.eip = e]
    <3>1. \/ UNCHANGED task
          \/ \E e \in open : Continue(n, describe(e)) \/ Continue(n, release(e))
      <4> HIDE DEF describe, release
      <4> QED BY <1>5 DEF NodeApply, describe, release
    <3> QED BY <2>3, <3>1
  <2>4. seen' \in [Eip -> SUBSET Holder]
    <3>1. seen' = seen \/ \E es : seen' = Read(es, n)
      BY <1>5 DEF NodeApply
    <3>2. \A es : Read(es, n) \in [Eip -> SUBSET Holder]
      BY <1>b, CopyTypes
    <3>3. seen \in [Eip -> SUBSET Holder]
      OBVIOUS
    <3> QED BY ONLY <3>1, <3>2, <3>3
  <2> QED BY <1>5, <2>5, <2>4 DEF NodeApply
<1>6. CASE NodeRelease(n)
  <2>1. task' \in [Resource -> Task] /\ resQueue' \in SUBSET Resource
    BY <1>6, NodeEndType DEF NodeRelease
  <2>2. task[n].eip \in Eip => StatusDetached(status[task[n].eip]) \in EipStatus
    BY <1>a, StatusTypes
  <2>3. status' \in [Eip -> EipStatus] /\ seen' \in [Eip -> SUBSET Holder]
    BY <1>6, <2>2, StoreType, CopyTypes DEF NodeRelease
  <2> QED BY <1>6, <2>1, <2>3 DEF NodeRelease
<1>7. CASE NodeDescribe(n)
  <2>1. [task[n] EXCEPT !.pc = "claim"] \in Task
    BY <1>a DEF Task
  <2>2. task' \in [Resource -> Task] /\ resQueue' \in SUBSET Resource
    BY <1>7, <2>1, ContinueType, NodeEndType DEF NodeDescribe
  <2>3. seen' \in [Eip -> SUBSET Holder]
    BY <1>7, CopyTypes DEF NodeDescribe
  <2> QED BY <1>7, <2>2, <2>3 DEF NodeDescribe
<1>8. CASE NodeClaim(n)
  <2>1. [task[n] EXCEPT !.pc = "associate"] \in Task
    BY <1>a DEF Task
  <2>2. task' \in [Resource -> Task] /\ resQueue' \in SUBSET Resource
    BY <1>8, <2>1, ContinueType, NodeEndType DEF NodeClaim
  <2>3. task[n].eip \in Eip =>
          StatusShouldAttach(status[task[n].eip], n, task[n].port) \in EipStatus
    BY <1>a, <1>c, StatusTypes
  <2>4. status' \in [Eip -> EipStatus] /\ seen' \in [Eip -> SUBSET Holder]
    BY <1>8, <2>3, StoreType, CopyTypes DEF NodeClaim
  <2> QED BY <1>8, <2>2, <2>4 DEF NodeClaim
<1>9. ASSUME NEW x \in AssocId, NodeAssociate(n, x) PROVE TypeOK'
  <2>1. [IdleTask EXCEPT !.pc = "record", !.eip = task[n].eip, !.assoc = x] \in Task
    BY <1>c, NoneTypes, IdleTaskType DEF Task
  <2>2. task' \in [Resource -> Task] /\ resQueue' \in SUBSET Resource
    BY <1>9, <2>1, ContinueType, NodeEndType DEF NodeAssociate
  <2>3. [port |-> task[n].port, assoc |-> x] \in Attachment
    BY <1>c DEF Attachment
  <2>4. attached' \in [AllocId -> Attachment] /\ UNCHANGED <<owner, allocated>>
    BY <1>9, <2>3, NoneTypes, IdleTaskType DEF NodeAssociate, associate_eip
  <2> QED BY <1>9, <2>2, <2>4 DEF NodeAssociate
<1>10. CASE NodeRecord(n)
  <2>1. task' \in [Resource -> Task] /\ resQueue' \in SUBSET Resource
    BY <1>10, NodeEndType DEF NodeRecord
  <2>2. task[n].eip \in Eip =>
          StatusAssociationId(status[task[n].eip], task[n].assoc) \in EipStatus
    BY <1>a, <1>c, StatusTypes
  <2>3. status' \in [Eip -> EipStatus] /\ seen' \in [Eip -> SUBSET Holder]
    BY <1>10, <2>2, StoreType DEF NodeRecord
  <2> QED BY <1>10, <2>1, <2>3 DEF NodeRecord
<1>11. CASE NodeCleanup(n)
  <2> DEFINE held == {e \in MatchedEips(n) : status[e].present /\ status[e].resource = n}
             todo == {<<e, status[e].alloc>> : e \in held}
  <2>1. held \subseteq Eip
    BY NodeControllerAssumption DEF MatchedEips
  <2>2. todo \in SUBSET (Eip \X (AllocId \cup {None}))
    BY <1>e, <2>1
  <2>3. Continue(n, [IdleTask EXCEPT !.pc = CleanupStep(todo), !.todo = todo])
    BY <1>11 DEF NodeCleanup
  <2>4. [IdleTask EXCEPT !.pc = CleanupStep(todo), !.todo = todo] \in Task
    <3> HIDE DEF todo
    <3> QED BY <2>2, NoneTypes, IdleTaskType DEF Task, CleanupStep
  <2>5. task' \in [Resource -> Task]
    BY <2>3, <2>4, ContinueType
  <2>6. seen' \in [Eip -> SUBSET Holder]
    BY <1>11, <1>b, CopyTypes DEF NodeCleanup
  <2> QED BY <1>11, <2>5, <2>6 DEF NodeCleanup
<1>12. CASE NodeCleanupDescribe(n)
  <2>1. PICK t \in task[n].todo :
          IF t[2] \in allocated
            THEN /\ Continue(n, [task[n] EXCEPT !.eip = t[1], !.assoc = attached[t[2]].assoc,
                      !.pc = IF attached[t[2]].assoc = None THEN "detach" ELSE "disassociate"])
                 /\ UNCHANGED <<seen, resQueue>>
            ELSE NodeEnd(n, TRUE) /\ seen' = Forget(n)
    BY <1>12 DEF NodeCleanupDescribe
  <2>2. t[1] \in Eip
    BY <1>c
  <2>3. \A x \in AssocId \cup {None}, pc \in {"detach", "disassociate"} :
          [task[n] EXCEPT !.eip = t[1], !.assoc = x, !.pc = pc] \in Task
    BY <1>a, <2>2 DEF Task
  <2>4. task' \in [Resource -> Task] /\ resQueue' \in SUBSET Resource
    BY <1>f, <2>1, <2>3, ContinueType, NodeEndType
  <2>5. seen' \in [Eip -> SUBSET Holder]
    BY <2>1, CopyTypes
  <2> QED BY <1>12, <2>4, <2>5 DEF NodeCleanupDescribe
<1>13. CASE NodeCleanupDisassociate(n)
  <2>1. [task[n] EXCEPT !.pc = "detach", !.assoc = None] \in Task
    BY <1>a DEF Task
  <2>2. task' \in [Resource -> Task]
    BY <1>13, <2>1, ContinueType DEF NodeCleanupDisassociate
  <2>3. attached' \in [AllocId -> Attachment]
    BY <1>13, NoneTypes, IdleTaskType DEF NodeCleanupDisassociate, disassociate_eip
  <2> QED BY <1>13, <2>2, <2>3 DEF NodeCleanupDisassociate, disassociate_eip
<1>14. CASE NodeCleanupDetach(n)
  <2> DEFINE rest == {s \in task[n].todo : s[1] # task[n].eip}
  <2>1. [IdleTask EXCEPT !.pc = CleanupStep(rest), !.todo = rest] \in Task
    <3>1. rest \in SUBSET (Eip \X (AllocId \cup {None}))
      BY <1>c
    <3> HIDE DEF rest
    <3> QED BY <3>1, NoneTypes, IdleTaskType DEF Task, CleanupStep
  <2>2. task' \in [Resource -> Task] /\ resQueue' \in SUBSET Resource
    BY <1>14, <2>1, ContinueType, NodeEndType DEF NodeCleanupDetach
  <2>3. task[n].eip \in Eip => StatusDetached(status[task[n].eip]) \in EipStatus
    BY <1>a, StatusTypes
  <2>4. status' \in [Eip -> EipStatus] /\ seen' \in [Eip -> SUBSET Holder]
    BY <1>14, <2>3, StoreType, CopyTypes DEF NodeCleanupDetach
  <2> QED BY <1>14, <2>2, <2>4 DEF NodeCleanupDetach
<1>15. CASE NodeCleanupLabel(n)
  <2>1. [IdleTask EXCEPT !.pc = "finalize"] \in Task
    BY NoneTypes, IdleTaskType DEF Task
  <2>2. task' \in [Resource -> Task]
    BY <1>15, <2>1, ContinueType DEF NodeCleanupLabel
  <2>3. seen' \in [Eip -> SUBSET Holder]
    BY <1>15, CopyTypes DEF NodeCleanupLabel
  <2> QED BY <1>15, <2>2, <2>3 DEF NodeCleanupLabel
<1>16. CASE NodeRemoveFinalizer(n)
  <2>1. [res[n] EXCEPT !.finalizer = FALSE] \in ResourceObject
    BY <1>a DEF ResourceObject
  <2>2. task' \in [Resource -> Task] /\ resQueue' \in SUBSET Resource
    BY <1>16, <1>a, NodeEndType DEF NodeRemoveFinalizer, ResourceObject
  <2>3. ClusterTypeOK'
    BY <1>16, <2>1, NoneTypes, IdleTaskType, PutResourceType DEF NodeRemoveFinalizer
  <2>4. egress' \in [Resource -> {"none", "false", "true"}]
    BY <1>16 DEF NodeRemoveFinalizer
  <2> QED BY <1>16, <2>2, <2>3, <2>4 DEF NodeRemoveFinalizer
<1>17. ASSUME FreeAssocs # {}, NodeAssociate(n, CHOOSE x \in FreeAssocs : TRUE)
       PROVE  TypeOK'
  <2>1. (CHOOSE x \in FreeAssocs : TRUE) \in AssocId
    BY <1>17 DEF FreeAssocs
  <2> QED BY <1>9, <1>17, <2>1
<1> QED
  BY <1>1, <1>2, <1>3, <1>4, <1>5, <1>6, <1>7, <1>8, <1>10, <1>11, <1>12, <1>13,
     <1>14, <1>15, <1>16, <1>17
  DEF NodeStep, NodeStart, NodeProgress

-----------------------------------------------------------------------------
(* Types: the environment.                                                 *)

\* So does whatever users, nodes and network interfaces do.
LEMMA EnvironmentTypes == ASSUME TypeOK, Environment PROVE TypeOK'
<1> USE DEF TypeOK, EipControllerTypeOK, NodeControllerTypeOK, eipCtlVars, nodeCtlVars, ctlVars
<1>1. ASSUME NEW e \in Eip, UserCreates(e) \/ UserDeletes(e) PROVE TypeOK'
  <2>1. ClusterTypeOK'
    BY <1>1, CreateEipTypes, DeleteEipTypes DEF UserCreates, UserDeletes
  <2> QED BY <1>1, <2>1 DEF UserCreates, UserDeletes
<1>2. ASSUME NEW n \in Resource, NodeJoins(n) \/ NodeBecomes(n) \/ NodeRelabelled(n)
      PROVE  TypeOK'
  <2>1. ClusterTypeOK'
    BY <1>2, ResourceTypes DEF NodeJoins, NodeBecomes, NodeRelabelled
  <2> QED BY <1>2, <2>1 DEF NodeJoins, NodeBecomes, NodeRelabelled
<1>3. ASSUME NEW n \in Resource, NodeLeaves(n) PROVE TypeOK'
  <2>1. ClusterTypeOK'
    BY <1>3, ResourceTypes DEF NodeLeaves
  <2>2. egress' \in [Resource -> {"none", "false", "true"}]
    BY <1>3 DEF NodeLeaves
  <2> QED BY <1>3, <2>1, <2>2 DEF NodeLeaves
<1>4. ASSUME NEW p \in Port, InterfaceGone(p) PROVE TypeOK'
  <2>1. ClusterTypeOK'
    BY <1>4, NoneTypes DEF ClusterTypeOK, InterfaceGone, PortGone, eipVars, resVars
  <2> QED BY <1>4, <2>1 DEF InterfaceGone
<1> QED BY <1>1, <1>2, <1>3, <1>4 DEF Environment

\* And a crash.
LEMMA CrashTypes == ASSUME TypeOK, Crash PROVE TypeOK'
<1> USE DEF TypeOK, ClusterTypeOK, NodeControllerTypeOK, awsVars
<1>1. seen' \in [Eip -> SUBSET Holder] /\ resSynced' \in SUBSET Resource
  BY DEF Crash, Holder
<1>2. EipControllerTypeOK'
  BY RestartTypes DEF Crash, CoreTypeOK
<1>3. NodeControllerTypeOK'
  BY IdleTaskType DEF Crash, NodeControllerRestart
<1> QED BY <1>1, <1>2, <1>3 DEF Crash

\* Every variable of the operator and of the cluster keeps its type, through
\* every call of both controllers, every failing call and every crash.
THEOREM TypeCorrect == Spec => []TypeOK
<1>1. TypeOK /\ [Next]_vars => TypeOK'
  <2> SUFFICES ASSUME TypeOK, [Next]_vars PROVE TypeOK'
    OBVIOUS
  <2>1. ASSUME NEW e \in Eip, UNCHANGED nodeCtlVars,
               EipStep(e) \/ EipFault(e) \/ EipResync(e)
        PROVE  TypeOK'
    BY <2>1, EipStepTypes
  <2>2. ASSUME NEW n \in Resource, UNCHANGED eipCtlVars,
               NodeStep(n, FreeAssocs) \/ NodeFails(n) \/ NodeResync(n)
        PROVE  TypeOK'
    BY <2>2, NodeControllerTypes
  <2>3. CASE Control
    BY <2>1, <2>2, <2>3 DEF Control, EipControl, NodeControl
  <2>4. CASE Resync
    BY <2>1, <2>2, <2>4 DEF Resync
  <2>5. CASE CallFails
    BY <2>1, <2>2, <2>5 DEF CallFails, EipFault
  <2>6. CASE Crash
    BY <2>6, CrashTypes
  <2>7. CASE Environment
    BY <2>7, EnvironmentTypes
  <2>8. CASE UNCHANGED vars
    BY <2>8 DEF vars, eipVars, resVars, awsVars, eipCtlVars, nodeCtlVars, TypeOK,
                ClusterTypeOK, EipControllerTypeOK, NodeControllerTypeOK
  <2> QED BY <2>3, <2>4, <2>5, <2>6, <2>7, <2>8 DEF Next
<1> QED BY InitTypes, <1>1, PTL DEF Spec

-----------------------------------------------------------------------------
\* The types the lemmas about the Eip controller need.
LEMMA CoreTypes == TypeOK => CoreTypeOK
BY DEF TypeOK, CoreTypeOK

\* Every step of the reconciliation of a node.
LEMMA NodeControllerQuiet ==
  ASSUME TypeOK, AddressInv, NEW n \in Resource, UNCHANGED eipCtlVars,
         NodeStep(n, FreeAssocs) \/ NodeFails(n) \/ NodeResync(n)
  PROVE  Quiet
<1> USE DEF eipVars, awsVars, eipCtlVars
<1>a. \A e \in Eip : status[e] \in EipStatus
  BY DEF TypeOK, ClusterTypeOK
<1>b. \A e \in Eip : n \in seen[e] => Exists(e)
  BY DEF AddressInv, CopiesInv
<1>1. CASE NodeWatch(n) \/ NodeResync(n)
  BY <1>1, ForgetQuiet DEF NodeWatch, NodeResync
<1>2. CASE NodeAddFinalizer(n)
  BY <1>2, ForgetQuiet DEF NodeAddFinalizer, PutResource
<1>3. CASE NodeFails(n)
  BY <1>3, ForgetQuiet DEF NodeFails
<1>4. CASE NodeApply(n)
  <2>1. UNCHANGED <<eip, status, usedUid, owner, allocated>>
    BY <1>4 DEF NodeApply
  <2>2. seen' = seen \/ \E e \in MatchedEips(n) : seen' = Read({e}, n)
    BY <1>4 DEF NodeApply
  <2>3. \A e \in MatchedEips(n) : Exists(e)
    BY DEF MatchedEips
  <2> QED BY <2>1, <2>2, <2>3, ForgetQuiet, ReadQuiet
<1>5. CASE NodeRelease(n)
  BY <1>5, <1>a, <1>b, StatusKeepsAddress, CoreTypes, StoreQuiet, ForgetQuiet DEF NodeRelease
<1>6. CASE NodeDescribe(n)
  BY <1>6, ForgetQuiet DEF NodeDescribe
<1>7. CASE NodeClaim(n)
  <2> DEFINE e == task[n].eip
             s == StatusShouldAttach(status[e], n, task[n].port)
  <2>1. \/ n \in seen[e] /\ Store(e, s, {n})
        \/ seen' = Forget(n) /\ UNCHANGED status
    BY <1>7 DEF NodeClaim
  <2>2. UNCHANGED <<eip, usedUid, owner, allocated>>
    BY <1>7 DEF NodeClaim
  <2>3. e \in Eip => s.alloc = status[e].alloc
    BY <1>a, StatusKeepsAddress
  <2> HIDE DEF e, s
  <2> QED BY <1>b, <2>1, <2>2, <2>3, CoreTypes, StoreQuiet, ForgetQuiet
<1>8. ASSUME NEW x, NodeAssociate(n, x) PROVE Quiet
  BY <1>8, ForgetQuiet DEF NodeAssociate, associate_eip
<1>9. CASE NodeRecord(n)
  BY <1>9, <1>a, StatusKeepsAddress, CoreTypes, StoreQuiet, ForgetQuiet DEF NodeRecord
<1>10. CASE NodeCleanup(n)
  <2> DEFINE held == {e \in MatchedEips(n) : status[e].present /\ status[e].resource = n}
  <2>1. \A e \in held : Exists(e)
    BY DEF MatchedEips
  <2>2. /\ seen' = Read(held, n)
        /\ UNCHANGED <<eip, status, usedUid, owner, allocated>>
    BY <1>10 DEF NodeCleanup
  <2> HIDE DEF held
  <2> QED BY <2>1, <2>2, ReadQuiet
<1>11. CASE NodeCleanupDescribe(n)
  BY <1>11, ForgetQuiet DEF NodeCleanupDescribe
<1>12. CASE NodeCleanupDisassociate(n)
  BY <1>12, ForgetQuiet DEF NodeCleanupDisassociate, disassociate_eip
<1>13. CASE NodeCleanupDetach(n)
  BY <1>13, <1>a, <1>b, StatusKeepsAddress, CoreTypes, StoreQuiet, ForgetQuiet DEF NodeCleanupDetach
<1>14. CASE NodeCleanupLabel(n)
  BY <1>14, ForgetQuiet DEF NodeCleanupLabel
<1>15. CASE NodeRemoveFinalizer(n)
  BY <1>15, ForgetQuiet DEF NodeRemoveFinalizer, PutResource
<1> QED
  BY <1>1, <1>2, <1>3, <1>4, <1>5, <1>6, <1>7, <1>8, <1>9, <1>10, <1>11, <1>12,
     <1>13, <1>14, <1>15
  DEF NodeStep, NodeStart, NodeProgress

-----------------------------------------------------------------------------
(* The theorems.                                                           *)

\* Whatever the environment does.
LEMMA EnvironmentAddresses == ASSUME TypeOK, AddressInv, Environment PROVE AddressInv'
<1>1. ASSUME NEW n \in Resource,
             NodeJoins(n) \/ NodeBecomes(n) \/ NodeRelabelled(n) \/ NodeLeaves(n)
      PROVE  Quiet
  BY <1>1, ForgetQuiet
  DEF NodeJoins, NodeBecomes, NodeRelabelled, NodeLeaves, CreateResource, ChangeReady,
      Relabel, DeleteResource, PutResource, eipVars, awsVars, ctlVars, eipCtlVars
<1>2. ASSUME NEW p \in Port, InterfaceGone(p) PROVE Quiet
  BY <1>2 DEF InterfaceGone, PortGone, Quiet, AddressInv, CopiesInv, eipVars, ctlVars, eipCtlVars
<1>3. ASSUME NEW e \in Eip, UserCreates(e) \/ UserDeletes(e) PROVE AddressInv'
  BY <1>3, CoreTypes, CreateAddresses, DeleteAddresses DEF UserCreates, UserDeletes, ctlVars
<1> QED BY <1>1, <1>2, <1>3, QuietAddresses DEF Environment

\* No step of either controller, no failing call, no crash and no deletion makes
\* an Eip have two addresses, leaves an address behind, or lets a status name
\* the address of another Eip.
LEMMA NextAddresses == ASSUME TypeOK, AddressInv, [Next]_vars PROVE AddressInv'
<1>1. ASSUME NEW n \in Resource, UNCHANGED eipCtlVars,
             NodeStep(n, FreeAssocs) \/ NodeFails(n) \/ NodeResync(n)
      PROVE  AddressInv'
  BY <1>1, NodeControllerQuiet, QuietAddresses
<1>2. CASE Control
  BY <1>1, <1>2, CoreTypes, EipControllerAddresses DEF Control, EipControl, NodeControl
<1>3. CASE Resync
  BY <1>1, <1>3, CoreTypes, EipControllerAddresses DEF Resync
<1>4. CASE CallFails
  BY <1>1, <1>4, CoreTypes, EipControllerAddresses DEF CallFails, EipFault
<1>5. CASE Crash
  BY <1>5, CoreTypes, RestartAddresses DEF Crash
<1>6. CASE Environment
  BY <1>6, EnvironmentAddresses
<1>7. CASE UNCHANGED vars
  <2>1. Quiet
    BY <1>7 DEF Quiet, AddressInv, CopiesInv, vars, eipVars, awsVars, eipCtlVars
  <2> QED BY <2>1, QuietAddresses
<1> QED BY <1>2, <1>3, <1>4, <1>5, <1>6, <1>7 DEF Next

\* The inductive invariant: who knows which uid, how far the cache may be behind
\* and what the workers know of the addresses (controller/eip.rs).
THEOREM AddressesSafe == Spec => []AddressInv
<1>1. TypeOK /\ AddressInv /\ [Next]_vars => AddressInv'
  BY NextAddresses
<1>2. Init => AddressInv
  BY InitAddresses DEF Init
<1> QED BY TypeCorrect, <1>1, <1>2, PTL DEF Spec

\* An Eip has one address at most, whenever a call fails or the operator crashes
\* between the allocation and the status (controller/eip.rs, apply).
THEOREM AtMostOneAddress == Spec => []OneAddressPerEip
<1>1. AddressInv => OneAddressPerEip
  BY DEF AddressInv
<1> QED BY AddressesSafe, <1>1, PTL

\* No address survives its Eip (controller/eip.rs, cleanup).
THEOREM NoAddressLeftBehind == Spec => []NoOrphanAddress
<1>1. AddressInv => NoOrphanAddress
  BY DEF AddressInv
<1> QED BY AddressesSafe, <1>1, PTL

\* An Eip created again under an old name never shows the old address
\* (eip.rs, the patches by name).
THEOREM StatusIsOwn == Spec => []StatusNamesOwnAddress
<1>1. AddressInv => StatusNamesOwnAddress
  BY DEF AddressInv
<1> QED BY AddressesSafe, <1>1, PTL

-----------------------------------------------------------------------------
(* The ledger.                                                             *)

\* Every step of the operator and its environment is one of the ledger or none.
LEMMA NextSteps ==
  ASSUME TypeOK, AddressInv, [Next]_vars
  PROVE  [Ledger!Next]_Ledger!vars
<1>1. ASSUME NEW e \in Eip, EipStep(e) \/ EipFault(e) \/ EipResync(e)
      PROVE  [Ledger!Next]_Ledger!vars
  BY <1>1, CoreTypes, EipControllerSteps
<1>2. ASSUME NEW n \in Resource, UNCHANGED eipCtlVars,
             NodeStep(n, FreeAssocs) \/ NodeFails(n) \/ NodeResync(n)
      PROVE  [Ledger!Next]_Ledger!vars
  BY <1>2, NodeControllerQuiet, LedgerStutters DEF Quiet
<1>3. CASE Control
  BY <1>1, <1>2, <1>3 DEF Control, EipControl, NodeControl
<1>4. CASE Resync
  BY <1>1, <1>2, <1>4 DEF Resync
<1>5. CASE CallFails
  BY <1>1, <1>2, <1>5 DEF CallFails, EipFault
<1>6. CASE Crash
  BY <1>6, LedgerStutters DEF Crash, awsVars
<1>7. CASE Environment
  <2>1. ASSUME NEW n \in Resource,
               NodeJoins(n) \/ NodeBecomes(n) \/ NodeRelabelled(n) \/ NodeLeaves(n)
        PROVE  UNCHANGED <<eip, usedUid, owner, allocated>>
    BY <2>1 DEF NodeJoins, NodeBecomes, NodeRelabelled, NodeLeaves, CreateResource,
                ChangeReady, Relabel, DeleteResource, PutResource, eipVars, awsVars
  <2>2. ASSUME NEW p \in Port, InterfaceGone(p)
        PROVE  UNCHANGED <<eip, usedUid, owner, allocated>>
    BY <2>2 DEF InterfaceGone, PortGone, eipVars
  <2>3. ASSUME NEW e \in Eip, UserCreates(e) \/ UserDeletes(e) PROVE Ledger!Next
    BY <2>3, CoreTypes, CreateSteps, DeleteSteps DEF UserCreates, UserDeletes
  <2> QED BY <1>7, <2>1, <2>2, <2>3, LedgerStutters DEF Environment
<1>8. CASE UNCHANGED vars
  BY <1>8, LedgerStutters DEF vars, eipVars, awsVars
<1> QED BY <1>3, <1>4, <1>5, <1>6, <1>7, <1>8 DEF Next

\* The operator keeps the ledger: an address is allocated only for an object that
\* is guarded and has none, released only when its deletion was asked for, and no
\* object goes while it has one (controller/eip.rs, apply and cleanup).
THEOREM LedgerKept == Spec => KeepsLedger
<1>1. TypeOK /\ AddressInv /\ [Next]_vars => [Ledger!Next]_Ledger!vars
  BY NextSteps
<1>2. Init => Ledger!Init
  BY InitLedger DEF Init
<1> QED BY <1>2, TypeCorrect, AddressesSafe, <1>1, PTL DEF Spec, KeepsLedger, Ledger!Spec
=============================================================================
