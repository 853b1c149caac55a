------------------------ MODULE PodOperatorAddresses -----------------------
(***************************************************************************)
(* Proofs about PodOperator, for any number of Eips, pods, addresses and   *)
(* ports: the types; that the addresses are safe; and that it implements   *)
(* the ledger.                                                             *)
(***************************************************************************)
EXTENDS PodOperator, EipAddressesProofs

\* The types the lemmas about the Eip controller need.
LEMMA CoreTypes == TypeOK => CoreTypeOK
BY DEF TypeOK, CoreTypeOK

\* The idle task is a task, and goes on to one.
LEMMA IdlePodTypes ==
  /\ IdlePod \in PodTask
  /\ \A p \in Port \cup {None} : [IdlePod EXCEPT !.pc = "list", !.port = p] \in PodTask
  /\ \A todo \in SUBSET (Eip \X (AllocId \cup {None})) :
       \A pc \in {"cleanup", "delete", "finalize"} :
         [IdlePod EXCEPT !.pc = pc, !.todo = todo] \in PodTask
BY DEF IdlePod, PodTask

\* The types hold at first.
LEMMA InitTypes == Init => TypeOK
BY CoreInitTypes, NoneTypes, IdlePodTypes
DEF Init, PodControllerInit, TypeOK, CoreTypeOK, PodControllerTypeOK

\* Every step of the reconciliation of an Eip keeps the types.
LEMMA EipStepTypes ==
  ASSUME TypeOK, NEW e \in Eip, UNCHANGED podCtlVars,
         EipStep(e) \/ EipFault(e) \/ EipResync(e)
  PROVE  TypeOK'
<1>1. CoreTypeOK'
  BY EipControllerTypes DEF TypeOK, CoreTypeOK
<1> QED BY <1>1 DEF TypeOK, CoreTypeOK, PodControllerTypeOK, podCtlVars

-----------------------------------------------------------------------------
(* The pod controller.                                                     *)

\* The task goes on to another task state.
LEMMA ProceedType ==
  ASSUME podTask \in [Resource -> PodTask], NEW r \in Resource, NEW t \in PodTask,
         Proceed(r, t)
  PROVE  podTask' \in [Resource -> PodTask]
BY DEF Proceed

\* The reconciliation of a pod ends.
LEMMA PodEndType ==
  ASSUME podTask \in [Resource -> PodTask], podQueue \in SUBSET Resource,
         NEW r \in Resource, NEW again \in BOOLEAN, PodEnd(r, again)
  PROVE  podTask' \in [Resource -> PodTask] /\ podQueue' \in SUBSET Resource
BY IdlePodTypes DEF PodEnd, Proceed

\* A task with other ids in hand is a task.
LEMMA PodTaskTypes ==
  ASSUME NEW t \in PodTask
  PROVE  /\ \A pc \in {"associate", "annotate", "finalize"} : [t EXCEPT !.pc = pc] \in PodTask
         /\ \A e \in Eip, a \in AllocId \cup {None} :
              [t EXCEPT !.pc = "describe", !.eip = e, !.alloc = a] \in PodTask
         /\ \A b \in BOOLEAN : [t EXCEPT !.pc = "claim", !.onPort = b] \in PodTask
         /\ \A x \in AssocId \cup {None}, pc \in {"record", "annotate", "detach"} :
              [t EXCEPT !.pc = pc, !.assoc = x] \in PodTask
         /\ \A e \in Eip, x \in AssocId \cup {None}, pc \in {"detach", "disassociate"} :
              [t EXCEPT !.eip = e, !.assoc = x, !.pc = pc] \in PodTask
BY DEF PodTask

\* Every step of the reconciliation of a pod keeps the types.
LEMMA PodControllerTypes ==
  ASSUME TypeOK, NEW r \in Resource, UNCHANGED eipCtlVars,
         PodStep(r, FreeAssocs) \/ PodFails(r) \/ PodResync(r)
  PROVE  TypeOK'
<1> USE DEF TypeOK, ClusterTypeOK, EipControllerTypeOK, PodControllerTypeOK,
            eipVars, resVars, awsVars, eipCtlVars
<1>a. /\ podTask[r] \in PodTask
      /\ res[r] \in ResourceObject
      /\ cachedPod[r] \in ResourceObject
      /\ \A e \in Eip : status[e] \in EipStatus
  OBVIOUS
<1>b. r \in Holder
  BY DEF Holder
<1>c. /\ podTask[r].eip \in Eip \cup {None}
      /\ podTask[r].port \in Port \cup {None}
      /\ podTask[r].alloc \in AllocId \cup {None}
      /\ podTask[r].assoc \in AssocId \cup {None}
      /\ podTask[r].todo \in SUBSET (Eip \X (AllocId \cup {None}))
  BY <1>a DEF PodTask
<1>d. cachedPod[r].port \in Port \cup {None}
  BY <1>a DEF ResourceObject
<1>e. \A e \in Eip : status[e].alloc \in AllocId \cup {None}
  BY <1>a DEF EipStatus
<1>f. \A a \in AllocId : attached[a].assoc \in AssocId \cup {None}
  BY DEF Attachment
<1>g. /\ \A pool : PodEnd(r, pool) /\ pool \in BOOLEAN
           => podTask' \in [Resource -> PodTask] /\ podQueue' \in SUBSET Resource
      /\ \A t \in PodTask : Proceed(r, t) => podTask' \in [Resource -> PodTask]
  BY ProceedType, PodEndType
<1>1. CASE PodWatch(r) \/ PodResync(r)
  BY <1>1 DEF PodWatch, PodResync
<1>2. CASE PodAddFinalizer(r)
  <2>1. [res[r] EXCEPT !.finalizer = TRUE] \in ResourceObject
    BY <1>a DEF ResourceObject
  <2>2. ClusterTypeOK'
    BY <1>2, <2>1, PutResourceType DEF PodAddFinalizer
  <2> QED BY <1>2, <2>2 DEF PodAddFinalizer
<1>3. CASE PodFails(r)
  BY <1>3, <1>g, CopyTypes DEF PodFails
<1>4. CASE PodApply(r)
  <2>1. ClusterTypeOK'
    BY <1>4, CreateEipTypes, PodControllerAssumption DEF PodApply, create_for_pod
  <2>2. podTask' \in [Resource -> PodTask] /\ podQueue' \in SUBSET Resource
    BY <1>4, <1>d, <1>g, IdlePodTypes DEF PodApply
  <2> QED BY <1>4, <2>1, <2>2 DEF PodApply
<1>5. CASE PodList(r)
  <2>1. podTask' \in [Resource -> PodTask] /\ podQueue' \in SUBSET Resource
    BY <1>5, <1>a, <1>e, <1>g, PodTaskTypes DEF PodList, EipsNaming
  <2>2. seen' \in [Eip -> SUBSET Holder]
    <3>1. seen' = seen \/ \E es : seen' = Read(es, r)
      BY <1>5 DEF PodList
    <3>2. \A es : Read(es, r) \in [Eip -> SUBSET Holder]
      BY <1>b, CopyTypes
    <3>3. seen \in [Eip -> SUBSET Holder]
      OBVIOUS
    <3> QED BY ONLY <3>1, <3>2, <3>3
  <2> QED BY <1>5, <2>1, <2>2 DEF PodList
<1>6. CASE PodDescribe(r)
  <2>1. podTask' \in [Resource -> PodTask] /\ podQueue' \in SUBSET Resource
    BY <1>6, <1>a, <1>g, PodTaskTypes DEF PodDescribe
  <2> QED BY <1>6, <2>1, CopyTypes DEF PodDescribe
<1>7. CASE PodClaim(r)
  <2>1. podTask' \in [Resource -> PodTask] /\ podQueue' \in SUBSET Resource
    BY <1>7, <1>a, <1>g, PodTaskTypes DEF PodClaim
  <2>2. podTask[r].eip \in Eip =>
          StatusShouldAttach(status[podTask[r].eip], r, podTask[r].port) \in EipStatus
    BY <1>a, <1>c, StatusTypes
  <2>3. status' \in [Eip -> EipStatus] /\ seen' \in [Eip -> SUBSET Holder]
    BY <1>7, <2>2, StoreType, CopyTypes DEF PodClaim
  <2> QED BY <1>7, <2>1, <2>3 DEF PodClaim
<1>8. ASSUME NEW x \in AssocId, PodAssociate(r, x) PROVE TypeOK'
  <2>1. podTask' \in [Resource -> PodTask] /\ podQueue' \in SUBSET Resource
    BY <1>8, <1>a, <1>g, PodTaskTypes DEF PodAssociate
  <2>2. [port |-> podTask[r].port, assoc |-> x] \in Attachment
    BY <1>c DEF Attachment
  <2>3. attached' \in [AllocId -> Attachment]
    BY <1>8, <2>2, NoneTypes DEF PodAssociate, associate_eip
  <2> QED BY <1>8, <2>1, <2>3 DEF PodAssociate, associate_eip
<1>9. CASE PodRecord(r)
  <2>1. podTask' \in [Resource -> PodTask] /\ podQueue' \in SUBSET Resource
    BY <1>9, <1>a, <1>g, PodTaskTypes DEF PodRecord
  <2>2. podTask[r].eip \in Eip =>
          StatusAssociationId(status[podTask[r].eip], podTask[r].assoc) \in EipStatus
    BY <1>a, <1>c, StatusTypes
  <2>3. status' \in [Eip -> EipStatus] /\ seen' \in [Eip -> SUBSET Holder]
    BY <1>9, <2>2, StoreType DEF PodRecord
  <2> QED BY <1>9, <2>1, <2>3 DEF PodRecord
<1>10. CASE PodAnnotate(r)
  BY <1>10, <1>c, <1>g DEF PodAnnotate
<1>a1. \A todo : PodCleanupNext(r, todo) \in {"cleanup", "delete", "finalize"}
  BY DEF PodCleanupNext
<1>11. CASE PodCleanup(r)
  <2> DEFINE held == {e \in Eip : Exists(e) /\ status[e].resource = r}
             todo == {<<e, status[e].alloc>> : e \in held}
  <2>1. todo \in SUBSET (Eip \X (AllocId \cup {None}))
    BY <1>e
  <2>2. /\ seen' = Read(held, r)
        /\ Proceed(r, [IdlePod EXCEPT !.pc = PodCleanupNext(r, todo), !.todo = todo])
    BY <1>11 DEF PodCleanup
  <2> HIDE DEF held, todo
  <2>3. podTask' \in [Resource -> PodTask]
    BY <2>1, <2>2, <1>a1, <1>g, IdlePodTypes
  <2>4. seen' \in [Eip -> SUBSET Holder]
    BY <1>b, <2>2, CopyTypes
  <2> QED BY <1>11, <2>3, <2>4 DEF PodCleanup
<1>12. CASE PodCleanupDescribe(r)
  <2>1. PICK t \in podTask[r].todo :
          IF t[2] \in allocated
            THEN /\ Proceed(r, [podTask[r] EXCEPT !.eip = t[1], !.assoc = attached[t[2]].assoc,
                      !.pc = IF attached[t[2]].assoc = None THEN "detach" ELSE "disassociate"])
                 /\ UNCHANGED <<seen, podQueue>>
            ELSE PodEnd(r, TRUE) /\ seen' = Forget(r)
    BY <1>12 DEF PodCleanupDescribe
  <2>2. t[1] \in Eip
    BY <1>c
  <2>3. podTask' \in [Resource -> PodTask] /\ podQueue' \in SUBSET Resource
    BY <1>a, <1>f, <1>g, <2>1, <2>2, PodTaskTypes
  <2> QED BY <1>12, <2>1, <2>3, CopyTypes DEF PodCleanupDescribe
<1>13. CASE PodCleanupDisassociate(r)
  <2>1. podTask' \in [Resource -> PodTask]
    BY <1>13, <1>a, <1>g, PodTaskTypes DEF PodCleanupDisassociate
  <2>2. attached' \in [AllocId -> Attachment]
    BY <1>13, NoneTypes DEF PodCleanupDisassociate, disassociate_eip
  <2> QED BY <1>13, <2>1, <2>2 DEF PodCleanupDisassociate, disassociate_eip
<1>14. CASE PodCleanupDetach(r)
  <2> DEFINE rest == {s \in podTask[r].todo : s[1] # podTask[r].eip}
  <2>1. [IdlePod EXCEPT !.pc = PodCleanupNext(r, rest), !.todo = rest] \in PodTask
    <3>1. rest \in SUBSET (Eip \X (AllocId \cup {None}))
      BY <1>c
    <3> HIDE DEF rest
    <3> QED BY <3>1, <1>a1, IdlePodTypes
  <2>2. podTask' \in [Resource -> PodTask] /\ podQueue' \in SUBSET Resource
    BY <1>14, <1>g, <2>1 DEF PodCleanupDetach
  <2>3. podTask[r].eip \in Eip => StatusDetached(status[podTask[r].eip]) \in EipStatus
    BY <1>a, StatusTypes
  <2>4. status' \in [Eip -> EipStatus] /\ seen' \in [Eip -> SUBSET Holder]
    BY <1>14, <2>3, StoreType, CopyTypes DEF PodCleanupDetach
  <2> QED BY <1>14, <2>2, <2>4 DEF PodCleanupDetach
<1>15. CASE PodDeleteEip(r)
  <2>1. ClusterTypeOK'
    <3>1. CASE AutoEip[r] \in Eip
      BY <1>15, <3>1, DeleteEipTypes DEF PodDeleteEip
    <3>2. CASE AutoEip[r] \notin Eip /\ DeleteEip(AutoEip[r])
      BY <3>2 DEF DeleteEip
    <3> QED BY <1>15, <3>1, <3>2 DEF PodDeleteEip
  <2>2. podTask' \in [Resource -> PodTask]
    BY <1>15, <1>a, <1>g, PodTaskTypes DEF PodDeleteEip
  <2> QED BY <1>15, <2>1, <2>2 DEF PodDeleteEip
<1>16. CASE PodRemoveFinalizer(r)
  <2>1. [res[r] EXCEPT !.finalizer = FALSE] \in ResourceObject
    BY <1>a DEF ResourceObject
  <2>2. ClusterTypeOK'
    BY <1>16, <2>1, NoneTypes, PutResourceType DEF PodRemoveFinalizer
  <2>3. podTask' \in [Resource -> PodTask] /\ podQueue' \in SUBSET Resource
    BY <1>16, <1>a, <1>g DEF PodRemoveFinalizer, ResourceObject
  <2>4. dnsTarget' \in [Resource -> AllocId \cup {None}]
    BY <1>16 DEF PodRemoveFinalizer
  <2> QED BY <1>16, <2>2, <2>3, <2>4 DEF PodRemoveFinalizer
<1>17. ASSUME FreeAssocs # {}, PodAssociate(r, CHOOSE x \in FreeAssocs : TRUE)
       PROVE  TypeOK'
  <2>1. (CHOOSE x \in FreeAssocs : TRUE) \in AssocId
    BY <1>17 DEF FreeAssocs
  <2> QED BY <1>8, <1>17, <2>1
<1> QED
  BY <1>1, <1>2, <1>3, <1>4, <1>5, <1>6, <1>7, <1>9, <1>10, <1>11, <1>12, <1>13,
     <1>14, <1>15, <1>16, <1>17
  DEF PodStep, PodStart, PodProgress

-----------------------------------------------------------------------------
(* The environment.                                                        *)

\* So does whatever users, pods and network interfaces do.
LEMMA EnvironmentTypes == ASSUME TypeOK, Environment PROVE TypeOK'
<1> USE DEF TypeOK, EipControllerTypeOK, PodControllerTypeOK, eipCtlVars, podCtlVars, ctlVars
<1>1. ASSUME NEW e \in Eip, UserCreates(e) \/ UserDeletes(e) PROVE TypeOK'
  <2>1. ClusterTypeOK'
    BY <1>1, CreateEipTypes, DeleteEipTypes DEF UserCreates, UserDeletes
  <2> QED BY <1>1, <2>1 DEF UserCreates, UserDeletes
<1>2. ASSUME NEW r \in Resource, PodCreated(r) \/ PodStarts(r) PROVE TypeOK'
  <2>1. ClusterTypeOK'
    BY <1>2, ResourceTypes DEF PodCreated, PodStarts
  <2> QED BY <1>2, <2>1 DEF PodCreated, PodStarts
<1>3. ASSUME NEW r \in Resource, PodDeleted(r) PROVE TypeOK'
  <2>1. ClusterTypeOK'
    BY <1>3, ResourceTypes DEF PodDeleted
  <2>2. dnsTarget' \in [Resource -> AllocId \cup {None}]
    BY <1>3 DEF PodDeleted
  <2> QED BY <1>3, <2>1, <2>2 DEF PodDeleted
<1>4. ASSUME NEW r \in Resource, InterfaceGone(r) PROVE TypeOK'
  <2>1. ClusterTypeOK'
    BY <1>4, NoneTypes DEF ClusterTypeOK, InterfaceGone, eipVars, resVars
  <2> QED BY <1>4, <2>1 DEF InterfaceGone
<1> QED BY <1>1, <1>2, <1>3, <1>4 DEF Environment

\* And a crash.
LEMMA CrashTypes == ASSUME TypeOK, Crash PROVE TypeOK'
<1> USE DEF TypeOK, ClusterTypeOK, PodControllerTypeOK, awsVars
<1>1. seen' \in [Eip -> SUBSET Holder] /\ resSynced' \in SUBSET Resource
  BY DEF Crash, Holder
<1>2. EipControllerTypeOK'
  BY RestartTypes DEF Crash, CoreTypeOK
<1>3. PodControllerTypeOK'
  BY IdlePodTypes DEF Crash, PodControllerRestart
<1> QED BY <1>1, <1>2, <1>3 DEF Crash

\* Every variable of the operator and of the cluster keeps its type, through
\* every call of both controllers, every failing call and every crash.
THEOREM PodTypeCorrect == Spec => []TypeOK
<1>1. TypeOK /\ [Next]_vars => TypeOK'
  <2> SUFFICES ASSUME TypeOK, [Next]_vars PROVE TypeOK'
    OBVIOUS
  <2>1. CASE Control \/ Resync \/ CallFails
    <3>1. ASSUME NEW e \in Eip, UNCHANGED podCtlVars,
                 EipStep(e) \/ EipFault(e) \/ EipResync(e)
          PROVE  TypeOK'
      BY <3>1, EipStepTypes
    <3>2. ASSUME NEW r \in Resource, UNCHANGED eipCtlVars,
                 PodStep(r, FreeAssocs) \/ PodFails(r) \/ PodResync(r)
          PROVE  TypeOK'
      BY <3>2, PodControllerTypes
    <3> QED BY <2>1, <3>1, <3>2 DEF Control, EipControl, PodControl, Resync, CallFails, EipFault
  <2>2. CASE Crash
    BY <2>2, CrashTypes
  <2>3. CASE Environment
    BY <2>3, EnvironmentTypes
  <2>4. CASE UNCHANGED vars
    BY <2>4 DEF vars, eipVars, resVars, awsVars, eipCtlVars, podCtlVars, TypeOK,
                ClusterTypeOK, EipControllerTypeOK, PodControllerTypeOK
  <2> QED BY <2>1, <2>2, <2>3, <2>4 DEF Next
<1> QED BY InitTypes, <1>1, PTL DEF Spec

-----------------------------------------------------------------------------
-----------------------------------------------------------------------------
(* The pod controller.                                                     *)

\* A step of a pod leaves the addresses alone, or creates or deletes an Eip.
LEMMA PodControllerQuiet ==
  ASSUME TypeOK, AddressInv, NEW r \in Resource, UNCHANGED eipCtlVars,
         PodStep(r, FreeAssocs) \/ PodFails(r) \/ PodResync(r)
  PROVE  Quiet \/ \E e \in Eip : CreateEip(e) \/ DeleteEip(e)
<1> USE CoreTypes DEF eipVars, awsVars, eipCtlVars
<1>a. \A e \in Eip : status[e] \in EipStatus
  BY DEF TypeOK, ClusterTypeOK
<1>b. \A e \in Eip : r \in seen[e] => Exists(e)
  BY DEF AddressInv, CopiesInv
<1>1. CASE PodWatch(r) \/ PodResync(r)
  BY <1>1, ForgetQuiet DEF PodWatch, PodResync
<1>2. CASE PodAddFinalizer(r)
  BY <1>2, ForgetQuiet DEF PodAddFinalizer, PutResource
<1>3. CASE PodFails(r)
  BY <1>3, ForgetQuiet DEF PodFails
<1>4. CASE PodApply(r)
  BY <1>4, ForgetQuiet, PodControllerAssumption DEF PodApply, create_for_pod
<1>5. CASE PodList(r)
  <2>1. UNCHANGED <<eip, status, usedUid, owner, allocated>>
    BY <1>5 DEF PodList
  <2>2. seen' = seen \/ \E e \in EipsNaming(r) : seen' = Read({e}, r)
    BY <1>5 DEF PodList
  <2>3. \A e \in EipsNaming(r) : Exists(e)
    BY DEF EipsNaming
  <2> QED BY <2>1, <2>2, <2>3, ForgetQuiet, ReadQuiet
<1>6. CASE PodDescribe(r)
  BY <1>6, ForgetQuiet DEF PodDescribe
<1>7. CASE PodClaim(r)
  <2> DEFINE e == podTask[r].eip
             s == StatusShouldAttach(status[e], r, podTask[r].port)
  <2>1. \/ r \in seen[e] /\ Store(e, s, {r})
        \/ seen' = Forget(r) /\ UNCHANGED status
    BY <1>7 DEF PodClaim
  <2>2. UNCHANGED <<eip, usedUid, owner, allocated>>
    BY <1>7 DEF PodClaim
  <2>3. e \in Eip => s.alloc = status[e].alloc
    BY <1>a, StatusKeepsAddress
  <2> HIDE DEF e, s
  <2> QED BY <1>b, <2>1, <2>2, <2>3, StoreQuiet, ForgetQuiet
<1>8. ASSUME NEW x, PodAssociate(r, x) PROVE Quiet
  BY <1>8, ForgetQuiet DEF PodAssociate, associate_eip
<1>9. CASE PodRecord(r)
  BY <1>9, <1>a, StatusKeepsAddress, StoreQuiet, ForgetQuiet DEF PodRecord
<1>10. CASE PodAnnotate(r)
  BY <1>10, ForgetQuiet DEF PodAnnotate
<1>11. CASE PodCleanup(r)
  <2> DEFINE held == {e \in Eip : Exists(e) /\ status[e].resource = r}
  <2>1. \A e \in held : Exists(e)
    OBVIOUS
  <2>2. /\ seen' = Read(held, r)
        /\ UNCHANGED <<eip, status, usedUid, owner, allocated>>
    BY <1>11 DEF PodCleanup
  <2> HIDE DEF held
  <2> QED BY <2>1, <2>2, ReadQuiet
<1>12. CASE PodCleanupDescribe(r)
  BY <1>12, ForgetQuiet DEF PodCleanupDescribe
<1>13. CASE PodCleanupDisassociate(r)
  BY <1>13, ForgetQuiet DEF PodCleanupDisassociate, disassociate_eip
<1>14. CASE PodCleanupDetach(r)
  BY <1>14, <1>a, <1>b, StatusKeepsAddress, StoreQuiet, ForgetQuiet DEF PodCleanupDetach
<1>15. CASE PodDeleteEip(r)
  <2>1. CASE AutoEip[r] \in Eip
    BY <1>15, <2>1, ForgetQuiet DEF PodDeleteEip
  <2>2. CASE AutoEip[r] \notin Eip
    <3>a. ASSUME NEW S, NEW f \in [Eip -> S], NEW v
          PROVE  [f EXCEPT ![AutoEip[r]] = v] = f
      BY <2>2
    <3>1. eip[AutoEip[r]].phase = "live" => UNCHANGED <<eip, status, seen>>
      <4> HAVE eip[AutoEip[r]].phase = "live"
      <4>1. DeleteEip(AutoEip[r])
        BY <1>15 DEF PodDeleteEip
      <4>2. eip' = eip
        BY <3>a, <4>1 DEF DeleteEip, TypeOK, ClusterTypeOK
      <4>3. status' = status
        BY <3>a, <4>1 DEF DeleteEip, TypeOK, ClusterTypeOK
      <4>4. seen' = seen
        BY <3>a, <4>1 DEF DeleteEip, TypeOK, ClusterTypeOK
      <4> QED BY <4>2, <4>3, <4>4
    <3>2. UNCHANGED <<usedUid, owner, allocated>>
      BY <1>15 DEF PodDeleteEip, DeleteEip
    <3>3. UNCHANGED <<eip, status, seen>>
      BY <1>15, <3>1 DEF PodDeleteEip
    <3> QED BY <3>2, <3>3, ForgetQuiet
  <2> QED BY <2>1, <2>2
<1>16. CASE PodRemoveFinalizer(r)
  BY <1>16, ForgetQuiet DEF PodRemoveFinalizer, PutResource
<1> QED
  BY <1>1, <1>2, <1>3, <1>4, <1>5, <1>6, <1>7, <1>8, <1>9, <1>10, <1>11, <1>12,
     <1>13, <1>14, <1>15, <1>16
  DEF PodStep, PodStart, PodProgress

-----------------------------------------------------------------------------
(* The theorems.                                                           *)

\* Whatever the environment does, too.
LEMMA EnvironmentQuiet ==
  ASSUME AddressInv, Environment
  PROVE  /\ UNCHANGED eipCtlVars
         /\ Quiet \/ \E e \in Eip : CreateEip(e) \/ DeleteEip(e)
<1>1. ASSUME NEW r \in Resource, PodCreated(r) \/ PodStarts(r) \/ PodDeleted(r)
      PROVE  Quiet /\ UNCHANGED eipCtlVars
  BY <1>1, ForgetQuiet
  DEF PodCreated, PodStarts, PodDeleted, CreateResource, ChangeReady, DeleteResource,
      PutResource, eipVars, awsVars, ctlVars, eipCtlVars
<1>2. ASSUME NEW r \in Resource, InterfaceGone(r) PROVE Quiet /\ UNCHANGED eipCtlVars
  BY <1>2, ForgetQuiet DEF InterfaceGone, eipVars, ctlVars, eipCtlVars
<1> QED BY <1>1, <1>2 DEF Environment, UserCreates, UserDeletes, ctlVars

\* No step of either controller, no failing call, no crash and no deletion makes
\* an Eip have two addresses, leaves an address behind, or lets a status name
\* the address of another Eip; and every step is one of the ledger or none.
LEMMA NextAddresses ==
  ASSUME TypeOK, AddressInv, [Next]_vars
  PROVE  AddressInv' /\ [Ledger!Next]_Ledger!vars
<1>1. ASSUME UNCHANGED eipCtlVars, Quiet \/ \E e \in Eip : CreateEip(e) \/ DeleteEip(e)
      PROVE  AddressInv' /\ [Ledger!Next]_Ledger!vars
  <2>1. CASE Quiet
    BY <2>1, QuietAddresses, LedgerStutters DEF Quiet
  <2>2. CASE \E e \in Eip : CreateEip(e) \/ DeleteEip(e)
    BY <1>1, <2>2, CoreTypes, CreateAddresses, DeleteAddresses, CreateSteps, DeleteSteps
  <2> QED BY <1>1, <2>1, <2>2
<1>2. CASE Control \/ Resync \/ CallFails
  <2>1. ASSUME NEW e \in Eip, EipStep(e) \/ EipFault(e) \/ EipResync(e)
        PROVE  AddressInv' /\ [Ledger!Next]_Ledger!vars
    BY <2>1, CoreTypes, EipControllerAddresses, EipControllerSteps
  <2>2. ASSUME NEW r \in Resource, UNCHANGED eipCtlVars,
               PodStep(r, FreeAssocs) \/ PodFails(r) \/ PodResync(r)
        PROVE  AddressInv' /\ [Ledger!Next]_Ledger!vars
    BY <1>1, <2>2, PodControllerQuiet
  <2> QED BY <1>2, <2>1, <2>2 DEF Control, EipControl, PodControl, Resync, CallFails, EipFault
<1>3. CASE Crash
  BY <1>3, CoreTypes, RestartAddresses, LedgerStutters DEF Crash, awsVars
<1>4. CASE Environment
  BY <1>1, <1>4, EnvironmentQuiet
<1>5. CASE UNCHANGED vars
  <2>1. Quiet
    BY <1>5 DEF Quiet, AddressInv, CopiesInv, vars, eipVars, awsVars, eipCtlVars
  <2> QED BY <1>1, <1>5, <2>1 DEF vars
<1> QED BY <1>2, <1>3, <1>4, <1>5 DEF Next

\* The inductive invariant of the Eip controller holds beside pods as it does
\* beside nodes (controller/eip.rs).
THEOREM PodAddressesSafe == Spec => []AddressInv
<1>1. TypeOK /\ AddressInv /\ [Next]_vars => AddressInv'
  BY NextAddresses
<1>2. Init => AddressInv
  BY InitAddresses DEF Init
<1> QED BY PodTypeCorrect, <1>1, <1>2, PTL DEF Spec

\* The operator keeps the ledger, though a pod may create the Eip of its name
\* again while the old one goes (controller/pod.rs, apply and cleanup).
THEOREM PodLedgerKept == Spec => KeepsLedger
<1>1. TypeOK /\ AddressInv /\ [Next]_vars => [Ledger!Next]_Ledger!vars
  BY NextAddresses
<1>2. Init => Ledger!Init
  BY InitLedger DEF Init
<1> QED
  BY <1>2, PodTypeCorrect, PodAddressesSafe, <1>1, PTL DEF Spec, KeepsLedger, Ledger!Spec
=============================================================================
