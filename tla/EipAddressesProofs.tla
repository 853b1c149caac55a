------------------------- MODULE EipAddressesProofs -------------------------
(***************************************************************************)
(* Proofs about the Eip controller that hold whatever runs beside it, for  *)
(* any number of Eips, resources, addresses and ports: its actions and the *)
(* calls of users keep the types, AddressInv and the ledger.  The proofs   *)
(* about the operators are built from these lemmas.                        *)
(***************************************************************************)
EXTENDS EipAddresses, TLAPS

\* The types of the cluster and of the Eip controller.
CoreTypeOK == ClusterTypeOK /\ EipControllerTypeOK

\* The functions of eip.rs make a status of a status.
LEMMA StatusTypes ==
  ASSUME NEW s \in EipStatus
  PROVE  /\ \A a \in AllocId \cup {None} : StatusCreated(s, a) \in EipStatus
         /\ \A x \in AssocId \cup {None} : StatusAssociationId(s, x) \in EipStatus
         /\ \A r \in Resource, p \in Port \cup {None} :
              StatusShouldAttach(s, r, p) \in EipStatus
         /\ StatusDetached(s) \in EipStatus
BY DEF EipStatus, StatusCreated, StatusAssociationId, StatusShouldAttach, StatusDetached

\* So does a write of one, and it leaves sets of holders.
LEMMA StoreType ==
  ASSUME status \in [Eip -> EipStatus], seen \in [Eip -> SUBSET Holder],
         NEW e, NEW s, e \in Eip => s \in EipStatus, NEW done, Store(e, s, done)
  PROVE  /\ status' \in [Eip -> EipStatus]
         /\ seen' \in [Eip -> SUBSET Holder]
BY DEF Store

\* Reading and forgetting leave sets of holders.
LEMMA CopyTypes ==
  ASSUME seen \in [Eip -> SUBSET Holder]
  PROVE  /\ \A h : Forget(h) \in [Eip -> SUBSET Holder]
         /\ \A es : \A h \in Holder : Read(es, h) \in [Eip -> SUBSET Holder]
BY DEF Forget, Read

\* Where nothing is, the value has the type too.
LEMMA NoneTypes ==
  /\ NoEip \in EipMeta
  /\ NoStatus \in EipStatus
  /\ NoResource \in ResourceObject
  /\ NoAttachment \in Attachment
  /\ IdleWorker \in Worker
BY DEF NoEip, EipMeta, NoStatus, EipStatus, NoResource, ResourceObject,
       NoAttachment, Attachment, IdleWorker, Worker, Phase

\* The types hold at first.
LEMMA CoreInitTypes == ASSUME ClusterInit, EipControllerInit PROVE CoreTypeOK
BY NoneTypes, ClusterAssumption
DEF ClusterInit, EipControllerInit, CoreTypeOK, ClusterTypeOK, EipControllerTypeOK, Holder

-----------------------------------------------------------------------------
(* Types: the Eip controller.                                              *)

\* The worker goes on to another worker state.
LEMMA GotoType ==
  ASSUME worker \in [Eip -> Worker], NEW e \in Eip, NEW w \in Worker, Goto(e, w)
  PROVE  worker' \in [Eip -> Worker]
BY DEF Goto

\* The reconciliation of an Eip ends.
LEMMA EipEndType ==
  ASSUME worker \in [Eip -> Worker], eipQueue \in SUBSET Eip,
         NEW e \in Eip, NEW error \in BOOLEAN, EipEnd(e, error)
  PROVE  worker' \in [Eip -> Worker] /\ eipQueue' \in SUBSET Eip
BY NoneTypes DEF EipEnd, Goto

\* Every step of the reconciliation of an Eip keeps the types.
LEMMA EipControllerTypes ==
  ASSUME CoreTypeOK, NEW e \in Eip,
         EipStep(e) \/ EipFault(e) \/ EipResync(e)
  PROVE  CoreTypeOK'
<1> USE DEF CoreTypeOK, ClusterTypeOK, EipControllerTypeOK, eipVars, resVars, awsVars
<1>a. worker[e] \in Worker /\ eip[e] \in EipMeta /\ status[e] \in EipStatus
  OBVIOUS
<1>b. e \in Holder /\ "cache" \in Holder
  BY DEF Holder
<1>1. CASE EipWatch(e)
  BY <1>1, <1>b, CopyTypes DEF EipWatch
<1>2. CASE EipResync(e)
  BY <1>2 DEF EipResync
<1>3. CASE EipAddFinalizer(e)
  <2>1. [eip[e] EXCEPT !.finalizer = TRUE] \in EipMeta
    BY <1>a DEF EipMeta
  <2> QED BY <1>3, <2>1 DEF EipAddFinalizer
<1>4. CASE EipFails(e)
  <2>1. worker' \in [Eip -> Worker] /\ eipQueue' \in SUBSET Eip
    BY <1>4, EipEndType DEF EipFails
  <2>2. seen' \in [Eip -> SUBSET Holder]
    BY <1>4, CopyTypes DEF EipFails
  <2> QED BY <1>4, <2>1, <2>2 DEF EipFails
<1>5. CASE EipApply(e)
  <2> DEFINE start == [IdleWorker EXCEPT !.uid = cachedEip[e].uid, !.copy = cachedStatus[e]]
  <2>1. /\ [start EXCEPT !.pc = "allocate"] \in Worker
        /\ \A a \in AllocId : [start EXCEPT !.pc = "created", !.alloc = a] \in Worker
    BY <1>a, NoneTypes DEF EipMeta, Worker
  <2>2. worker' \in [Eip -> Worker]
    BY <1>5, <2>1, GotoType DEF EipApply, describe_addresses_with_tag_value
  <2>3. seen' \in [Eip -> SUBSET Holder]
    BY <1>5, <1>b, CopyTypes DEF EipApply
  <2> QED BY <1>5, <2>2, <2>3 DEF EipApply
<1>6. CASE EipAllocate(e)
  <2> DEFINE a == CHOOSE b \in UnusedAllocIds : TRUE
  <2>1. a \in AllocId
    BY <1>6 DEF EipAllocate, UnusedAllocIds
  <2>2. [worker[e] EXCEPT !.pc = "created", !.alloc = a] \in Worker
    BY <1>a, <2>1 DEF Worker
  <2>3. worker' \in [Eip -> Worker]
    BY <1>6, <2>2, GotoType DEF EipAllocate
  <2>4. worker[e].uid \in Uid \cup {None}
    BY <1>a DEF Worker
  <2>5. owner' \in [AllocId -> Uid \cup {None}] /\ allocated' \in SUBSET AllocId
    BY <1>6, <2>1, <2>4 DEF EipAllocate, allocate_address
  <2> QED BY <1>6, <2>3, <2>5 DEF EipAllocate, allocate_address
<1>7. CASE EipSetStatusCreated(e)
  <2>1. worker[e].alloc \in AllocId \cup {None}
    BY <1>a DEF Worker
  <2>2. CASE Exists(e)
    <3>1. [worker[e] EXCEPT !.pc = "list", !.alloc = None] \in Worker
      BY <1>a DEF Worker
    <3>2. worker' \in [Eip -> Worker]
      BY <1>7, <2>2, <3>1, GotoType DEF EipSetStatusCreated
    <3>3. StatusCreated(status[e], worker[e].alloc) \in EipStatus
      BY <1>a, <2>1, StatusTypes
    <3>4. status' \in [Eip -> EipStatus] /\ seen' \in [Eip -> SUBSET Holder]
      BY <1>7, <2>2, <3>3, StoreType DEF EipSetStatusCreated
    <3> QED BY <1>7, <2>2, <3>2, <3>4 DEF EipSetStatusCreated
  <2>3. CASE ~Exists(e)
    <3>1. worker' \in [Eip -> Worker] /\ eipQueue' \in SUBSET Eip
      BY <1>7, <2>3, EipEndType DEF EipSetStatusCreated
    <3>2. seen' \in [Eip -> SUBSET Holder]
      BY <1>7, <2>3, CopyTypes DEF EipSetStatusCreated
    <3> QED BY <1>7, <2>3, <3>1, <3>2 DEF EipSetStatusCreated
  <2> QED BY <2>2, <2>3
<1>8. CASE EipListResources(e)
  <2> DEFINE found == {r \in Resource : res[r].phase # "absent" /\ e \in res[r].matches}
             next == [worker[e] EXCEPT !.matched = found]
  <2>1. next \in Worker
    BY <1>a DEF Worker
  <2>2. /\ [next EXCEPT !.pc = "refresh", !.copy = NoStatus] \in Worker
        /\ [next EXCEPT !.pc = "detach"] \in Worker
        /\ [next EXCEPT !.pc = "disassociate"] \in Worker
    <3> HIDE DEF next
    <3> QED BY <2>1, NoneTypes DEF Worker
  <2>3. worker' \in [Eip -> Worker]
    BY <1>8, <2>2, NoneTypes, GotoType DEF EipListResources
  <2>4. seen' \in [Eip -> SUBSET Holder]
    BY <1>8, CopyTypes DEF EipListResources
  <2> QED BY <1>8, <2>3, <2>4 DEF EipListResources
<1>9. CASE EipDisassociate(e)
  <2>1. [worker[e] EXCEPT !.pc = "detach"] \in Worker
    BY <1>a DEF Worker
  <2>2. worker' \in [Eip -> Worker]
    BY <1>9, <2>1, GotoType DEF EipDisassociate
  <2>3. attached' \in [AllocId -> Attachment]
    BY <1>9, NoneTypes DEF EipDisassociate, disassociate_eip
  <2> QED BY <1>9, <2>2, <2>3 DEF EipDisassociate, disassociate_eip
<1>10. CASE EipSetStatusDetached(e)
  <2>1. CASE e \in seen[e]
    <3>1. [worker[e] EXCEPT !.pc = "refresh", !.copy = NoStatus] \in Worker
      BY <1>a, NoneTypes DEF Worker
    <3>2. worker' \in [Eip -> Worker]
      BY <1>10, <2>1, <3>1, GotoType DEF EipSetStatusDetached
    <3>3. worker[e].copy \in EipStatus
      BY <1>a DEF Worker
    <3>4. status' \in [Eip -> EipStatus] /\ seen' \in [Eip -> SUBSET Holder]
      BY <1>10, <2>1, <3>3, StatusTypes, StoreType DEF EipSetStatusDetached
    <3> QED BY <1>10, <2>1, <3>2, <3>4 DEF EipSetStatusDetached
  <2>2. CASE e \notin seen[e]
    <3>1. worker' \in [Eip -> Worker] /\ eipQueue' \in SUBSET Eip
      BY <1>10, <2>2, EipEndType DEF EipSetStatusDetached
    <3>2. seen' \in [Eip -> SUBSET Holder]
      BY <1>10, <2>2, CopyTypes DEF EipSetStatusDetached
    <3> QED BY <1>10, <2>2, <3>1, <3>2 DEF EipSetStatusDetached
  <2> QED BY <2>1, <2>2
<1>11. ASSUME NEW done, EipRefresh(e, done) PROVE CoreTypeOK'
  <2>1. worker' \in [Eip -> Worker] /\ eipQueue' \in SUBSET Eip
    BY <1>11, EipEndType DEF EipRefresh
  <2> QED BY <1>11, <2>1 DEF EipRefresh
<1>12. CASE EipCleanup(e)
  <2> DEFINE u == cachedEip[e].uid
             found == {<<a, attached[a].assoc>> : a \in describe_addresses_with_tag_value(u)}
  <2>1. u \in Uid \cup {None}
    BY DEF EipMeta
  <2>2. \A a \in AllocId : attached[a].assoc \in AssocId \cup {None}
    BY DEF Attachment
  <2>3. found \in SUBSET (AllocId \X (AssocId \cup {None}))
    BY <2>2 DEF describe_addresses_with_tag_value
  <2>4. \A pc \in {"finalize", "release"} :
          [IdleWorker EXCEPT !.uid = u, !.todo = found, !.pc = pc] \in Worker
    <3> HIDE DEF u, found
    <3> QED BY <2>1, <2>3, NoneTypes DEF Worker
  <2>5. Goto(e, [IdleWorker EXCEPT !.uid = u, !.todo = found,
                    !.pc = IF found = {} THEN "finalize" ELSE "release"])
    BY <1>12 DEF EipCleanup
  <2>6. [IdleWorker EXCEPT !.uid = u, !.todo = found,
           !.pc = IF found = {} THEN "finalize" ELSE "release"] \in Worker
    BY <2>4
  <2>7. worker' \in [Eip -> Worker]
    BY <2>5, <2>6, GotoType
  <2> QED BY <1>12, <2>7 DEF EipCleanup
<1>13. CASE EipCleanupDisassociate(e)
  <2>1. PICK t \in worker[e].todo :
          /\ disassociate_eip(t[2])
          /\ Goto(e, [worker[e] EXCEPT !.todo = (@ \ {t}) \cup {<<t[1], None>>}])
    BY <1>13 DEF EipCleanupDisassociate
  <2> DEFINE todo == (worker[e].todo \ {t}) \cup {<<t[1], None>>}
  <2>a. worker[e].todo \in SUBSET (AllocId \X (AssocId \cup {None}))
    BY <1>a DEF Worker
  <2>b. todo \in SUBSET (AllocId \X (AssocId \cup {None}))
    BY <2>a
  <2>2. [worker[e] EXCEPT !.todo = todo] \in Worker
    <3> HIDE DEF todo
    <3> QED BY <1>a, <2>b DEF Worker
  <2>3. worker' \in [Eip -> Worker]
    BY <2>1, <2>2, GotoType
  <2>4. attached' \in [AllocId -> Attachment]
    BY <2>1, NoneTypes DEF disassociate_eip
  <2> QED BY <1>13, <2>1, <2>3, <2>4 DEF EipCleanupDisassociate, disassociate_eip
<1>14. CASE EipCleanupRelease(e)
  <2> DEFINE rest(t) == worker[e].todo \ {t}
  <2>1. PICK t \in worker[e].todo :
          IF Releasable(t[1])
            THEN /\ release_address(t[1])
                 /\ Goto(e, [worker[e] EXCEPT !.todo = rest(t),
                               !.pc = IF rest(t) = {} THEN "finalize" ELSE "release"])
                 /\ UNCHANGED eipQueue
            ELSE EipEnd(e, TRUE) /\ UNCHANGED awsVars
    BY <1>14 DEF EipCleanupRelease
  <2>2. \A pc \in {"finalize", "release"} :
          [worker[e] EXCEPT !.todo = rest(t), !.pc = pc] \in Worker
    BY <1>a DEF Worker
  <2>3. worker' \in [Eip -> Worker] /\ eipQueue' \in SUBSET Eip
    BY <2>1, <2>2, GotoType, EipEndType
  <2>4. allocated' \in SUBSET AllocId /\ UNCHANGED <<owner, attached>>
    BY <2>1 DEF release_address
  <2> QED BY <1>14, <2>3, <2>4 DEF EipCleanupRelease
<1>15. CASE EipRemoveFinalizer(e)
  <2>1. [eip[e] EXCEPT !.finalizer = FALSE] \in EipMeta
    BY <1>a DEF EipMeta
  <2>2. worker' \in [Eip -> Worker] /\ eipQueue' \in SUBSET Eip
    BY <1>15, EipEndType DEF EipRemoveFinalizer
  <2>3. /\ eip' \in [Eip -> EipMeta]
        /\ status' \in [Eip -> EipStatus]
        /\ seen' \in [Eip -> SUBSET Holder]
    BY <1>15, <1>a, <2>1, NoneTypes DEF EipRemoveFinalizer
  <2> QED BY <1>15, <2>2, <2>3 DEF EipRemoveFinalizer
<1> QED
  BY <1>1, <1>2, <1>3, <1>4, <1>5, <1>6, <1>7, <1>8, <1>9, <1>10, <1>11, <1>12,
     <1>13, <1>14, <1>15
  DEF EipStep, EipStart, EipProgress, EipFault, EipRefreshFails

-----------------------------------------------------------------------------
(* Types: users and resources.                                             *)

\* A new version of a resource is a resource.
LEMMA PutResourceType ==
  ASSUME ClusterTypeOK, NEW n \in Resource, NEW obj \in ResourceObject,
         PutResource(n, obj)
  PROVE  ClusterTypeOK'
BY DEF PutResource, ClusterTypeOK, eipVars, awsVars

\* An Eip is created.
LEMMA CreateEipTypes ==
  ASSUME ClusterTypeOK, NEW e \in Eip, CreateEip(e)
  PROVE  ClusterTypeOK'
<1> DEFINE u == CHOOSE v \in Uid \ usedUid : TRUE
<1>1. u \in Uid
  BY DEF CreateEip
<1>2. [phase |-> "live", uid |-> u, finalizer |-> FALSE] \in EipMeta
  BY <1>1 DEF EipMeta, Phase
<1> QED BY <1>1, <1>2 DEF ClusterTypeOK, CreateEip, resVars, awsVars

\* An Eip is deleted.
LEMMA DeleteEipTypes ==
  ASSUME ClusterTypeOK, NEW e \in Eip, DeleteEip(e)
  PROVE  ClusterTypeOK'
<1>1. [eip[e] EXCEPT !.phase = "deleting"] \in EipMeta
  BY DEF ClusterTypeOK, EipMeta, Phase
<1> QED BY <1>1, NoneTypes DEF ClusterTypeOK, DeleteEip, resVars, awsVars

\* A resource is created, changes or is deleted.
LEMMA ResourceTypes ==
  ASSUME ClusterTypeOK, NEW r \in Resource,
         CreateResource(r) \/ ChangeReady(r) \/ Relabel(r) \/ DeleteResource(r)
  PROVE  ClusterTypeOK'
<1>1. res[r] \in ResourceObject
  BY DEF ClusterTypeOK
<1>2. CASE CreateResource(r)
  <2>1. PICK p \in Ports[r], es \in Labels[r] :
          PutResource(r, [phase |-> "live", finalizer |-> FALSE, ready |-> FALSE,
                          matches |-> es, port |-> p])
    BY <1>2 DEF CreateResource
  <2>2. p \in Port /\ es \in SUBSET Eip
    BY ClusterAssumption
  <2>3. [phase |-> "live", finalizer |-> FALSE, ready |-> FALSE,
         matches |-> es, port |-> p] \in ResourceObject
    BY <2>2 DEF ResourceObject, Phase
  <2> QED BY <2>1, <2>3, PutResourceType
<1>3. CASE ChangeReady(r)
  <2>1. [res[r] EXCEPT !.ready = ~@] \in ResourceObject
    BY <1>1 DEF ResourceObject
  <2> QED BY <1>3, <2>1, PutResourceType DEF ChangeReady
<1>4. CASE Relabel(r)
  <2>1. PICK es \in Labels[r] : PutResource(r, [res[r] EXCEPT !.matches = es])
    BY <1>4 DEF Relabel
  <2>2. es \in SUBSET Eip
    BY ClusterAssumption
  <2>3. [res[r] EXCEPT !.matches = es] \in ResourceObject
    BY <1>1, <2>2 DEF ResourceObject
  <2> QED BY <2>1, <2>3, PutResourceType
<1>5. CASE DeleteResource(r)
  <2>1. [res[r] EXCEPT !.phase = "deleting"] \in ResourceObject
    BY <1>1 DEF ResourceObject, Phase
  <2> QED BY <1>5, <2>1, NoneTypes, PutResourceType DEF DeleteResource
<1> QED BY <1>2, <1>3, <1>4, <1>5

\* The Eip controller starts again.
LEMMA RestartTypes ==
  ASSUME CoreTypeOK, EipControllerRestart
  PROVE  EipControllerTypeOK'
BY NoneTypes
DEF CoreTypeOK, ClusterTypeOK, EipControllerTypeOK, EipControllerRestart, Exists

-----------------------------------------------------------------------------
(* What keeps the parts of the invariant.                                  *)

\* A name about which no more uids are known than before shares none.
LEMMA UidsKept ==
  ASSUME UidsInv, \A e \in Eip : Known(e)' \subseteq Known(e),
         UNCHANGED <<usedUid, owner>>
  PROVE  UidsInv'
BY DEF UidsInv

\* An object that is guarded exists, and has a uid.
LEMMA GuardedExists ==
  ASSUME PhasesInv, NEW e \in Eip, eip[e].finalizer
  PROVE  Exists(e) /\ eip[e].uid # None
BY DEF PhasesInv, Exists, NoEip

\* What a step leaves alone that is none of the Eip controller's.
Quiet ==
  /\ UNCHANGED <<eip, usedUid, owner, allocated, cachedEip, cachedStatus, worker>>
  /\ \A e \in Eip :
       /\ status'[e].alloc = status[e].alloc
       /\ status'[e] # status[e] => Exists(e)
       /\ \A h \in Eip \cup {"cache"} :
            h \in seen'[e] => h \in seen[e] /\ status'[e] = status[e]
       /\ \A n \in Resource : n \in seen'[e] => Exists(e)

\* Such a step keeps the addresses safe.
LEMMA QuietAddresses == ASSUME AddressInv, Quiet PROVE AddressInv'
<1> USE DEF AddressInv
<1>1. UidsInv'
  BY UidsKept DEF Quiet, Known
<1>2. PhasesInv' /\ CacheInv' /\ WorkerInv'
  BY DEF Quiet, PhasesInv, CacheInv, WorkerInv, Applying, CleaningUp, Exists
<1>3. WorkerAddressInv'
  BY DEF Quiet, WorkerAddressInv, describe_addresses_with_tag_value
<1>4. CopiesInv'
  BY DEF Quiet, CopiesInv, Applying, Exists
<1>5. OneAddressPerEip' /\ NoOrphanAddress' /\ StatusNamesOwnAddress'
  BY DEF Quiet, OneAddressPerEip, NoOrphanAddress, StatusNamesOwnAddress
<1> QED BY <1>1, <1>2, <1>3, <1>4, <1>5

-----------------------------------------------------------------------------
(* The Eip controller.                                                     *)

\* The watch.
LEMMA WatchAddresses ==
  ASSUME CoreTypeOK, AddressInv, NEW e \in Eip, EipWatch(e)
  PROVE  AddressInv'
<1> USE DEF AddressInv, EipWatch, CoreTypeOK, ClusterTypeOK, EipControllerTypeOK
<1>1. UidsInv'
  <2>1. \A f \in Eip : Known(f)' \subseteq Known(f)
    BY DEF Known
  <2> QED BY <2>1, UidsKept DEF awsVars
<1>2. PhasesInv'
  BY DEF PhasesInv
<1>3. CacheInv' /\ WorkerInv'
  BY DEF CacheInv, WorkerInv, Applying, CleaningUp
<1>4. WorkerAddressInv'
  BY DEF WorkerAddressInv, describe_addresses_with_tag_value, awsVars
<1>5. CopiesInv'
  BY ClusterAssumption DEF CopiesInv, Applying, Exists, Read
<1>6. OneAddressPerEip' /\ NoOrphanAddress' /\ StatusNamesOwnAddress'
  BY DEF OneAddressPerEip, NoOrphanAddress, StatusNamesOwnAddress, awsVars
<1> QED BY <1>1, <1>2, <1>3, <1>4, <1>5, <1>6

\* The finalizer is put on.
LEMMA AddFinalizerAddresses ==
  ASSUME CoreTypeOK, AddressInv, NEW e \in Eip, EipAddFinalizer(e)
  PROVE  AddressInv'
<1> USE DEF AddressInv, EipAddFinalizer, EipReady, CoreTypeOK, ClusterTypeOK, EipControllerTypeOK
<1>1. \A f \in Eip : /\ eip'[f].uid = eip[f].uid
                     /\ eip'[f].phase = eip[f].phase
                     /\ eip'[f].finalizer = (f = e \/ eip[f].finalizer)
  BY DEF EipMeta
<1>2. UidsInv'
  BY <1>1, UidsKept DEF Known, awsVars
<1>3. PhasesInv'
  BY <1>1 DEF PhasesInv
<1>4. CacheInv' /\ WorkerInv'
  BY <1>1 DEF CacheInv, WorkerInv, Applying, CleaningUp
<1>5. WorkerAddressInv'
  BY DEF WorkerAddressInv, describe_addresses_with_tag_value, awsVars
<1>6. CopiesInv'
  BY DEF CopiesInv, Applying, Exists
<1>7. OneAddressPerEip' /\ NoOrphanAddress' /\ StatusNamesOwnAddress'
  BY <1>1 DEF OneAddressPerEip, NoOrphanAddress, StatusNamesOwnAddress, awsVars
<1> QED BY <1>2, <1>3, <1>4, <1>5, <1>6, <1>7

\* Steps that only move the worker of e, or send it back to sleep.
LEMMA WorkerMoves ==
  ASSUME AddressInv, NEW e \in Eip, NEW w,
         worker' = [worker EXCEPT ![e] = w], worker \in [Eip -> Worker],
         UNCHANGED <<eip, status, usedUid, owner, allocated, cachedEip, cachedStatus>>,
         \A f \in Eip : \A h \in seen'[f] \ {e} : h \in seen[f],
         \A f \in Eip : f # e /\ f \in seen'[f] => f \in seen[f],
         w.uid \in Known(e) \cup {None},
         Applying(e)' => w.uid = eip[e].uid /\ eip[e].finalizer /\ w.uid # None,
         CleaningUp(e)' => /\ w.uid # None
                           /\ ~(cachedEip[e].phase = "live" /\ cachedEip[e].finalizer)
                           /\ IF eip[e].uid = w.uid THEN eip[e].phase = "deleting"
                                                    ELSE ~eip[e].finalizer,
         w.pc \in {"allocate", "finalize"} => describe_addresses_with_tag_value(w.uid) = {},
         w.pc = "created" => w.alloc \in describe_addresses_with_tag_value(w.uid),
         w.pc = "release" =>
           /\ describe_addresses_with_tag_value(w.uid) \subseteq {t[1] : t \in w.todo}
           /\ \A t \in w.todo : owner[t[1]] = w.uid,
         e \in seen'[e] => /\ Applying(e)'
                           /\ w.pc # "refresh"
                           /\ w.copy = status[e]
  PROVE  AddressInv'
<1> USE DEF AddressInv
<1>1. worker'[e] = w /\ \A f \in Eip : f # e => worker'[f] = worker[f]
  OBVIOUS
<1>2. UidsInv'
  BY <1>1, UidsKept DEF Known
<1>3. PhasesInv' /\ CacheInv'
  BY DEF PhasesInv, CacheInv
<1>4. WorkerInv'
  BY <1>1 DEF WorkerInv, Applying, CleaningUp
<1>5. WorkerAddressInv'
  BY <1>1 DEF WorkerAddressInv, describe_addresses_with_tag_value
<1>6. CopiesInv'
  BY <1>1, ClusterAssumption DEF CopiesInv, Applying, Exists
<1>7. OneAddressPerEip' /\ NoOrphanAddress' /\ StatusNamesOwnAddress'
  BY DEF OneAddressPerEip, NoOrphanAddress, StatusNamesOwnAddress
<1> QED BY <1>2, <1>3, <1>4, <1>5, <1>6, <1>7

\* The finalizer is waited for: apply starts for a guarded object only.
LEMMA ApplyAddresses ==
  ASSUME CoreTypeOK, AddressInv, NEW e \in Eip, EipApply(e)
  PROVE  AddressInv'
<1> USE DEF AddressInv, CoreTypeOK, ClusterTypeOK, EipControllerTypeOK, awsVars
<1> DEFINE u == cachedEip[e].uid
           found == describe_addresses_with_tag_value(u)
           start == [IdleWorker EXCEPT !.uid = u, !.copy = cachedStatus[e]]
<1>1. PICK w : /\ worker' = [worker EXCEPT ![e] = w]
               /\ \/ found = {} /\ w = [start EXCEPT !.pc = "allocate"]
                  \/ \E a \in found : w = [start EXCEPT !.pc = "created", !.alloc = a]
  <2> HIDE DEF found, start
  <2> QED BY DEF EipApply, Goto, found, start
<1>2. /\ w.uid = u
      /\ w.copy = cachedStatus[e]
      /\ \/ w.pc = "allocate" /\ found = {}
         \/ w.pc = "created" /\ w.alloc \in found
  <2> HIDE DEF found
  <2> QED BY <1>1 DEF IdleWorker
<1>3. eip[e].uid = u /\ eip[e].finalizer /\ u # None
  BY GuardedExists DEF EipApply, EipReady, CacheInv
<1>4. e \notin seen[e] /\ (e \in seen'[e] => cachedStatus[e] = status[e])
  BY ClusterAssumption DEF EipApply, EipReady, CopiesInv, Applying, Read
<1>5. /\ \A f \in Eip : \A h \in seen'[f] \ {e} : h \in seen[f]
      /\ \A f \in Eip : f # e /\ f \in seen'[f] => f \in seen[f]
  BY DEF EipApply, Read
<1>6. worker'[e] = w
  BY <1>1
<1>7. Applying(e)' /\ ~CleaningUp(e)'
  BY <1>2, <1>6 DEF Applying, CleaningUp
<1>8. UNCHANGED <<eip, status, usedUid, owner, allocated, cachedEip, cachedStatus>>
  BY DEF EipApply
<1> HIDE DEF found, start
<1> QED BY <1>1, <1>2, <1>3, <1>4, <1>5, <1>7, <1>8, WorkerMoves DEF found, Known

\* An address is allocated.
LEMMA AllocateAddresses ==
  ASSUME CoreTypeOK, AddressInv, NEW e \in Eip, EipAllocate(e)
  PROVE  AddressInv'
<1> USE DEF AddressInv, CoreTypeOK, ClusterTypeOK, EipControllerTypeOK
<1> DEFINE a == CHOOSE b \in UnusedAllocIds : TRUE
           u == worker[e].uid
           w == [worker[e] EXCEPT !.pc = "created", !.alloc = a]
<1>1. a \in AllocId /\ owner[a] = None
  BY DEF EipAllocate, UnusedAllocIds
<1>2. /\ allocated' = allocated \cup {a}
      /\ owner' = [owner EXCEPT ![a] = u]
      /\ worker' = [worker EXCEPT ![e] = w]
      /\ UNCHANGED <<eip, status, seen, usedUid, cachedEip, cachedStatus>>
  BY DEF EipAllocate, allocate_address, Goto, eipVars
<1>3. w.pc = "created" /\ w.alloc = a /\ w.uid = u /\ w.copy = worker[e].copy
  BY DEF Worker
<1> HIDE DEF a, w
<1>4. /\ worker'[e] = w
      /\ \A f \in Eip : f # e => worker'[f] = worker[f]
      /\ owner'[a] = u
      /\ \A b \in AllocId : b # a => owner'[b] = owner[b]
  BY <1>1, <1>2
<1>5. /\ Applying(e) /\ u # None /\ eip[e].uid = u /\ eip[e].finalizer
      /\ describe_addresses_with_tag_value(u) = {}
  BY DEF EipAllocate, Applying, WorkerInv, WorkerAddressInv
<1>6. UidsInv'
  <2>1. \A f \in Eip : Known(f)' = Known(f)
    BY <1>2, <1>3, <1>4 DEF Known
  <2>2. u \in usedUid
    BY <1>5 DEF UidsInv, Known
  <2> QED BY <1>2, <1>4, <2>1, <2>2 DEF UidsInv
<1>7. PhasesInv' /\ CacheInv'
  BY <1>2 DEF PhasesInv, CacheInv
<1>8. WorkerInv'
  BY <1>2, <1>3, <1>4, <1>5 DEF WorkerInv, Applying, CleaningUp
<1>9. WorkerAddressInv'
  <2>1. \A f \in Eip : f # e => worker[f].uid # u
    BY <1>5 DEF UidsInv, Known
  <2>2. ASSUME NEW f \in Eip, f # e
        PROVE  {b \in allocated' : owner'[b] = worker'[f].uid}
                 = describe_addresses_with_tag_value(worker[f].uid)
    <3>1. a \notin allocated
      BY <1>1, GuardedExists DEF NoOrphanAddress
    <3> QED BY <1>2, <1>4, <2>1, <2>2, <3>1 DEF describe_addresses_with_tag_value
  <2>3. \A f \in Eip : f # e /\ CleaningUp(f) => worker[f].uid # None
    BY DEF WorkerInv
  <2>4. \A f \in Eip : f # e /\ worker[f].pc = "release" =>
          \A t \in worker[f].todo : owner'[t[1]] = worker[f].uid
    BY <1>1, <1>2, <2>3 DEF WorkerAddressInv, CleaningUp
  <2>5. a \in {b \in allocated' : owner'[b] = u}
    BY <1>2, <1>4
  <2> QED BY <1>3, <1>4, <2>2, <2>4, <2>5
          DEF WorkerAddressInv, describe_addresses_with_tag_value
<1>10. CopiesInv'
  BY <1>2, <1>3, <1>4, <1>5, ClusterAssumption DEF CopiesInv, Applying, Exists, EipAllocate
<1>11. OneAddressPerEip'
  BY <1>2, <1>4, <1>5 DEF OneAddressPerEip, describe_addresses_with_tag_value
<1>12. NoOrphanAddress'
  BY <1>2, <1>4, <1>5 DEF NoOrphanAddress
<1>13. StatusNamesOwnAddress'
  <2>1. \A f \in Eip : status[f].alloc # None => status[f].alloc # a
    BY <1>1 DEF StatusNamesOwnAddress, PhasesInv, NoStatus, NoEip
  <2> QED BY <1>2, <1>4, <2>1 DEF StatusNamesOwnAddress
<1> QED BY <1>6, <1>7, <1>8, <1>9, <1>10, <1>11, <1>12, <1>13

\* What Store does to the copies of an Eip.
LEMMA StoreCopies ==
  ASSUME NEW e \in Eip, NEW s, NEW done, Store(e, s, done),
         status \in [Eip -> EipStatus]
  PROVE  /\ \A f \in Eip : f # e => status'[f] = status[f] /\ seen'[f] = seen[f] \ done
         /\ status'[e] = s
         /\ s # status[e] => seen'[e] = {}
         /\ s = status[e] => seen'[e] = seen[e] \ done
BY DEF Store

\* Steps that also store a status that names the address in hand, or the one it
\* named before.
LEMMA StatusWrites ==
  ASSUME CoreTypeOK, AddressInv, NEW e \in Eip, NEW s, NEW w, Exists(e), Applying(e),
         worker' = [worker EXCEPT ![e] = w],
         UNCHANGED <<eip, usedUid, owner, allocated, cachedEip, cachedStatus>>,
         \/ Store(e, s, {}) /\ w.copy = worker[e].copy /\ w.pc # "refresh"
         \/ Store(e, s, {e}),
         \/ s.alloc = status[e].alloc
         \/ s.alloc \in describe_addresses_with_tag_value(worker[e].uid),
         w.uid = worker[e].uid, w.pc \in {"list", "refresh"}
  PROVE  AddressInv'
<1> USE DEF AddressInv, CoreTypeOK, ClusterTypeOK, EipControllerTypeOK
<1>1. /\ worker'[e] = w
      /\ \A f \in Eip : f # e => worker'[f] = worker[f]
  OBVIOUS
<1>2. /\ \A f \in Eip : f # e => status'[f] = status[f]
      /\ \A f \in Eip : seen'[f] \subseteq seen[f]
      /\ status'[e] = s
      /\ seen'[e] # {} => s = status[e]
      /\ e \in seen'[e] => w.copy = worker[e].copy /\ w.pc # "refresh"
  BY StoreCopies
<1>3. eip[e].uid = worker[e].uid /\ eip[e].finalizer
  BY DEF WorkerInv
<1>4. UidsInv'
  BY <1>1, UidsKept DEF Known
<1>5. PhasesInv'
  BY <1>2 DEF PhasesInv, Exists
<1>6. CacheInv'
  BY DEF CacheInv
<1>7. WorkerInv'
  BY <1>1 DEF WorkerInv, Applying, CleaningUp
<1>8. WorkerAddressInv'
  BY <1>1 DEF WorkerAddressInv, describe_addresses_with_tag_value
<1>9. CopiesInv'
  BY <1>1, <1>2, ClusterAssumption DEF CopiesInv, Applying, Exists
<1>10. OneAddressPerEip' /\ NoOrphanAddress'
  BY DEF OneAddressPerEip, NoOrphanAddress
<1>11. StatusNamesOwnAddress'
  BY <1>2, <1>3 DEF StatusNamesOwnAddress, describe_addresses_with_tag_value
<1> QED BY <1>4, <1>5, <1>6, <1>7, <1>8, <1>9, <1>10, <1>11

\* A reconciliation that ends has no copy left.
LEMMA EndAddresses ==
  ASSUME CoreTypeOK, AddressInv, NEW e \in Eip, worker' = [worker EXCEPT ![e] = IdleWorker],
         UNCHANGED <<eip, status, usedUid, owner, allocated, cachedEip, cachedStatus>>,
         seen' = Forget(e) \/ (seen' = seen /\ e \notin seen[e])
  PROVE  AddressInv'
<1> USE DEF AddressInv, CoreTypeOK, ClusterTypeOK, EipControllerTypeOK
<1>1. /\ worker' = [worker EXCEPT ![e] = IdleWorker]
      /\ IdleWorker.pc = "idle"
      /\ IdleWorker.uid = None
  BY DEF IdleWorker
<1>2. /\ \A f \in Eip : seen'[f] \subseteq seen[f]
      /\ e \notin seen'[e]
  BY DEF Forget
<1>3. ~Applying(e)' /\ ~CleaningUp(e)'
  BY <1>1 DEF Applying, CleaningUp
<1> QED BY <1>1, <1>2, <1>3, WorkerMoves

\* The status of an Eip that exists gets its address.
LEMMA SetStatusCreatedAddresses ==
  ASSUME CoreTypeOK, AddressInv, NEW e \in Eip, EipSetStatusCreated(e)
  PROVE  AddressInv'
<1> USE DEF AddressInv, EipSetStatusCreated
<1>1. CASE Exists(e)
  <2> DEFINE s == StatusCreated(status[e], worker[e].alloc)
             w == [worker[e] EXCEPT !.pc = "list", !.alloc = None]
  <2>1. status[e] \in EipStatus /\ worker[e] \in Worker
    BY DEF CoreTypeOK, ClusterTypeOK, EipControllerTypeOK
  <2>2. s.alloc = worker[e].alloc
    BY <2>1 DEF StatusCreated, EipStatus
  <2>3. w.pc = "list" /\ w.uid = worker[e].uid /\ w.copy = worker[e].copy
    BY <2>1 DEF Worker
  <2>4. worker[e].alloc \in describe_addresses_with_tag_value(worker[e].uid)
    BY DEF WorkerAddressInv
  <2>5. Store(e, s, {}) /\ worker' = [worker EXCEPT ![e] = w]
    BY <1>1 DEF Goto
  <2>6. UNCHANGED <<eip, usedUid, owner, allocated, cachedEip, cachedStatus>>
    BY DEF awsVars
  <2>7. Applying(e)
    BY DEF Applying
  <2> HIDE DEF s, w
  <2> QED BY <1>1, <2>2, <2>3, <2>4, <2>5, <2>6, <2>7, StatusWrites
<1>2. CASE ~Exists(e)
  BY <1>2, EndAddresses DEF EipEnd, Goto, awsVars
<1> QED BY <1>1, <1>2

\* The matching resources are listed.
LEMMA ListResourcesAddresses ==
  ASSUME CoreTypeOK, AddressInv, NEW e \in Eip, EipListResources(e)
  PROVE  AddressInv'
<1> DEFINE found == {r \in Resource : res[r].phase # "absent" /\ e \in res[r].matches}
           next == [worker[e] EXCEPT !.matched = found]
<1>1. worker[e] \in Worker /\ worker \in [Eip -> Worker] /\ seen \in [Eip -> SUBSET Holder]
  BY DEF CoreTypeOK, EipControllerTypeOK, ClusterTypeOK
<1>2. PICK w :
        /\ worker' = [worker EXCEPT ![e] = w]
        /\ \/ /\ w \in {[next EXCEPT !.pc = "refresh", !.copy = NoStatus], IdleWorker}
              /\ seen' = Forget(e)
           \/ /\ w \in {[next EXCEPT !.pc = "detach"], [next EXCEPT !.pc = "disassociate"]}
              /\ seen' = seen
  <2> HIDE DEF found, next
  <2> QED BY DEF EipListResources, Goto, found, next
<1>3. /\ next.uid = worker[e].uid /\ next.copy = worker[e].copy
      /\ DOMAIN next = {"pc", "uid", "copy", "alloc", "matched", "todo"}
  BY <1>1 DEF Worker
<1>4. \/ w = IdleWorker /\ seen' = Forget(e)
      \/ w.pc = "refresh" /\ w.uid = worker[e].uid /\ seen' = Forget(e)
      \/ /\ w.pc \in {"detach", "disassociate"} /\ w.uid = worker[e].uid
         /\ w.copy = worker[e].copy /\ seen' = seen
  BY <1>1, <1>2 DEF Worker
<1> HIDE DEF found, next
<1>5. UNCHANGED <<eip, status, usedUid, owner, allocated, cachedEip, cachedStatus>>
  BY DEF EipListResources, awsVars
<1>6. worker'[e] = w
  BY <1>1, <1>2
<1>7. CASE w = IdleWorker
  BY <1>2, <1>4, <1>5, <1>7, EndAddresses DEF IdleWorker
<1>8. CASE w.pc \in {"refresh", "detach", "disassociate"} /\ w.uid = worker[e].uid
  <2>1. worker[e].uid = eip[e].uid /\ eip[e].finalizer /\ worker[e].uid # None
    BY DEF AddressInv, WorkerInv, Applying, EipListResources
  <2>2. /\ \A f \in Eip : seen'[f] \subseteq seen[f]
        /\ e \in seen'[e] => /\ w.pc # "refresh"
                             /\ w.copy = worker[e].copy
    BY <1>1, <1>4, <1>8 DEF Forget, IdleWorker
  <2>3. Applying(e)' /\ ~CleaningUp(e)'
    BY <1>6, <1>8 DEF Applying, CleaningUp
  <2>4. e \in seen'[e] => w.copy = status[e]
    BY <2>2 DEF AddressInv, CopiesInv
  <2> QED BY <1>1, <1>2, <1>5, <1>8, <2>1, <2>2, <2>3, <2>4, WorkerMoves DEF Known
<1> QED BY <1>4, <1>7, <1>8

\* A failing call ends the reconciliation.
LEMMA FailsAddresses ==
  ASSUME CoreTypeOK, AddressInv, NEW e \in Eip, EipFails(e)
  PROVE  AddressInv'
BY EndAddresses DEF EipFails, EipEnd, Goto, awsVars

\* The stale association of the copy is undone.
LEMMA DisassociateAddresses ==
  ASSUME CoreTypeOK, AddressInv, NEW e \in Eip, EipDisassociate(e)
  PROVE  AddressInv'
<1> DEFINE w == [worker[e] EXCEPT !.pc = "detach"]
<1>1. worker \in [Eip -> Worker] /\ worker[e] \in Worker
  BY DEF CoreTypeOK, EipControllerTypeOK
<1>2. w.pc = "detach" /\ w.uid = worker[e].uid /\ w.copy = worker[e].copy
  BY <1>1 DEF Worker
<1>3. /\ worker' = [worker EXCEPT ![e] = w]
      /\ UNCHANGED <<eip, status, seen, usedUid, owner, allocated, cachedEip, cachedStatus>>
  BY DEF EipDisassociate, disassociate_eip, Goto, eipVars
<1>4. Applying(e) /\ worker[e].pc # "refresh"
  BY DEF EipDisassociate, Applying
<1>5. worker[e].uid = eip[e].uid /\ eip[e].finalizer /\ worker[e].uid # None
  BY <1>4 DEF AddressInv, WorkerInv
<1>6. e \in seen'[e] => w.copy = status[e]
  BY <1>2, <1>3 DEF AddressInv, CopiesInv
<1> HIDE DEF w
<1>7. Applying(e)' /\ ~CleaningUp(e)'
  BY <1>1, <1>2, <1>3 DEF Applying, CleaningUp
<1> QED BY <1>1, <1>2, <1>3, <1>5, <1>6, <1>7, WorkerMoves DEF Known

\* The status of a stale claim is replaced, if the copy is the stored version.
LEMMA SetStatusDetachedAddresses ==
  ASSUME CoreTypeOK, AddressInv, NEW e \in Eip, EipSetStatusDetached(e)
  PROVE  AddressInv'
<1> USE DEF AddressInv, EipSetStatusDetached
<1>1. CASE e \in seen[e]
  <2> DEFINE s == StatusDetached(worker[e].copy)
             w == [worker[e] EXCEPT !.pc = "refresh", !.copy = NoStatus]
  <2>1. status[e] \in EipStatus /\ worker[e] \in Worker
    BY DEF CoreTypeOK, ClusterTypeOK, EipControllerTypeOK
  <2>2. Applying(e) /\ worker[e].copy = status[e] /\ Exists(e)
    BY <1>1, GuardedExists DEF CopiesInv, WorkerInv
  <2>3. s.alloc = status[e].alloc
    BY <2>1, <2>2 DEF StatusDetached, EipStatus
  <2>4. w.pc = "refresh" /\ w.uid = worker[e].uid
    BY <2>1 DEF Worker
  <2>5. Store(e, s, {e}) /\ worker' = [worker EXCEPT ![e] = w]
    BY <1>1 DEF Goto
  <2>6. UNCHANGED <<eip, usedUid, owner, allocated, cachedEip, cachedStatus>>
    BY DEF awsVars
  <2> HIDE DEF s, w
  <2> QED BY <2>2, <2>3, <2>4, <2>5, <2>6, StatusWrites
<1>2. CASE e \notin seen[e]
  BY <1>2, EndAddresses DEF EipEnd, Goto, awsVars
<1> QED BY <1>1, <1>2

\* The matching resources are made to look at their Eips.
LEMMA RefreshAddresses ==
  ASSUME CoreTypeOK, AddressInv, NEW e \in Eip, NEW done, EipRefresh(e, done)
  PROVE  AddressInv'
<1>1. e \notin seen[e]
  BY DEF AddressInv, CopiesInv, EipRefresh
<1> QED BY <1>1, EndAddresses DEF EipRefresh, EipEnd, Goto, eipVars, awsVars

\* Cleanup starts for an object that was seen deleting.
LEMMA CleanupAddresses ==
  ASSUME CoreTypeOK, AddressInv, NEW e \in Eip, EipCleanup(e)
  PROVE  AddressInv'
<1> DEFINE u == cachedEip[e].uid
           mine == describe_addresses_with_tag_value(u)
           found == {<<a, attached[a].assoc>> : a \in mine}
           w == [IdleWorker EXCEPT !.uid = u, !.todo = found,
                   !.pc = IF found = {} THEN "finalize" ELSE "release"]
<1>1. worker \in [Eip -> Worker]
  BY DEF CoreTypeOK, EipControllerTypeOK
<1>2. /\ worker' = [worker EXCEPT ![e] = w]
      /\ UNCHANGED <<eip, status, seen, usedUid, owner, allocated, cachedEip, cachedStatus>>
  BY DEF EipCleanup, Goto, eipVars, awsVars
<1>3. /\ w.uid = u /\ w.todo = found
      /\ w.pc = IF found = {} THEN "finalize" ELSE "release"
  <2> HIDE DEF u, found
  <2> QED BY DEF IdleWorker
<1>4. /\ w.pc = "finalize" => mine = {}
      /\ mine \subseteq {t[1] : t \in found}
      /\ \A t \in found : owner[t[1]] = u
  <2>1. found = {} => mine = {}
    OBVIOUS
  <2>2. \A a \in mine : <<a, attached[a].assoc>> \in found /\ <<a, attached[a].assoc>>[1] = a
    OBVIOUS
  <2>3. mine \subseteq {t[1] : t \in found}
    BY <2>2
  <2>4. \A t \in found : owner[t[1]] = u
    BY DEF describe_addresses_with_tag_value
  <2> QED BY <1>3, <2>1, <2>3, <2>4
<1>5. /\ u # None
      /\ ~(cachedEip[e].phase = "live" /\ cachedEip[e].finalizer)
      /\ IF eip[e].uid = u THEN eip[e].phase = "deleting" ELSE ~eip[e].finalizer
      /\ e \notin seen[e]
  BY DEF AddressInv, PhasesInv, CacheInv, CopiesInv, Applying, EipCleanup, EipReady
<1> HIDE DEF w, found
<1>6. ~Applying(e)'
  BY <1>1, <1>2, <1>3 DEF Applying
<1> QED BY <1>1, <1>2, <1>3, <1>4, <1>5, <1>6, WorkerMoves DEF Known

\* An address is disassociated before it is released.
LEMMA CleanupDisassociateAddresses ==
  ASSUME CoreTypeOK, AddressInv, NEW e \in Eip, EipCleanupDisassociate(e)
  PROVE  AddressInv'
<1>1. worker \in [Eip -> Worker] /\ worker[e] \in Worker /\ worker[e].pc = "release"
  BY DEF CoreTypeOK, EipControllerTypeOK, EipCleanupDisassociate
<1>2. PICK t \in worker[e].todo :
        Goto(e, [worker[e] EXCEPT !.todo = (@ \ {t}) \cup {<<t[1], None>>}])
  BY DEF EipCleanupDisassociate
<1> DEFINE todo == (worker[e].todo \ {t}) \cup {<<t[1], None>>}
           w == [worker[e] EXCEPT !.todo = todo]
<1>3. /\ worker' = [worker EXCEPT ![e] = w]
      /\ UNCHANGED <<eip, status, seen, usedUid, owner, allocated, cachedEip, cachedStatus>>
  BY <1>2 DEF EipCleanupDisassociate, disassociate_eip, Goto, eipVars
<1>4. w.pc = "release" /\ w.uid = worker[e].uid /\ w.todo = todo
  <2> HIDE DEF todo
  <2> QED BY <1>1 DEF Worker
<1>5. /\ describe_addresses_with_tag_value(w.uid) \subseteq {s[1] : s \in worker[e].todo}
      /\ \A s \in worker[e].todo : owner[s[1]] = w.uid
  BY <1>1, <1>4 DEF AddressInv, WorkerAddressInv
<1>6. /\ {s[1] : s \in worker[e].todo} \subseteq {s[1] : s \in todo}
      /\ \A s \in todo : owner[s[1]] = w.uid
  <2>1. <<t[1], None>>[1] = t[1] /\ <<t[1], None>> \in todo
    OBVIOUS
  <2>2. \A s \in worker[e].todo : s # t => s \in todo
    OBVIOUS
  <2>3. \A s \in todo : s \in worker[e].todo \/ s = <<t[1], None>>
    OBVIOUS
  <2> HIDE DEF w, todo
  <2> QED BY <1>5, <2>1, <2>2, <2>3
<1>7. CleaningUp(e) /\ e \notin seen[e]
  BY <1>1 DEF AddressInv, CopiesInv, Applying, CleaningUp
<1> HIDE DEF w, todo
<1>8. ~Applying(e)'
  BY <1>1, <1>3, <1>4 DEF Applying
<1>9. /\ w.uid # None
      /\ ~(cachedEip[e].phase = "live" /\ cachedEip[e].finalizer)
      /\ IF eip[e].uid = w.uid THEN eip[e].phase = "deleting" ELSE ~eip[e].finalizer
  BY <1>4, <1>7 DEF AddressInv, WorkerInv
<1> QED BY <1>1, <1>3, <1>4, <1>5, <1>6, <1>7, <1>8, <1>9, WorkerMoves DEF Known

\* An address is released: it was an address of the object being deleted.
LEMMA CleanupReleaseAddresses ==
  ASSUME CoreTypeOK, AddressInv, NEW e \in Eip, EipCleanupRelease(e)
  PROVE  AddressInv'
<1> USE DEF AddressInv
<1> DEFINE u == worker[e].uid
           rest(t) == worker[e].todo \ {t}
           w(t) == [worker[e] EXCEPT !.todo = rest(t),
                      !.pc = IF rest(t) = {} THEN "finalize" ELSE "release"]
<1>1. worker \in [Eip -> Worker] /\ worker[e] \in Worker /\ worker[e].pc = "release"
  BY DEF CoreTypeOK, EipControllerTypeOK, EipCleanupRelease
<1>2. PICK t \in worker[e].todo :
        IF Releasable(t[1])
          THEN release_address(t[1]) /\ Goto(e, w(t))
          ELSE EipEnd(e, TRUE) /\ UNCHANGED awsVars
  BY DEF EipCleanupRelease
<1>3. UNCHANGED <<eip, status, seen, usedUid, cachedEip, cachedStatus>>
  BY DEF EipCleanupRelease, eipVars
<1>4. e \notin seen[e]
  BY <1>1 DEF CopiesInv, Applying
<1>5. CASE ~Releasable(t[1])
  BY <1>2, <1>3, <1>4, <1>5, EndAddresses DEF EipEnd, Goto, awsVars
<1>6. CASE Releasable(t[1])
  <2>1. /\ allocated' = allocated \ {t[1]}
        /\ owner' = owner
        /\ worker' = [worker EXCEPT ![e] = w(t)]
    BY <1>2, <1>6 DEF release_address, Goto
  <2>2. /\ w(t).uid = u /\ w(t).todo = rest(t)
        /\ w(t).pc = IF rest(t) = {} THEN "finalize" ELSE "release"
    <3> HIDE DEF rest
    <3> QED BY <1>1 DEF Worker
  <2> DEFINE v == w(t)
  <2> HIDE DEF w
  <2>3. worker'[e] = v /\ \A f \in Eip : f # e => worker'[f] = worker[f]
    BY <1>1, <2>1
  <2> HIDE DEF v
  <2>4. /\ describe_addresses_with_tag_value(u) \subseteq {s[1] : s \in worker[e].todo}
        /\ \A s \in worker[e].todo : owner[s[1]] = u
    BY <1>1 DEF WorkerAddressInv
  <2>5. /\ u # None
        /\ IF eip[e].uid = u THEN eip[e].phase = "deleting" ELSE ~eip[e].finalizer
    BY <1>1 DEF WorkerInv, CleaningUp
  <2>6. owner[t[1]] = u
    BY <2>4
  <2>7. \A f \in Eip : f # e => u \notin Known(f)
    BY <2>5 DEF UidsInv, Known
  <2>8. UidsInv'
    BY <1>3, <2>1, <2>2, <2>3, UidsKept DEF Known, v
  <2>9. PhasesInv' /\ CacheInv'
    BY <1>3 DEF PhasesInv, CacheInv
  <2>10. WorkerInv'
    BY <1>1, <1>3, <2>2, <2>3 DEF WorkerInv, Applying, CleaningUp, v
  <2>11. WorkerAddressInv'
    <3>1. {a \in allocated' : owner'[a] = u} \subseteq {s[1] : s \in rest(t)}
      BY <2>1, <2>4 DEF describe_addresses_with_tag_value
    <3>2. rest(t) = {} => {a \in allocated' : owner'[a] = u} = {}
      BY <3>1
    <3>3. \A s \in rest(t) : owner'[s[1]] = u
      BY <2>1, <2>4
    <3>4. ASSUME NEW f \in Eip, f # e, worker[f].pc \in {"allocate", "created", "release", "finalize"}
          PROVE  {a \in allocated' : owner'[a] = worker[f].uid}
                   = describe_addresses_with_tag_value(worker[f].uid)
      <4>1. worker[f].uid # None /\ worker[f].uid # u
        BY <2>5, <2>7, <3>4 DEF WorkerInv, Applying, CleaningUp, Known
      <4> QED BY <2>1, <2>6, <4>1 DEF describe_addresses_with_tag_value
    <3> HIDE DEF rest
    <3>5. /\ v.pc \in {"finalize", "release"}
          /\ v.pc = "finalize" => rest(t) = {}
          /\ v.uid = u /\ v.todo = rest(t)
      BY <2>2 DEF v
    <3>6. ASSUME NEW f \in Eip
          PROVE  LET mine == {a \in allocated' : owner'[a] = worker'[f].uid}
                 IN /\ worker'[f].pc \in {"allocate", "finalize"} => mine = {}
                    /\ worker'[f].pc = "created" => worker'[f].alloc \in mine
                    /\ worker'[f].pc = "release" =>
                         /\ mine \subseteq {s[1] : s \in worker'[f].todo}
                         /\ \A s \in worker'[f].todo : owner'[s[1]] = worker'[f].uid
      <4>1. CASE f = e
        BY <2>3, <3>1, <3>2, <3>3, <3>5, <4>1
      <4>2. CASE f # e
        BY <2>1, <2>3, <3>4, <4>2 DEF WorkerAddressInv
      <4> QED BY <4>1, <4>2
    <3> QED BY <3>6 DEF WorkerAddressInv, describe_addresses_with_tag_value
  <2>12. CopiesInv'
    BY <1>3, <1>4, <2>3 DEF CopiesInv, Applying, Exists
  <2>13. OneAddressPerEip' /\ NoOrphanAddress'
    BY <1>3, <2>1 DEF OneAddressPerEip, NoOrphanAddress
  <2>14. StatusNamesOwnAddress'
    <3>1. ASSUME NEW f \in Eip, status[f].alloc # None, eip[f].phase = "live"
          PROVE  status[f].alloc # t[1]
      <4>1. CASE f = e
        BY <2>5, <2>6, <3>1, <4>1 DEF StatusNamesOwnAddress
      <4>2. CASE f # e
        BY <2>5, <2>6, <2>7, <3>1, <4>2 DEF StatusNamesOwnAddress, Known
      <4> QED BY <4>1, <4>2
    <3> QED BY <1>3, <2>1, <3>1 DEF StatusNamesOwnAddress
  <2> QED BY <2>8, <2>9, <2>10, <2>11, <2>12, <2>13, <2>14
<1> QED BY <1>5, <1>6

\* Steps that remove, or begin to delete, the object of the name e while no
\* address is left without its guard.
LEMMA DeletionAddresses ==
  ASSUME CoreTypeOK, AddressInv, NEW e \in Eip, NEW obj, NEW s,
         eip' = [eip EXCEPT ![e] = obj], status' = [status EXCEPT ![e] = s],
         \/ obj = NoEip /\ s = NoStatus
         \/ obj = [eip[e] EXCEPT !.phase = "deleting"] /\ s = status[e] /\ eip[e].finalizer,
         obj = NoEip => \A a \in allocated : owner[a] # eip[e].uid,
         eip[e].phase # "absent",
         worker' = worker \/ worker' = [worker EXCEPT ![e] = IdleWorker],
         worker' = worker /\ obj = NoEip => ~Applying(e),
         ~(obj = NoEip /\ cachedEip[e].phase = "live" /\ cachedEip[e].finalizer),
         UNCHANGED <<usedUid, owner, allocated, cachedEip, cachedStatus>>,
         seen' = [seen EXCEPT ![e] = {}]
  PROVE  AddressInv'
<1> USE DEF AddressInv
<1>1. /\ eip \in [Eip -> EipMeta] /\ status \in [Eip -> EipStatus]
      /\ seen \in [Eip -> SUBSET Holder] /\ worker \in [Eip -> Worker]
  BY DEF CoreTypeOK, ClusterTypeOK, EipControllerTypeOK
<1>2. /\ obj.phase # "live"
      /\ obj.phase = "absent" => obj = NoEip /\ s = NoStatus /\ obj.uid = None /\ ~obj.finalizer
      /\ obj.phase # "absent" => /\ obj.phase = "deleting" /\ obj.uid = eip[e].uid
                                 /\ obj.finalizer /\ eip[e].finalizer /\ s = status[e]
  BY <1>1 DEF NoEip, EipMeta
<1>3. /\ eip'[e] = obj /\ status'[e] = s /\ seen'[e] = {}
      /\ \A f \in Eip : f # e => /\ eip'[f] = eip[f] /\ status'[f] = status[f]
                                 /\ seen'[f] = seen[f] /\ worker'[f] = worker[f]
  BY <1>1
<1>4. \/ worker'[e] = worker[e] /\ (obj = NoEip => ~Applying(e))
      \/ worker'[e].pc = "idle" /\ worker'[e].uid = None
  BY <1>1 DEF IdleWorker
<1>5. UidsInv'
  BY <1>2, <1>3, <1>4, UidsKept DEF Known
<1>6. PhasesInv'
  BY <1>2, <1>3 DEF PhasesInv
<1>7. CacheInv'
  BY <1>2, <1>3 DEF CacheInv, PhasesInv
<1>8. WorkerInv'
  BY <1>2, <1>3, <1>4 DEF WorkerInv, Applying, CleaningUp
<1>9. WorkerAddressInv'
  BY <1>3, <1>4 DEF WorkerAddressInv, describe_addresses_with_tag_value
<1>10. CopiesInv'
  BY <1>3 DEF CopiesInv, Applying, Exists
<1>11. OneAddressPerEip' /\ NoOrphanAddress'
  BY <1>2, <1>3 DEF OneAddressPerEip, NoOrphanAddress
<1>12. StatusNamesOwnAddress'
  BY <1>2, <1>3 DEF StatusNamesOwnAddress, NoStatus
<1> QED BY <1>5, <1>6, <1>7, <1>8, <1>9, <1>10, <1>11, <1>12

\* The finalizer is taken off: of the object whose addresses are gone.
LEMMA RemoveFinalizerAddresses ==
  ASSUME CoreTypeOK, AddressInv, NEW e \in Eip, EipRemoveFinalizer(e)
  PROVE  AddressInv'
<1> USE DEF AddressInv
<1>1. /\ CleaningUp(e) /\ ~Applying(e) /\ e \notin seen[e]
      /\ UNCHANGED <<usedUid, owner, allocated, cachedEip, cachedStatus>>
      /\ worker' = [worker EXCEPT ![e] = IdleWorker]
  BY DEF EipRemoveFinalizer, CleaningUp, Applying, CopiesInv, EipEnd, Goto, awsVars
<1>2. CASE eip[e].finalizer
  <2>1. eip[e].phase = "deleting" /\ eip[e].uid = worker[e].uid
    BY <1>1, <1>2 DEF WorkerInv
  <2>2. /\ eip' = [eip EXCEPT ![e] = NoEip]
        /\ status' = [status EXCEPT ![e] = NoStatus]
        /\ seen' = [seen EXCEPT ![e] = {}]
    BY <1>2, <2>1 DEF EipRemoveFinalizer
  <2>3. \A a \in allocated : owner[a] # eip[e].uid
    BY <2>1 DEF WorkerAddressInv, EipRemoveFinalizer, describe_addresses_with_tag_value
  <2>4. ~(cachedEip[e].phase = "live" /\ cachedEip[e].finalizer)
    BY <1>1 DEF WorkerInv
  <2> QED BY <1>1, <2>1, <2>2, <2>3, <2>4, DeletionAddresses
<1>3. CASE ~eip[e].finalizer
  BY <1>1, <1>3, EndAddresses DEF EipRemoveFinalizer
<1> QED BY <1>2, <1>3

\* Every step of the reconciliation of an Eip.
LEMMA EipControllerAddresses ==
  ASSUME CoreTypeOK, AddressInv, NEW e \in Eip,
         EipStep(e) \/ EipFault(e) \/ EipResync(e)
  PROVE  AddressInv'
<1>1. CASE EipResync(e)
  <2>1. Quiet
    BY <1>1, ClusterAssumption DEF AddressInv, CopiesInv, EipResync, Quiet, eipVars, awsVars
  <2> QED BY <2>1, QuietAddresses
<1> QED
  BY <1>1, WatchAddresses, AddFinalizerAddresses, ApplyAddresses, AllocateAddresses,
     SetStatusCreatedAddresses, ListResourcesAddresses, DisassociateAddresses,
     SetStatusDetachedAddresses, RefreshAddresses, CleanupAddresses,
     CleanupDisassociateAddresses, CleanupReleaseAddresses,
     RemoveFinalizerAddresses, FailsAddresses
  DEF EipStep, EipStart, EipProgress, EipFault, EipRefreshFails

-----------------------------------------------------------------------------
(* What the other controllers do to the Eips is quiet.                     *)

\* A status write by a resource keeps the address the status names.
LEMMA StoreQuiet ==
  ASSUME AddressInv, CoreTypeOK, NEW n \in Resource, NEW e, NEW s, NEW done,
         e \in Eip => Exists(e) /\ s.alloc = status[e].alloc,
         Store(e, s, done),
         UNCHANGED <<eip, usedUid, owner, allocated, cachedEip, cachedStatus, worker>>
  PROVE  Quiet
BY DEF Quiet, Store, AddressInv, CopiesInv, CoreTypeOK, ClusterTypeOK

\* So does a step that writes no status and only drops copies.
LEMMA ForgetQuiet ==
  ASSUME AddressInv, NEW n \in Resource, seen' = seen \/ seen' = Forget(n),
         UNCHANGED <<eip, status, usedUid, owner, allocated, cachedEip, cachedStatus, worker>>
  PROVE  Quiet
BY DEF Quiet, Forget, AddressInv, CopiesInv

\* And one that reads Eips that exist.
LEMMA ReadQuiet ==
  ASSUME AddressInv, NEW n \in Resource, NEW es, \A e \in es : Exists(e),
         seen' = Read(es, n),
         UNCHANGED <<eip, status, usedUid, owner, allocated, cachedEip, cachedStatus, worker>>
  PROVE  Quiet
BY ClusterAssumption DEF Quiet, Read, AddressInv, CopiesInv

\* What the writes of the other controllers keep of a status.
LEMMA StatusKeepsAddress ==
  ASSUME NEW s \in EipStatus
  PROVE  /\ StatusDetached(s).alloc = s.alloc
         /\ \A x : StatusAssociationId(s, x).alloc = s.alloc
         /\ \A r, p : StatusShouldAttach(s, r, p).alloc = s.alloc
BY DEF EipStatus, StatusDetached, StatusAssociationId, StatusShouldAttach

-----------------------------------------------------------------------------
(* The environment and the operator's own end.                             *)

\* An Eip is created, with a uid that no Eip ever had.
LEMMA CreateAddresses ==
  ASSUME CoreTypeOK, AddressInv, NEW e \in Eip, CreateEip(e), UNCHANGED eipCtlVars
  PROVE  AddressInv'
<1> USE DEF AddressInv
<1> DEFINE u == CHOOSE v \in Uid \ usedUid : TRUE
           obj == [phase |-> "live", uid |-> u, finalizer |-> FALSE]
<1>1. u \in Uid /\ u \notin usedUid
  BY DEF CreateEip
<1>2. u # None
  BY <1>1, ClusterAssumption
<1>3. /\ ~Exists(e)
      /\ eip' = [eip EXCEPT ![e] = obj]
      /\ usedUid' = usedUid \cup {u}
      /\ seen' = [seen EXCEPT ![e] = {}]
      /\ UNCHANGED <<status, owner, allocated, cachedEip, cachedStatus, worker>>
  BY DEF CreateEip, awsVars, eipCtlVars
<1>4. obj.phase = "live" /\ obj.uid = u /\ ~obj.finalizer
  OBVIOUS
<1> HIDE DEF u, obj
<1>5. /\ eip'[e] = obj /\ seen'[e] = {}
      /\ \A f \in Eip : f # e => eip'[f] = eip[f] /\ seen'[f] = seen[f]
  BY <1>3 DEF CoreTypeOK, ClusterTypeOK
<1>6. /\ eip[e].uid = None /\ ~eip[e].finalizer /\ status[e].alloc = None
      /\ ~Applying(e)
  BY <1>3, GuardedExists DEF PhasesInv, WorkerInv, Exists, NoEip, NoStatus
<1>7. UidsInv'
  <2>1. \A f \in Eip : Known(f)' \subseteq Known(f) \cup (IF f = e THEN {u} ELSE {})
    BY <1>3, <1>4, <1>5 DEF Known
  <2>2. \A f \in Eip : u \notin Known(f)
    BY <1>1 DEF UidsInv
  <2> QED BY <1>3, <2>1, <2>2 DEF UidsInv
<1>8. PhasesInv'
  BY <1>2, <1>3, <1>4, <1>5 DEF PhasesInv
<1>9. CacheInv'
  <2>1. \A f \in Eip : cachedEip[f].uid # u
    BY <1>1, <1>2 DEF UidsInv, Known
  <2> QED BY <1>3, <1>4, <1>5, <1>6, <2>1 DEF CacheInv
<1>10. WorkerInv'
  <2>1. \A f \in Eip : worker[f].uid # u
    BY <1>1, <1>2 DEF UidsInv, Known
  <2> QED BY <1>3, <1>4, <1>5, <1>6, <2>1 DEF WorkerInv, Applying, CleaningUp
<1>11. WorkerAddressInv'
  BY <1>3 DEF WorkerAddressInv, describe_addresses_with_tag_value
<1>12. CopiesInv'
  BY <1>3, <1>5 DEF CopiesInv, Applying, Exists
<1>13. OneAddressPerEip' /\ NoOrphanAddress' /\ StatusNamesOwnAddress'
  BY <1>3, <1>5, <1>6 DEF OneAddressPerEip, NoOrphanAddress, StatusNamesOwnAddress
<1> QED BY <1>7, <1>8, <1>9, <1>10, <1>11, <1>12, <1>13

\* An Eip is deleted: at once, or it is marked if its finalizer guards it.
LEMMA DeleteAddresses ==
  ASSUME CoreTypeOK, AddressInv, NEW e \in Eip, DeleteEip(e), UNCHANGED eipCtlVars
  PROVE  AddressInv'
<1>1. /\ eip[e].phase = "live"
      /\ seen' = [seen EXCEPT ![e] = {}]
      /\ UNCHANGED <<usedUid, owner, allocated, cachedEip, cachedStatus, worker>>
      /\ IF eip[e].finalizer
           THEN /\ eip' = [eip EXCEPT ![e] = [eip[e] EXCEPT !.phase = "deleting"]]
                /\ status' = [status EXCEPT ![e] = status[e]]
           ELSE /\ eip' = [eip EXCEPT ![e] = NoEip]
                /\ status' = [status EXCEPT ![e] = NoStatus]
  BY DEF DeleteEip, CoreTypeOK, ClusterTypeOK, awsVars, eipCtlVars
<1>2. CASE eip[e].finalizer
  <2>1. [eip[e] EXCEPT !.phase = "deleting"] # NoEip
    BY DEF CoreTypeOK, ClusterTypeOK, EipMeta, NoEip
  <2> QED BY <1>1, <1>2, <2>1, DeletionAddresses
<1>3. CASE ~eip[e].finalizer
  <2>1. \A a \in allocated : owner[a] # eip[e].uid
    <3>1. SUFFICES ASSUME NEW a \in allocated, owner[a] = eip[e].uid PROVE FALSE
      OBVIOUS
    <3>2. PICK f \in Eip : eip[f].uid = eip[e].uid /\ eip[f].finalizer
      BY <3>1 DEF AddressInv, NoOrphanAddress
    <3> QED BY <1>1, <1>3, <3>2 DEF AddressInv, PhasesInv, UidsInv, Known
  <2>2. ~Applying(e) /\ ~(cachedEip[e].phase = "live" /\ cachedEip[e].finalizer)
    BY <1>3 DEF AddressInv, WorkerInv, CacheInv
  <2> QED BY <1>1, <1>3, <2>1, <2>2, DeletionAddresses
<1> QED BY <1>2, <1>3

\* The operator crashes and starts again from a list.
LEMMA RestartAddresses ==
  ASSUME CoreTypeOK, AddressInv, EipControllerRestart,
         seen' = [e \in Eip |-> {"cache"}],
         UNCHANGED <<eip, status, usedUid, awsVars>>
  PROVE  AddressInv'
<1> USE DEF AddressInv, EipControllerRestart
<1>1. \A e \in Eip : worker'[e].pc = "idle" /\ worker'[e].uid = None
  BY DEF IdleWorker
<1>2. UidsInv'
  <2>1. \A e \in Eip : Known(e)' \subseteq Known(e)
    BY <1>1 DEF Known
  <2> QED BY <2>1, UidsKept DEF awsVars
<1>3. PhasesInv' /\ CacheInv'
  BY DEF PhasesInv, CacheInv
<1>4. WorkerInv' /\ WorkerAddressInv'
  BY <1>1 DEF WorkerInv, WorkerAddressInv, Applying, CleaningUp
<1>5. CopiesInv'
  BY ClusterAssumption DEF CopiesInv
<1>6. OneAddressPerEip' /\ NoOrphanAddress' /\ StatusNamesOwnAddress'
  BY DEF OneAddressPerEip, NoOrphanAddress, StatusNamesOwnAddress, awsVars
<1> QED BY <1>2, <1>3, <1>4, <1>5, <1>6

\* Nothing is known and nothing is allocated at first.
LEMMA InitAddresses == ASSUME ClusterInit, EipControllerInit PROVE AddressInv
<1> USE DEF ClusterInit, EipControllerInit
<1>1. UidsInv
  BY DEF UidsInv, Known, NoEip, IdleWorker
<1>2. PhasesInv /\ CacheInv
  BY DEF PhasesInv, CacheInv, NoEip
<1>3. WorkerInv /\ WorkerAddressInv
  BY DEF WorkerInv, WorkerAddressInv, Applying, CleaningUp, IdleWorker
<1>4. CopiesInv
  BY ClusterAssumption DEF CopiesInv
<1>5. OneAddressPerEip /\ NoOrphanAddress /\ StatusNamesOwnAddress
  BY DEF OneAddressPerEip, NoOrphanAddress, StatusNamesOwnAddress, NoStatus
<1> QED BY <1>1, <1>2, <1>3, <1>4, <1>5 DEF AddressInv

-----------------------------------------------------------------------------
(* What is never used twice.                                               *)

\* No step gives an address another tag, or an object the uid of an earlier one.
History ==
  /\ \A a \in AllocId : owner[a] # None => owner'[a] = owner[a]
  /\ usedUid \subseteq usedUid'
  /\ \A e \in Eip : eip'[e].uid \in {eip[e].uid, None} \/ eip'[e].uid \notin usedUid
  /\ \A a \in allocated' : a \in allocated \/ owner[a] = None

LEMMA QuietHistory ==
  ASSUME UNCHANGED <<eip, usedUid, owner, allocated>>
  PROVE  History
BY DEF History

\* Users and pods create and delete Eips.
LEMMA CreationHistory ==
  ASSUME CoreTypeOK, NEW e \in Eip, CreateEip(e) \/ DeleteEip(e)
  PROVE  History
<1> USE DEF CoreTypeOK, ClusterTypeOK, History, awsVars
<1>1. CASE CreateEip(e)
  <2> DEFINE u == CHOOSE v \in Uid \ usedUid : TRUE
             obj == [phase |-> "live", uid |-> u, finalizer |-> FALSE]
  <2>1. /\ u \notin usedUid
        /\ eip' = [eip EXCEPT ![e] = obj]
        /\ usedUid' = usedUid \cup {u}
        /\ UNCHANGED <<owner, allocated>>
    BY <1>1 DEF CreateEip
  <2>2. obj.uid = u
    OBVIOUS
  <2> HIDE DEF obj, u
  <2> QED BY <2>1, <2>2
<1>2. CASE DeleteEip(e)
  <2> DEFINE obj == IF eip[e].finalizer THEN [eip[e] EXCEPT !.phase = "deleting"]
                                        ELSE NoEip
  <2>1. /\ eip' = [eip EXCEPT ![e] = obj]
        /\ UNCHANGED <<usedUid, owner, allocated>>
    BY <1>2 DEF DeleteEip
  <2>2. obj.uid \in {eip[e].uid, None}
    BY DEF EipMeta, NoEip
  <2> HIDE DEF obj
  <2> QED BY <2>1, <2>2
<1> QED BY <1>1, <1>2

\* So does the Eip controller.
LEMMA EipControllerHistory ==
  ASSUME CoreTypeOK, NEW e \in Eip, EipStep(e) \/ EipFault(e) \/ EipResync(e)
  PROVE  History
<1> USE DEF CoreTypeOK, ClusterTypeOK, eipVars, awsVars
<1>1. CASE EipAllocate(e)
  <2> DEFINE a == CHOOSE b \in UnusedAllocIds : TRUE
  <2>1. /\ owner[a] = None
        /\ allocated' = allocated \cup {a}
        /\ owner' = [owner EXCEPT ![a] = worker[e].uid]
        /\ UNCHANGED <<eip, usedUid>>
    BY <1>1 DEF EipAllocate, allocate_address, UnusedAllocIds
  <2> HIDE DEF a
  <2> QED BY <2>1 DEF History
<1>2. CASE EipAddFinalizer(e)
  <2> DEFINE obj == [eip[e] EXCEPT !.finalizer = TRUE]
  <2>1. /\ eip' = [eip EXCEPT ![e] = obj]
        /\ UNCHANGED <<usedUid, owner, allocated>>
    BY <1>2 DEF EipAddFinalizer
  <2>2. obj.uid = eip[e].uid
    BY DEF EipMeta
  <2> HIDE DEF obj
  <2> QED BY <2>1, <2>2 DEF History
<1>3. CASE EipRemoveFinalizer(e)
  <2> DEFINE obj == IF eip[e].phase = "deleting" THEN NoEip
                    ELSE [eip[e] EXCEPT !.finalizer = FALSE]
  <2>1. /\ eip' = eip \/ eip' = [eip EXCEPT ![e] = obj]
        /\ UNCHANGED <<usedUid, owner, allocated>>
    BY <1>3 DEF EipRemoveFinalizer
  <2>2. obj.uid \in {eip[e].uid, None}
    BY DEF EipMeta, NoEip
  <2> HIDE DEF obj
  <2> QED BY <2>1, <2>2 DEF History
<1>4. CASE EipCleanupRelease(e)
  <2>1. /\ UNCHANGED <<eip, usedUid, owner>>
        /\ allocated' \subseteq allocated
    BY <1>4 DEF EipCleanupRelease, release_address
  <2> QED BY <2>1 DEF History
<1>5. CASE ~(\/ EipAllocate(e) \/ EipAddFinalizer(e) \/ EipRemoveFinalizer(e)
             \/ EipCleanupRelease(e))
  <2>1. UNCHANGED <<eip, usedUid, owner, allocated>>
    BY <1>5
    DEF EipStep, EipStart, EipProgress, EipFault, EipRefreshFails, EipWatch, EipResync, EipApply,
        EipSetStatusCreated, EipListResources, EipDisassociate, EipSetStatusDetached,
        EipRefresh, EipFails, EipCleanup, EipCleanupDisassociate, disassociate_eip
  <2> QED BY <2>1, QuietHistory
<1> QED BY <1>1, <1>2, <1>3, <1>4, <1>5

\* No step gives an old uid or an old tag to anything.
LEMMA OldUids ==
  ASSUME AddressInv, History, NEW e \in Eip, NEW a \in AllocId, owner[a] # None,
         eip'[e].uid = owner'[a]
  PROVE  eip[e].uid = owner[a] /\ owner'[a] = owner[a] /\ owner[a] \in usedUid
<1>1. owner[a] \in usedUid /\ owner'[a] = owner[a]
  BY DEF AddressInv, UidsInv, History
<1> QED BY <1>1 DEF History

\* Every address has an owner.
LEMMA OwnerKnown == ASSUME AddressInv, NEW a \in allocated PROVE owner[a] # None
BY DEF AddressInv, NoOrphanAddress, PhasesInv, NoEip

\* An address that is still there belongs to an object that is still there.
LEMMA OwnerStays ==
  ASSUME AddressInv, AddressInv', History, NEW e \in Eip,
         NEW a \in AllocId, a \in allocated \cap allocated', eip[e].uid = owner[a]
  PROVE  eip'[e].uid = owner[a] /\ eip'[e].uid # None
<1>a. owner[a] # None
  BY OwnerKnown
<1>1. PICK f \in Eip : eip'[f].uid = owner'[a]
  BY DEF AddressInv, NoOrphanAddress
<1>2. eip[f].uid = owner[a] /\ owner'[a] = owner[a]
  BY <1>a, <1>1, OldUids
<1>3. f = e
  BY <1>a, <1>2 DEF AddressInv, UidsInv, Known
<1> QED BY <1>a, <1>1, <1>2, <1>3

-----------------------------------------------------------------------------
(* The ledger.                                                             *)

\* The life of every uid, as the ledger sees it.
life == [u \in Uid |-> LifeOf(u)]

\* What the object of a uid says of its life.
LEMMA LifeOfObject ==
  ASSUME AddressInv, NEW e \in Eip, eip[e].uid # None
  PROVE  LifeOf(eip[e].uid) = IF ~eip[e].finalizer THEN "new"
                              ELSE IF eip[e].phase = "live" THEN "guarded"
                              ELSE "closing"
<1>1. eip[e].uid \in usedUid
  BY DEF AddressInv, UidsInv, Known
<1>2. \A f \in Eip : eip[f].uid = eip[e].uid => f = e
  BY DEF AddressInv, UidsInv, Known
<1> QED BY <1>1, <1>2 DEF LifeOf

\* A step that leaves objects and addresses alone leaves the ledger alone.
LEMMA LedgerStutters ==
  ASSUME UNCHANGED <<eip, usedUid, owner, allocated>>
  PROVE  UNCHANGED Ledger!vars
<1>1. \A u \in Uid : LifeOf(u)' = LifeOf(u)
  BY DEF LifeOf
<1> QED BY <1>1 DEF Ledger!vars

\* A step on the object of one name changes the life of its uid only.
LEMMA OneLifeChanges ==
  ASSUME NEW e \in Eip, NEW u \in Uid,
         \A f \in Eip : f # e => eip'[f] = eip[f],
         eip[e].uid \in {u, None}, eip'[e].uid \in {u, None},
         usedUid' = usedUid \/ usedUid' = usedUid \cup {u}
  PROVE  life' = [life EXCEPT ![u] = life'[u]]
<1>1. ASSUME NEW v \in Uid, v # u PROVE LifeOf(v)' = LifeOf(v)
  <2>1. v # None
    BY ClusterAssumption
  <2>2. eip[e].uid # v /\ eip'[e].uid # v
    BY <1>1, <2>1
  <2> QED BY <1>1, <2>2 DEF LifeOf
<1> QED BY <1>1 DEF life

\* The finalizer guards a new object.
LEMMA GuardSteps ==
  ASSUME CoreTypeOK, AddressInv, NEW e \in Eip, EipAddFinalizer(e)
  PROVE  Ledger!Next
<1> DEFINE obj == [eip[e] EXCEPT !.finalizer = TRUE]
<1>1. /\ eip[e].phase = "live" /\ ~eip[e].finalizer
      /\ eip' = [eip EXCEPT ![e] = obj]
      /\ UNCHANGED <<usedUid, owner, allocated>>
  BY DEF EipAddFinalizer, awsVars
<1>2. PICK u \in Uid : u = eip[e].uid /\ u # None /\ u \in usedUid
  BY <1>1 DEF AddressInv, PhasesInv, UidsInv, Known, CoreTypeOK, ClusterTypeOK
<1>3. obj.uid = u /\ obj.phase = "live" /\ obj.finalizer
  BY <1>1, <1>2 DEF CoreTypeOK, ClusterTypeOK, EipMeta
<1>4. life[u] = "new"
  BY <1>1, <1>2, LifeOfObject DEF life
<1>5. eip'[e] = obj /\ \A f \in Eip : f # e => eip'[f] = eip[f] /\ eip[f].uid # u
  BY <1>1, <1>2 DEF CoreTypeOK, ClusterTypeOK, AddressInv, UidsInv, Known
<1> HIDE DEF obj
<1>6. life'[u] = "guarded"
  BY <1>1, <1>2, <1>3, <1>5 DEF life, LifeOf
<1>7. life' = [life EXCEPT ![u] = "guarded"]
  <2>1. eip[e].uid \in {u, None} /\ eip'[e].uid \in {u, None} /\ usedUid' = usedUid
    BY <1>1, <1>2, <1>3, <1>5
  <2>2. life' = [life EXCEPT ![u] = life'[u]]
    BY <1>5, <2>1, OneLifeChanges
  <2> QED BY <1>6, <2>2
<1> QED BY <1>1, <1>2, <1>4, <1>7 DEF Ledger!Next, Ledger!Guard, Ledger!Become, life

\* An allocation is for an object that is guarded and has no address.
LEMMA AllocateSteps ==
  ASSUME CoreTypeOK, AddressInv, NEW e \in Eip, EipAllocate(e)
  PROVE  Ledger!Next
<1> DEFINE a == CHOOSE b \in UnusedAllocIds : TRUE
           u == worker[e].uid
<1>1. /\ a \in AllocId /\ owner[a] = None
      /\ allocated' = allocated \cup {a}
      /\ owner' = [owner EXCEPT ![a] = u]
      /\ UNCHANGED <<eip, usedUid>>
  BY DEF EipAllocate, allocate_address, UnusedAllocIds, eipVars
<1>2. /\ u # None /\ eip[e].uid = u /\ eip[e].finalizer
      /\ describe_addresses_with_tag_value(u) = {}
  BY DEF EipAllocate, AddressInv, WorkerInv, WorkerAddressInv, Applying
<1>3. u \in Uid
  BY <1>2 DEF CoreTypeOK, EipControllerTypeOK, Worker
<1>4. life[u] \in {"guarded", "closing"}
  BY <1>2, <1>3, LifeOfObject DEF life
<1>5. UNCHANGED life
  BY <1>1 DEF life, LifeOf
<1> HIDE DEF a, u
<1>6. Ledger!Allocate(u, a)
  BY <1>1, <1>2, <1>4, <1>5
  DEF Ledger!Allocate, Ledger!AddressesOf, describe_addresses_with_tag_value, life
<1> QED BY <1>1, <1>3, <1>6 DEF Ledger!Next

\* A release is of an address of an object that is being deleted.
LEMMA ReleaseSteps ==
  ASSUME CoreTypeOK, AddressInv, NEW e \in Eip, EipCleanupRelease(e)
  PROVE  [Ledger!Next]_Ledger!vars
<1> DEFINE u == worker[e].uid
<1>1. /\ UNCHANGED <<eip, usedUid>>
      /\ worker[e].pc = "release"
  BY DEF EipCleanupRelease, eipVars
<1>2. PICK t \in worker[e].todo :
        \/ Releasable(t[1]) /\ release_address(t[1])
        \/ UNCHANGED awsVars
  BY DEF EipCleanupRelease
<1>3. CASE UNCHANGED awsVars
  BY <1>1, <1>3, LedgerStutters DEF awsVars
<1>4. CASE Releasable(t[1]) /\ release_address(t[1])
  <2>1. /\ t[1] \in allocated /\ owner[t[1]] = u
        /\ allocated' = allocated \ {t[1]} /\ owner' = owner
    BY <1>1, <1>4 DEF Releasable, release_address, AddressInv, WorkerAddressInv
  <2>2. u # None
    BY <1>1 DEF AddressInv, WorkerInv, CleaningUp
  <2>3. PICK f \in Eip : eip[f].uid = u /\ eip[f].finalizer
    BY <2>1 DEF AddressInv, NoOrphanAddress
  <2>4. f = e
    BY <2>2, <2>3 DEF AddressInv, UidsInv, Known
  <2>5. eip[e].phase = "deleting"
    BY <1>1, <2>3, <2>4 DEF AddressInv, WorkerInv, CleaningUp
  <2>6. u \in Uid /\ t[1] \in AllocId
    BY <2>1, <2>2 DEF CoreTypeOK, EipControllerTypeOK, ClusterTypeOK, Worker
  <2>7. life[u] = "closing"
    BY <2>2, <2>3, <2>4, <2>5, <2>6, LifeOfObject DEF life
  <2>8. UNCHANGED life
    BY <1>1 DEF life, LifeOf
  <2> HIDE DEF u
  <2>9. Ledger!Release(u, t[1])
    BY <2>1, <2>7, <2>8 DEF Ledger!Release, Ledger!AddressesOf, life
  <2> QED BY <2>6, <2>9 DEF Ledger!Next
<1> QED BY <1>2, <1>3, <1>4

\* An object that is removed leaves no address; its life is over.
LEMMA RetireSteps ==
  ASSUME CoreTypeOK, AddressInv, NEW e \in Eip, eip[e].phase # "absent",
         eip' = [eip EXCEPT ![e] = NoEip],
         eip[e].finalizer => eip[e].phase = "deleting",
         \A a \in allocated : owner[a] # eip[e].uid,
         UNCHANGED <<usedUid, owner, allocated>>
  PROVE  Ledger!Next
<1>1. PICK u \in Uid : u = eip[e].uid /\ u # None /\ u \in usedUid
  BY DEF AddressInv, PhasesInv, UidsInv, Known, CoreTypeOK, ClusterTypeOK
<1>2. NoEip.uid = None
  BY DEF NoEip
<1>3. eip'[e] = NoEip /\ \A f \in Eip : f # e => eip'[f] = eip[f] /\ eip[f].uid # u
  BY <1>1 DEF CoreTypeOK, ClusterTypeOK, AddressInv, UidsInv, Known
<1>4. life'[u] = "retired"
  BY <1>1, <1>2, <1>3 DEF life, LifeOf
<1>5. life' = [life EXCEPT ![u] = "retired"]
  <2>1. eip[e].uid \in {u, None} /\ eip'[e].uid \in {u, None} /\ usedUid' = usedUid
    BY <1>1, <1>2, <1>3
  <2>2. life' = [life EXCEPT ![u] = life'[u]]
    BY <1>3, <2>1, OneLifeChanges
  <2> QED BY <1>4, <2>2
<1>6. life[u] \in {"new", "closing"}
  BY <1>1, LifeOfObject DEF life
<1>7. Ledger!AddressesOf(u) = {}
  BY <1>1 DEF Ledger!AddressesOf
<1> QED BY <1>1, <1>5, <1>6, <1>7 DEF Ledger!Next, Ledger!Retire, Ledger!Become, life

\* The finalizer is taken off after the last address is released.
LEMMA RemoveFinalizerSteps ==
  ASSUME CoreTypeOK, AddressInv, NEW e \in Eip, EipRemoveFinalizer(e)
  PROVE  [Ledger!Next]_Ledger!vars
<1>1. UNCHANGED <<usedUid, owner, allocated>>
  BY DEF EipRemoveFinalizer, awsVars
<1>2. CASE eip[e].finalizer
  <2>1. eip[e].phase = "deleting" /\ eip[e].uid = worker[e].uid
    BY <1>2 DEF AddressInv, WorkerInv, CleaningUp, EipRemoveFinalizer
  <2>2. eip' = [eip EXCEPT ![e] = NoEip]
    BY <1>2, <2>1 DEF EipRemoveFinalizer
  <2>3. \A a \in allocated : owner[a] # eip[e].uid
    BY <2>1 DEF AddressInv, WorkerAddressInv, EipRemoveFinalizer,
                describe_addresses_with_tag_value
  <2> QED BY <1>1, <2>1, <2>2, <2>3, RetireSteps
<1>3. CASE ~eip[e].finalizer
  BY <1>1, <1>3, LedgerStutters DEF EipRemoveFinalizer
<1> QED BY <1>2, <1>3

\* A uid is born with its object.
LEMMA CreateSteps ==
  ASSUME CoreTypeOK, AddressInv, NEW e \in Eip, CreateEip(e)
  PROVE  Ledger!Next
<1>1. PICK u \in Uid :
        /\ u \notin usedUid
        /\ ~Exists(e)
        /\ eip' = [eip EXCEPT ![e] = [phase |-> "live", uid |-> u, finalizer |-> FALSE]]
        /\ usedUid' = usedUid \cup {u}
        /\ UNCHANGED <<owner, allocated>>
  BY DEF CreateEip, awsVars
<1> DEFINE obj == [phase |-> "live", uid |-> u, finalizer |-> FALSE]
<1>2. obj.uid = u /\ ~obj.finalizer
  OBVIOUS
<1>3. eip[e].uid = None
  BY <1>1 DEF AddressInv, PhasesInv, Exists, NoEip
<1>4. eip'[e] = obj /\ \A f \in Eip : f # e => eip'[f] = eip[f] /\ eip[f].uid # u
  BY <1>1, ClusterAssumption DEF CoreTypeOK, ClusterTypeOK, AddressInv, UidsInv, Known
<1> HIDE DEF obj
<1>5. life'[u] = "new"
  BY <1>1, <1>2, <1>4 DEF life, LifeOf
<1>6. life' = [life EXCEPT ![u] = "new"]
  <2>1. eip[e].uid \in {u, None} /\ eip'[e].uid \in {u, None} /\ usedUid' = usedUid \cup {u}
    BY <1>1, <1>2, <1>3, <1>4
  <2>2. life' = [life EXCEPT ![u] = life'[u]]
    BY <1>1, <1>4, <2>1, OneLifeChanges
  <2> QED BY <1>5, <2>2
<1>7. life[u] = "unborn"
  BY <1>1 DEF life, LifeOf
<1> QED BY <1>1, <1>6, <1>7 DEF Ledger!Next, Ledger!Create, Ledger!Become, life

\* A deletion marks a guarded object and removes any other.
LEMMA DeleteSteps ==
  ASSUME CoreTypeOK, AddressInv, NEW e \in Eip, DeleteEip(e)
  PROVE  Ledger!Next
<1> DEFINE obj == [eip[e] EXCEPT !.phase = "deleting"]
<1>1. /\ eip[e].phase = "live"
      /\ eip' = [eip EXCEPT ![e] = IF eip[e].finalizer THEN obj ELSE NoEip]
      /\ UNCHANGED <<usedUid, owner, allocated>>
  BY DEF DeleteEip, awsVars
<1>2. PICK u \in Uid : u = eip[e].uid /\ u # None /\ u \in usedUid
  BY <1>1 DEF AddressInv, PhasesInv, UidsInv, Known, CoreTypeOK, ClusterTypeOK
<1>3. \A f \in Eip : f # e => eip'[f] = eip[f] /\ eip[f].uid # u
  BY <1>1, <1>2 DEF CoreTypeOK, ClusterTypeOK, AddressInv, UidsInv, Known
<1>4. CASE eip[e].finalizer
  <2>1. obj.uid = u /\ obj.phase = "deleting" /\ obj.finalizer /\ eip'[e] = obj
    BY <1>1, <1>2, <1>4 DEF CoreTypeOK, ClusterTypeOK, EipMeta
  <2>2. life[u] = "guarded"
    BY <1>1, <1>2, <1>4, LifeOfObject DEF life
  <2> HIDE DEF obj
  <2>3. life'[u] = "closing"
    BY <1>1, <1>2, <1>3, <2>1 DEF life, LifeOf
  <2>4. life' = [life EXCEPT ![u] = "closing"]
    <3>1. eip[e].uid \in {u, None} /\ eip'[e].uid \in {u, None} /\ usedUid' = usedUid
      BY <1>1, <1>2, <2>1
    <3>2. life' = [life EXCEPT ![u] = life'[u]]
      BY <1>2, <1>3, <3>1, OneLifeChanges
    <3> QED BY <2>3, <3>2
  <2> QED BY <1>1, <1>2, <2>2, <2>4 DEF Ledger!Next, Ledger!Close, Ledger!Become, life
<1>5. CASE ~eip[e].finalizer
  <2>1. \A a \in allocated : owner[a] # u
    BY <1>2, <1>3, <1>5 DEF AddressInv, NoOrphanAddress
  <2> QED BY <1>1, <1>2, <1>5, <2>1, RetireSteps
<1> QED BY <1>4, <1>5

\* Every step of the reconciliation of an Eip is one of the ledger or none.
LEMMA EipControllerSteps ==
  ASSUME CoreTypeOK, AddressInv, NEW e \in Eip,
         EipStep(e) \/ EipFault(e) \/ EipResync(e)
  PROVE  [Ledger!Next]_Ledger!vars
<1>1. CASE EipWatch(e) \/ EipResync(e) \/ EipApply(e) \/ EipSetStatusCreated(e)
           \/ EipListResources(e) \/ EipDisassociate(e) \/ EipSetStatusDetached(e)
  <2>1. UNCHANGED <<eip, usedUid, owner, allocated>>
    BY <1>1 DEF EipWatch, EipResync, EipApply, EipSetStatusCreated, EipListResources,
                EipDisassociate, disassociate_eip, EipSetStatusDetached, eipVars, awsVars
  <2> QED BY <2>1, LedgerStutters
<1>2. CASE EipCleanup(e) \/ EipCleanupDisassociate(e) \/ EipFails(e)
           \/ \E done : EipRefresh(e, done)
  <2>1. UNCHANGED <<eip, usedUid, owner, allocated>>
    BY <1>2 DEF EipCleanup, EipCleanupDisassociate, disassociate_eip, EipFails,
                EipRefresh, eipVars, awsVars
  <2> QED BY <2>1, LedgerStutters
<1> QED BY <1>1, <1>2, GuardSteps, AllocateSteps, ReleaseSteps,
           RemoveFinalizerSteps
        DEF EipStep, EipStart, EipProgress, EipFault, EipRefreshFails

\* At first nothing was ever created or allocated.
LEMMA InitLedger == ASSUME ClusterInit PROVE Ledger!Init
<1>1. \A u \in Uid : LifeOf(u) = "unborn"
  BY DEF ClusterInit, LifeOf
<1> QED BY <1>1 DEF ClusterInit, Ledger!Init
=============================================================================
