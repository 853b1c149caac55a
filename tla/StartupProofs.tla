---------------------------- MODULE StartupProofs ---------------------------
(***************************************************************************)
(* Proofs about Startup, for any number of Eips, addresses and pods: its   *)
(* types, that startup releases only addresses of no Eip, that the pods of *)
(* the older operator are let go only after their addresses, and that only *)
(* an upgraded Eip leaves an address behind.                               *)
(***************************************************************************)
EXTENDS Startup, EipAddressesProofs

-----------------------------------------------------------------------------
(* Types.                                                                  *)

StartTypeOK ==
  /\ stage \in {"upgrade", "replace", "describe", "list", "release", "unfinalize",
                "run", "ended"}
  /\ old \subseteq Eip
  /\ todo \subseteq Eip
  /\ found \subseteq AllocId \X (AssocId \cup {None})
  /\ legacyAddr \subseteq LegacyPod
  /\ legacyPods \subseteq LegacyPod

\* The types hold at first.
LEMMA InitTypes == Init => TypeOK
<1> SUFFICES ASSUME Init PROVE CoreTypeOK /\ StartTypeOK
  BY DEF TypeOK, CoreTypeOK, StartTypeOK
<1>1. PICK there \in SUBSET DOMAIN OldEip :
        \E dying \in SUBSET there, paid \in SUBSET there :
        \E on \in SUBSET paid : Left(there, dying, paid, on)
  BY DEF Init
<1>a. PICK dying \in SUBSET there, paid \in SUBSET there :
        \E on \in SUBSET paid : Left(there, dying, paid, on)
  BY <1>1
<1>b. PICK on \in SUBSET paid : Left(there, dying, paid, on)
  BY <1>a
<1>2. \A e \in DOMAIN OldEip :
        /\ e \in Eip
        /\ OldEip[e].uid \in Uid
        /\ OldEip[e].alloc \in AllocId
        /\ OldEip[e].port \in Port
        /\ OldEip[e].assoc \in AssocId
  BY StartupAssumption
<1>3. \A e \in DOMAIN OldEip : StatusCreated(NoStatus, OldEip[e].alloc) \in EipStatus
  BY <1>2, StatusTypes, NoneTypes
<1>4. eip \in [Eip -> EipMeta]
  BY <1>b, <1>2, NoneTypes DEF EipMeta, Phase, Left
<1>5. status \in [Eip -> EipStatus]
  BY <1>b, <1>3, NoneTypes DEF Left
<1>6. owner \in [AllocId -> Uid \cup {None}]
  BY <1>b, <1>2 DEF Left
<1>7. attached \in [AllocId -> Attachment]
  BY <1>b, <1>2, NoneTypes DEF Attachment, Left
<1>8. /\ usedUid \subseteq Uid
      /\ allocated \subseteq AllocId
      /\ seen \in [Eip -> SUBSET Holder]
      /\ res \in [Resource -> ResourceObject]
      /\ resSynced \subseteq Resource
  BY <1>b, <1>2, NoneTypes DEF Holder, Left
<1>9. EipControllerTypeOK
  BY <1>b, NoneTypes DEF EipControllerInit, EipControllerTypeOK, Left
<1>10. StartTypeOK
  BY <1>b, <1>2 DEF StartTypeOK, Left
<1> QED BY <1>4, <1>5, <1>6, <1>7, <1>8, <1>9, <1>10 DEF CoreTypeOK, ClusterTypeOK

\* What startup does keeps the types.
LEMMA StartingTypes == TypeOK /\ Starting => TypeOK'
<1> SUFFICES ASSUME CoreTypeOK, StartTypeOK, Starting PROVE CoreTypeOK' /\ StartTypeOK'
  BY DEF TypeOK, CoreTypeOK, StartTypeOK
<1> USE DEF CoreTypeOK, StartTypeOK, ClusterTypeOK, EipControllerTypeOK,
            eipVars, resVars, awsVars, eipCtlVars
<1>a. \A a \in AllocId : attached[a].assoc \in AssocId \cup {None}
  BY DEF Attachment
<1>b. \A e \in Eip : [eip[e] EXCEPT !.finalizer = FALSE] \in EipMeta
  BY DEF EipMeta
<1>1. CASE ListOld
  BY <1>1 DEF ListOld, Continue, Holder
<1>2. ASSUME NEW e \in Eip, ReplaceOld(e) PROVE CoreTypeOK' /\ StartTypeOK'
  <2>1. CASE e \in seen[e]
    <3>1. eip' \in [Eip -> EipMeta] /\ status' \in [Eip -> EipStatus]
      BY <1>2, <1>b, <2>1, NoneTypes DEF ReplaceOld
    <3> QED BY <1>2, <2>1, <3>1 DEF ReplaceOld, Continue
  <2>2. CASE e \notin seen[e]
    BY <1>2, <2>2 DEF ReplaceOld, Fail, Continue
  <2> QED BY <2>1, <2>2
<1>3. CASE DescribeAddresses
  BY <1>3, <1>a DEF DescribeAddresses, Continue
<1>4. CASE ListEips
  BY <1>4 DEF ListEips, Fail, Continue
<1>5. CASE DisassociateOrphan
  <2>1. attached' \in [AllocId -> Attachment]
    BY <1>5, NoneTypes DEF DisassociateOrphan, disassociate_eip
  <2> QED BY <1>5, <2>1 DEF DisassociateOrphan, disassociate_eip
<1>6. CASE ReleaseOrphan
  BY <1>6 DEF ReleaseOrphan, release_address, Fail, Continue
<1>7. CASE ReleaseLegacy
  BY <1>7 DEF ReleaseLegacy
<1>8. CASE OrphansReleased
  BY <1>8 DEF OrphansReleased, Continue
<1>9. CASE RemoveLegacyFinalizer
  BY <1>9 DEF RemoveLegacyFinalizer
<1>10. CASE Spawn
  <2>1. EipControllerTypeOK'
    BY <1>10, RestartTypes DEF Spawn
  <2> QED BY <1>10, <2>1 DEF Spawn, Holder
<1>11. CASE StartAgain
  BY <1>11, NoneTypes DEF StartAgain, Begin
<1> QED BY <1>1, <1>2, <1>3, <1>4, <1>5, <1>6, <1>7, <1>8, <1>9, <1>10, <1>11 DEF Starting

\* Every step keeps the types.
LEMMA NextTypes == TypeOK /\ [Next]_vars => TypeOK'
<1> SUFFICES ASSUME CoreTypeOK, StartTypeOK, [Next]_vars PROVE CoreTypeOK' /\ StartTypeOK'
  BY DEF TypeOK, CoreTypeOK, StartTypeOK
<1>1. CASE Starting
  BY <1>1, StartingTypes DEF TypeOK, CoreTypeOK, StartTypeOK
<1>2. ASSUME NEW e \in Eip, Running(e) PROVE CoreTypeOK' /\ StartTypeOK'
  BY <1>2, EipControllerTypes DEF Running, StartTypeOK, startVars
<1>3. ASSUME NEW e \in Eip, ResendAllocate(e) PROVE CoreTypeOK' /\ StartTypeOK'
  <2> USE <1>3 DEF ResendAllocate
  <2>1. worker[e].uid \in Uid \cup {None}
    BY DEF CoreTypeOK, EipControllerTypeOK, Worker
  <2>2. (CHOOSE b \in UnusedAllocIds : TRUE) \in AllocId
    BY DEF UnusedAllocIds
  <2> QED BY <2>1, <2>2 DEF allocate_address, CoreTypeOK, StartTypeOK, ClusterTypeOK,
             EipControllerTypeOK, eipVars, resVars, eipCtlVars, startVars
<1>4. ASSUME NEW e \in Eip, UserCreates(e) PROVE CoreTypeOK' /\ StartTypeOK'
  BY <1>4, CreateEipTypes
  DEF UserCreates, CoreTypeOK, EipControllerTypeOK, eipCtlVars, StartTypeOK, startVars
<1>5. ASSUME NEW e \in Eip, UserDeletes(e) PROVE CoreTypeOK' /\ StartTypeOK'
  BY <1>5, DeleteEipTypes
  DEF UserDeletes, CoreTypeOK, EipControllerTypeOK, eipCtlVars, StartTypeOK
<1>6. CASE Restart
  BY <1>6, NoneTypes DEF Restart, Begin, CoreTypeOK, StartTypeOK, ClusterTypeOK,
     EipControllerTypeOK, eipVars, resVars, awsVars
<1>7. CASE UNCHANGED vars
  BY <1>7 DEF vars, CoreTypeOK, StartTypeOK, ClusterTypeOK, EipControllerTypeOK,
     eipVars, resVars, awsVars, eipCtlVars, startVars
<1> QED BY <1>1, <1>2, <1>3, <1>4, <1>5, <1>6, <1>7 DEF Next

\* The variables have their types, whatever happens (the whole of startup, the Eip
\* controller and the users).
THEOREM StartupTypeCorrect == Spec => []TypeOK
<1>1. Init => TypeOK
  BY InitTypes
<1>2. TypeOK /\ [Next]_vars => TypeOK'
  BY NextTypes
<1> QED BY <1>1, <1>2, PTL DEF Spec

-----------------------------------------------------------------------------
(* The pods of the older operator.                                         *)

LegacyInv ==
  /\ legacyAddr # {} => legacyPods = LegacyPod
  /\ stage = "unfinalize" => legacyAddr = {}

\* The addresses of the older operator go before the finalizers on its pods, also
\* when the process ends between the two (main.rs, cleanup_orphan_eips).
THEOREM LegacyAddressesFirst == Spec => []LegacyReleasedFirst
<1>1. Init => LegacyInv
  BY DEF Init, Left, LegacyInv
<1>2. TypeOK /\ LegacyInv /\ [Next]_vars => LegacyInv'
  <2> SUFFICES ASSUME LegacyInv, [Next]_vars PROVE LegacyInv'
    OBVIOUS
  <2> USE DEF LegacyInv
  <2>1. CASE Starting
    BY <2>1 DEF Starting, ListOld, ReplaceOld, DescribeAddresses, ListEips,
       DisassociateOrphan, ReleaseOrphan, ReleaseLegacy, OrphansReleased,
       RemoveLegacyFinalizer, Spawn, StartAgain, Begin, Fail, Continue
  <2>2. CASE \E e \in Eip : Running(e) \/ ResendAllocate(e) \/ UserCreates(e)
    BY <2>2 DEF Running, ResendAllocate, UserCreates, startVars
  <2>3. CASE \E e \in Eip : UserDeletes(e)
    BY <2>3 DEF UserDeletes
  <2>4. CASE Restart
    BY <2>4 DEF Restart, Begin
  <2>5. CASE UNCHANGED vars
    BY <2>5 DEF vars, startVars
  <2> QED BY <2>1, <2>2, <2>3, <2>4, <2>5 DEF Next
<1>3. TypeOK /\ LegacyInv => LegacyReleasedFirst
  BY DEF TypeOK, LegacyInv, LegacyReleasedFirst
<1> QED BY <1>1, <1>2, <1>3, StartupTypeCorrect, PTL DEF Spec

-----------------------------------------------------------------------------
(* The addresses of no Eip.                                                *)

\* A uid that is anywhere was given to an Eip, and an address has one.
GivenInv ==
  /\ \A a \in AllocId : owner[a] \in usedUid \cup {None}
  /\ \A a \in allocated : owner[a] # None
  /\ \A e \in Eip :
       /\ {eip[e].uid, cachedEip[e].uid, worker[e].uid} \subseteq usedUid \cup {None}
       /\ Exists(e) <=> eip[e].uid # None
       /\ cachedEip[e].phase # "absent" => cachedEip[e].uid # None
       /\ worker[e].pc = "allocate" => worker[e].uid # None

\* What is to be released has the uid of an Eip that was, and no Eip that is there
\* when it is released has it: a uid is not given twice.
FoundInv ==
  /\ \A t \in found : owner[t[1]] # None
  /\ stage = "release" => \A t \in found : \A e \in Eip : eip[e].uid # owner[t[1]]

\* The worker of e goes on, and no other.
LEMMA GotoWorkers ==
  ASSUME worker \in [Eip -> Worker], NEW e \in Eip, NEW w, Goto(e, w)
  PROVE  worker'[e] = w /\ \A f \in Eip \ {e} : worker'[f] = worker[f]
BY DEF Goto

ApplyPcs == {"allocate", "created", "list", "disassociate", "detach", "refresh"}

\* The calls of apply after the first take the worker on, or end the reconciliation.
LEMMA ApplyWorker ==
  ASSUME NEW e \in Eip, worker[e] \in Worker,
         \/ EipSetStatusCreated(e) \/ EipListResources(e) \/ EipDisassociate(e)
         \/ EipSetStatusDetached(e) \/ EipRefresh(e, worker[e].matched)
  PROVE  \E w : /\ Goto(e, w)
               /\ \/ w.pc = "idle" /\ w.uid = None
                  \/ w.pc \in ApplyPcs \ {"allocate"} /\ w.uid = worker[e].uid
<1> USE DEF ApplyPcs
<1>b. IdleWorker.uid = None /\ IdleWorker.pc = "idle"
  BY DEF IdleWorker
<1>1. CASE EipSetStatusCreated(e)
  <2> DEFINE w == [worker[e] EXCEPT !.pc = "list", !.alloc = None]
  <2>1. w.uid = worker[e].uid /\ w.pc = "list"
    BY DEF Worker
  <2>2. Goto(e, w) \/ Goto(e, IdleWorker)
    BY <1>1 DEF EipSetStatusCreated, EipEnd
  <2> HIDE DEF w
  <2> QED BY <2>1, <2>2, <1>b
<1>2. CASE EipListResources(e)
  <2> DEFINE listed == {r \in Resource : res[r].phase # "absent" /\ e \in res[r].matches}
             next == [worker[e] EXCEPT !.matched = listed]
  <2>1. PICK w : /\ Goto(e, w)
                 /\ w \in {[next EXCEPT !.pc = "refresh", !.copy = NoStatus], IdleWorker,
                           [next EXCEPT !.pc = "detach"],
                           [next EXCEPT !.pc = "disassociate"]}
    <3> HIDE DEF listed, next
    <3> QED BY <1>2 DEF EipListResources, listed, next
  <2>2. /\ next.uid = worker[e].uid
        /\ DOMAIN next = {"pc", "uid", "copy", "alloc", "matched", "todo"}
    BY DEF Worker
  <2>3. w = IdleWorker \/ (w.pc \in {"refresh", "detach", "disassociate"} /\ w.uid = next.uid)
    <3> HIDE DEF next
    <3> QED BY <2>1, <2>2
  <2> HIDE DEF next
  <2> QED BY <2>1, <2>2, <2>3, <1>b
<1>3. CASE EipDisassociate(e)
  BY <1>3 DEF EipDisassociate, Worker
<1>4. CASE EipSetStatusDetached(e)
  <2> DEFINE w == [worker[e] EXCEPT !.pc = "refresh", !.copy = NoStatus]
  <2>1. w.uid = worker[e].uid /\ w.pc = "refresh"
    BY DEF Worker
  <2>2. Goto(e, w) \/ Goto(e, IdleWorker)
    BY <1>4 DEF EipSetStatusDetached, EipEnd
  <2> HIDE DEF w
  <2> QED BY <2>1, <2>2, <1>b
<1>5. CASE EipRefresh(e, worker[e].matched)
  BY <1>5, <1>b DEF EipRefresh, EipEnd
<1> QED BY <1>1, <1>2, <1>3, <1>4, <1>5

\* A step of the Eip controller gives no uid to anything that has none.
LEMMA EipStepGiven ==
  ASSUME TypeOK, GivenInv, NEW e \in Eip, EipStep(e)
  PROVE  GivenInv' /\ \A a \in AllocId : owner[a] # None => owner'[a] = owner[a]
<1> USE DEF GivenInv, Exists
<1>a. /\ eip \in [Eip -> EipMeta] /\ cachedEip \in [Eip -> EipMeta]
      /\ worker \in [Eip -> Worker] /\ owner \in [AllocId -> Uid \cup {None}]
      /\ allocated \subseteq AllocId /\ eip[e] \in EipMeta /\ worker[e] \in Worker
  BY DEF TypeOK, ClusterTypeOK, EipControllerTypeOK
<1>b. IdleWorker.uid = None /\ IdleWorker.pc = "idle"
  BY DEF IdleWorker
<1>1. CASE EipWatch(e)
  BY <1>1, <1>a DEF EipWatch, awsVars
<1>2. CASE EipAddFinalizer(e)
  BY <1>2, <1>a DEF EipAddFinalizer, awsVars, EipMeta
<1>3. CASE EipApply(e) \/ EipCleanup(e)
  <2>1. \E w : Goto(e, w) /\ w.uid = cachedEip[e].uid
    <3>1. CASE EipApply(e)
      <4> DEFINE u == cachedEip[e].uid
                 addresses == describe_addresses_with_tag_value(u)
                 start == [IdleWorker EXCEPT !.uid = u, !.copy = cachedStatus[e]]
      <4>1. PICK w : /\ Goto(e, w)
                     /\ \/ w = [start EXCEPT !.pc = "allocate"]
                        \/ \E a \in addresses : w = [start EXCEPT !.pc = "created", !.alloc = a]
        <5> HIDE DEF addresses, start
        <5> QED BY <3>1 DEF EipApply, addresses, start
      <4>2. w.uid = u
        <5> HIDE DEF addresses
        <5> QED BY <4>1 DEF IdleWorker
      <4> QED BY <4>1, <4>2
    <3>2. CASE EipCleanup(e)
      <4> DEFINE todo1 == {<<a, attached[a].assoc>> :
                             a \in describe_addresses_with_tag_value(cachedEip[e].uid)}
                 w == [IdleWorker EXCEPT !.uid = cachedEip[e].uid, !.todo = todo1,
                         !.pc = IF todo1 = {} THEN "finalize" ELSE "release"]
      <4>1. Goto(e, w)
        BY <3>2 DEF EipCleanup
      <4>2. w.uid = cachedEip[e].uid
        <5> HIDE DEF todo1
        <5> QED BY DEF IdleWorker
      <4> HIDE DEF w
      <4> QED BY <4>1, <4>2
    <3> QED BY <1>3, <3>1, <3>2
  <2>2. cachedEip[e].uid # None
    BY <1>3 DEF EipApply, EipCleanup, EipReady
  <2>3. UNCHANGED <<eip, usedUid, owner, allocated, cachedEip>>
    BY <1>3 DEF EipApply, EipCleanup, awsVars, eipVars
  <2> QED BY <2>1, <2>2, <2>3, <1>a, GotoWorkers
<1>4. CASE EipAllocate(e)
  <2> DEFINE a == CHOOSE b \in UnusedAllocIds : TRUE
             w == [worker[e] EXCEPT !.pc = "created", !.alloc = a]
  <2>1. a \in AllocId /\ owner[a] = None
    BY <1>4 DEF EipAllocate, UnusedAllocIds
  <2>2. /\ allocated' = allocated \cup {a}
        /\ owner' = [owner EXCEPT ![a] = worker[e].uid]
        /\ worker[e].uid # None
        /\ Goto(e, w)
        /\ UNCHANGED <<eip, usedUid, cachedEip>>
    BY <1>4 DEF EipAllocate, allocate_address, eipVars
  <2>3. w.pc = "created" /\ w.uid = worker[e].uid
    BY <1>a DEF Worker
  <2> HIDE DEF a, w
  <2>4. /\ owner'[a] = worker[e].uid
        /\ \A b \in AllocId \ {a} : owner'[b] = owner[b]
    BY <2>1, <2>2, <1>a
  <2> QED BY <2>1, <2>2, <2>3, <2>4, <1>a, GotoWorkers
<1>5. CASE \/ EipSetStatusCreated(e) \/ EipListResources(e) \/ EipDisassociate(e)
           \/ EipSetStatusDetached(e) \/ EipRefresh(e, worker[e].matched)
           \/ EipCleanupDisassociate(e) \/ EipCleanupRelease(e)
  <2>1. \E w : Goto(e, w) /\ w.uid \in {worker[e].uid, None} /\ w.pc # "allocate"
    <3>1. CASE ~EipCleanupDisassociate(e) /\ ~EipCleanupRelease(e)
      <4>1. PICK w : /\ Goto(e, w)
                     /\ \/ w.pc = "idle" /\ w.uid = None
                        \/ w.pc \in ApplyPcs \ {"allocate"} /\ w.uid = worker[e].uid
        BY <1>5, <1>a, <3>1, ApplyWorker
      <4> QED BY <4>1 DEF ApplyPcs
    <3>2. CASE EipCleanupDisassociate(e)
      <4>1. PICK todo1 : Goto(e, [worker[e] EXCEPT !.todo = todo1])
        BY <3>2 DEF EipCleanupDisassociate
      <4> QED BY <3>2, <4>1, <1>a DEF EipCleanupDisassociate, Worker
    <3>3. CASE EipCleanupRelease(e)
      <4>1. \/ Goto(e, IdleWorker)
            \/ \E rest : Goto(e, [worker[e] EXCEPT !.todo = rest,
                          !.pc = IF rest = {} THEN "finalize" ELSE "release"])
        BY <3>3 DEF EipCleanupRelease, EipEnd
      <4>2. CASE Goto(e, IdleWorker)
        BY <4>2, <1>b
      <4>3. ASSUME NEW rest, Goto(e, [worker[e] EXCEPT !.todo = rest,
                                !.pc = IF rest = {} THEN "finalize" ELSE "release"])
            PROVE  \E w : Goto(e, w) /\ w.uid \in {worker[e].uid, None} /\ w.pc # "allocate"
        <5> DEFINE w == [worker[e] EXCEPT !.todo = rest,
                           !.pc = IF rest = {} THEN "finalize" ELSE "release"]
        <5>1. w.uid = worker[e].uid /\ w.pc # "allocate"
          BY <1>a DEF Worker
        <5>2. Goto(e, w)
          BY <4>3
        <5> HIDE DEF w
        <5> QED BY <5>1, <5>2
      <4> QED BY <4>1, <4>2, <4>3
    <3> QED BY <1>5, <3>1, <3>2, <3>3
  <2>2. UNCHANGED <<eip, usedUid, owner, cachedEip>> /\ allocated' \subseteq allocated
    BY <1>5 DEF EipSetStatusCreated, EipListResources, EipDisassociate, EipSetStatusDetached,
       EipRefresh, EipCleanupDisassociate, EipCleanupRelease, disassociate_eip,
       release_address, eipVars, awsVars
  <2> QED BY <2>1, <2>2, <1>a, GotoWorkers
<1>6. CASE EipRemoveFinalizer(e)
  BY <1>6, <1>a, <1>b DEF EipRemoveFinalizer, Goto, EipEnd, awsVars, EipMeta, NoEip
<1> QED BY <1>1, <1>2, <1>3, <1>4, <1>5, <1>6 DEF EipStep, EipStart, EipProgress

\* What startup does gives none either, and what it lists for release has no Eip.
LEMMA StartingFound ==
  ASSUME TypeOK, GivenInv, FoundInv, Starting
  PROVE  GivenInv' /\ FoundInv'
<1> USE DEF GivenInv, FoundInv, Exists
<1>a. /\ eip \in [Eip -> EipMeta] /\ worker \in [Eip -> Worker]
      /\ found \subseteq AllocId \X (AssocId \cup {None})
      /\ allocated \subseteq AllocId
  BY DEF TypeOK, ClusterTypeOK, EipControllerTypeOK
<1>b. IdleWorker.uid = None /\ IdleWorker.pc = "idle"
  BY DEF IdleWorker
<1>1. CASE ListOld
  BY <1>1 DEF ListOld, Continue, eipCtlVars, awsVars
<1>2. ASSUME NEW e \in Eip, ReplaceOld(e) PROVE GivenInv' /\ FoundInv'
  <2>1. \A f \in Eip : \/ eip'[f].phase = eip[f].phase /\ eip'[f].uid = eip[f].uid
                      \/ eip'[f] = NoEip
    BY <1>2, <1>a DEF ReplaceOld, EipMeta
  <2>2. UNCHANGED <<usedUid, owner, allocated, cachedEip, worker, found>> /\ stage' # "release"
    BY <1>2 DEF ReplaceOld, Fail, Continue, eipCtlVars, awsVars
  <2>3. NoEip.phase = "absent" /\ NoEip.uid = None
    BY DEF NoEip
  <2> QED BY <2>1, <2>2, <2>3
<1>3. CASE DescribeAddresses
  BY <1>3, <1>a DEF DescribeAddresses, Continue, eipCtlVars, awsVars, eipVars
<1>4. CASE ListEips
  BY <1>4, <1>a DEF ListEips, EipUids, Fail, Continue, eipCtlVars, awsVars, eipVars
<1>5. CASE DisassociateOrphan
  BY <1>5, <1>a DEF DisassociateOrphan, disassociate_eip, eipCtlVars, eipVars
<1>6. CASE ReleaseOrphan
  BY <1>6, <1>a DEF ReleaseOrphan, release_address, Fail, Continue, eipCtlVars, awsVars, eipVars
<1>7. CASE ReleaseLegacy \/ RemoveLegacyFinalizer
  BY <1>7 DEF ReleaseLegacy, RemoveLegacyFinalizer, eipCtlVars, awsVars, eipVars
<1>8. CASE OrphansReleased
  BY <1>8 DEF OrphansReleased, Continue, eipCtlVars, awsVars, eipVars
<1>9. CASE Spawn
  BY <1>9, <1>b DEF Spawn, EipControllerRestart, awsVars
<1>10. CASE StartAgain
  BY <1>10, <1>b DEF StartAgain, Begin, awsVars, eipVars
<1> QED BY <1>1, <1>2, <1>3, <1>4, <1>5, <1>6, <1>7, <1>8, <1>9, <1>10 DEF Starting

\* An Eip is created with a uid that nothing has.
LEMMA CreateGiven ==
  ASSUME TypeOK, GivenInv, FoundInv, NEW e \in Eip, UserCreates(e)
  PROVE  GivenInv' /\ FoundInv'
<1> DEFINE u == CHOOSE v \in Uid \ usedUid : TRUE
           made == [phase |-> "live", uid |-> u, finalizer |-> FALSE]
<1>1. u \in Uid /\ u \notin usedUid /\ u # None
  BY ClusterAssumption DEF UserCreates, CreateEip
<1>2. /\ eip' = [eip EXCEPT ![e] = made]
      /\ usedUid' = usedUid \cup {u}
      /\ UNCHANGED <<owner, allocated, cachedEip, worker, found, stage>>
  BY DEF UserCreates, CreateEip, awsVars, eipCtlVars, startVars
<1>3. made.phase = "live" /\ made.uid = u
  OBVIOUS
<1> HIDE DEF u, made
<1>4. eip'[e] = made /\ \A f \in Eip \ {e} : eip'[f] = eip[f]
  BY <1>2 DEF TypeOK, ClusterTypeOK
<1>5. \A t \in found : t[1] \in AllocId
  BY DEF TypeOK
<1> QED BY <1>1, <1>2, <1>3, <1>4, <1>5 DEF GivenInv, FoundInv, Exists

\* Every step keeps both.
LEMMA NextFound == TypeOK /\ GivenInv /\ FoundInv /\ [Next]_vars => GivenInv' /\ FoundInv'
<1> SUFFICES ASSUME TypeOK, GivenInv, FoundInv, [Next]_vars PROVE GivenInv' /\ FoundInv'
  OBVIOUS
<1>a. \A t \in found : t[1] \in AllocId
  BY DEF TypeOK
<1>1. CASE Starting
  BY <1>1, StartingFound
<1>2. ASSUME NEW e \in Eip, Running(e) PROVE GivenInv' /\ FoundInv'
  <2>1. GivenInv' /\ \A a \in AllocId : owner[a] # None => owner'[a] = owner[a]
    BY <1>2, EipStepGiven DEF Running
  <2>2. stage = "run" /\ UNCHANGED <<stage, found>>
    BY <1>2 DEF Running, startVars
  <2> QED BY <1>a, <2>1, <2>2 DEF FoundInv
<1>3. ASSUME NEW e \in Eip, ResendAllocate(e) PROVE GivenInv' /\ FoundInv'
  <2> DEFINE a == CHOOSE b \in UnusedAllocIds : TRUE
  <2>1. a \in AllocId /\ owner[a] = None
    BY <1>3 DEF ResendAllocate, UnusedAllocIds
  <2>2. /\ allocated' = allocated \cup {a}
        /\ owner' = [owner EXCEPT ![a] = worker[e].uid]
        /\ worker[e].uid # None
        /\ stage # "release"
        /\ UNCHANGED <<eip, usedUid, cachedEip, worker, stage, found>>
    BY <1>3 DEF ResendAllocate, allocate_address, GivenInv, eipVars, eipCtlVars, startVars
  <2> HIDE DEF a
  <2>3. owner'[a] = worker[e].uid /\ \A b \in AllocId \ {a} : owner'[b] = owner[b]
    BY <2>1, <2>2 DEF TypeOK, ClusterTypeOK
  <2>4. allocated \subseteq AllocId
    BY DEF TypeOK, ClusterTypeOK
  <2> QED BY <1>a, <2>1, <2>2, <2>3, <2>4 DEF GivenInv, FoundInv, Exists
<1>4. ASSUME NEW e \in Eip, UserCreates(e) PROVE GivenInv' /\ FoundInv'
  BY <1>4, CreateGiven
<1>5. ASSUME NEW e \in Eip, UserDeletes(e) PROVE GivenInv' /\ FoundInv'
  <2>1. /\ \A f \in Eip \ {e} : eip'[f] = eip[f]
        /\ \/ eip'[e].phase = "deleting" /\ eip'[e].uid = eip[e].uid
           \/ eip'[e] = NoEip
        /\ eip[e].phase = "live"
    BY <1>5 DEF UserDeletes, DeleteEip, TypeOK, ClusterTypeOK, EipMeta
  <2>2. UNCHANGED <<usedUid, owner, allocated, cachedEip, worker, found, stage>>
    BY <1>5 DEF UserDeletes, DeleteEip, awsVars, eipCtlVars
  <2>3. NoEip.phase = "absent" /\ NoEip.uid = None
    BY DEF NoEip
  <2> QED BY <2>1, <2>2, <2>3 DEF GivenInv, FoundInv, Exists
<1>6. CASE Restart
  <2>1. IdleWorker.uid = None /\ IdleWorker.pc = "idle"
    BY DEF IdleWorker
  <2> QED BY <1>6, <2>1 DEF Restart, Begin, eipVars, awsVars, GivenInv, FoundInv, Exists
<1>7. CASE UNCHANGED vars
  BY <1>7 DEF vars, eipVars, awsVars, eipCtlVars, startVars, GivenInv, FoundInv, Exists
<1> QED BY <1>1, <1>2, <1>3, <1>4, <1>5, <1>6, <1>7 DEF Next

\* Both hold at first.
LEMMA InitFound == Init => GivenInv /\ FoundInv
<1> SUFFICES ASSUME NEW there \in SUBSET DOMAIN OldEip,
                    NEW dying \in SUBSET there, NEW paid \in SUBSET there,
                    NEW on \in SUBSET paid, Left(there, dying, paid, on)
             PROVE  GivenInv /\ FoundInv
  BY DEF Init
<1>1. \A e \in there : e \in Eip /\ OldEip[e].uid \in Uid /\ OldEip[e].uid # None
  BY StartupAssumption, ClusterAssumption
<1>2. \A a \in AllocId :
        IF \E e \in paid : OldEip[e].alloc = a
          THEN \E e \in paid : owner[a] = OldEip[e].uid
          ELSE owner[a] = None
  BY DEF Left
<1>3. \A e \in paid : OldEip[e].alloc \in AllocId
  BY StartupAssumption
<1>4. /\ \A a \in AllocId : owner[a] \in usedUid \cup {None}
      /\ \A a \in allocated : owner[a] # None
  <2>1. usedUid = {OldEip[e].uid : e \in there} /\ allocated = {OldEip[e].alloc : e \in paid}
    BY DEF Left
  <2>2. \A e \in paid : OldEip[e].uid \in usedUid /\ OldEip[e].uid # None
    BY <1>1, <2>1
  <2> QED BY <1>2, <1>3, <2>1, <2>2
<1>5. /\ NoEip.phase = "absent" /\ NoEip.uid = None
      /\ IdleWorker.uid = None /\ IdleWorker.pc = "idle"
  BY DEF NoEip, IdleWorker
<1>6. \A e \in Eip :
        /\ eip[e].uid \in usedUid \cup {None}
        /\ Exists(e) <=> eip[e].uid # None
        /\ cachedEip[e] = NoEip
        /\ worker[e] = IdleWorker
  BY <1>1, <1>5 DEF Left, EipControllerInit, Exists
<1>7. FoundInv
  BY DEF FoundInv, Left
<1> QED BY <1>4, <1>5, <1>6, <1>7 DEF GivenInv

\* Startup releases no address that an Eip has: the list of Eips is read after the
\* addresses, and an Eip created since has a uid of its own (main.rs,
\* cleanup_orphan_eips).
THEOREM OnlyOrphansReleased == Spec => ReleasesOnlyOrphans
<1> DEFINE Inv == TypeOK /\ GivenInv /\ FoundInv
<1>1. Init => Inv
  BY InitTypes, InitFound
<1>2. Inv /\ [Next]_vars => Inv'
  BY NextTypes, NextFound
<1>3. Inv /\ [Next]_vars =>
        [\A a \in allocated \ allocated' : stage # "run" => Orphan(a)]_vars
  <2> SUFFICES ASSUME Inv, [Next]_vars, NEW a \in allocated \ allocated', stage # "run"
               PROVE  Orphan(a)
    OBVIOUS
  <2>1. ~UNCHANGED awsVars /\ ~UNCHANGED vars
    BY DEF awsVars, vars
  <2>2. ReleaseOrphan
    BY <2>1 DEF Next, Starting, ListOld, ReplaceOld, DescribeAddresses, ListEips,
       DisassociateOrphan, disassociate_eip, ReleaseLegacy, OrphansReleased,
       RemoveLegacyFinalizer, Spawn, StartAgain, Begin, Running, ResendAllocate,
       allocate_address, UserCreates, CreateEip, UserDeletes, DeleteEip, Restart
  <2>3. PICK t \in found : a = t[1]
    BY <2>1, <2>2 DEF ReleaseOrphan, release_address
  <2> QED BY <2>2, <2>3 DEF ReleaseOrphan, FoundInv, Orphan
<1> QED BY <1>1, <1>2, <1>3, PTL DEF Spec, ReleasesOnlyOrphans

-----------------------------------------------------------------------------
(* Who can leave an address behind.                                        *)

\* What guards addresses and what is known of uids stays; a worker that moves on
\* has what its cleanup, if it is one, still has to release.
LEMMA WorkerGoes ==
  ASSUME TypeOK, OrphanInv, GivenInv', stage = "run", NEW e \in Eip, NEW w, Goto(e, w),
         UNCHANGED <<stage, old, todo, eip, usedUid, owner, cachedEip>>,
         allocated' \subseteq allocated,
         \A f \in Eip : status'[f] = status[f] \/ Exists(f),
         \/ w.pc = "idle" /\ w.uid = None
         \/ w.pc \in ApplyPcs /\ Applying(e) /\ w.uid = worker[e].uid
         \/ /\ w.pc \in ApplyPcs /\ w.uid = cachedEip[e].uid
            /\ cachedEip[e].phase = "live" /\ cachedEip[e].finalizer
         \/ /\ w.pc \in {"release", "finalize"}
            /\ \/ CleaningUp(e) /\ w.uid = worker[e].uid
               \/ cachedEip[e].phase = "deleting" /\ w.uid = cachedEip[e].uid,
         w.pc = "finalize" => {a \in allocated' : owner[a] = w.uid} = {},
         w.pc = "release" => {a \in allocated' : owner[a] = w.uid} \subseteq {t[1] : t \in w.todo}
  PROVE  OrphanInv'
<1> USE DEF OrphanInv
<1>1. worker'[e] = w /\ \A f \in Eip : f # e => worker'[f] = worker[f]
  BY DEF Goto, TypeOK, EipControllerTypeOK
<1>2. CacheInv
  BY DEF RunInv
<1>3. w.uid \in Known(e) \cup {None}
  BY DEF Known
<1>4. UidsInv'
  BY <1>1, <1>3, UidsKept DEF Known
<1>5. PhasesInv'
  BY DEF PhasesInv, Exists
<1>6. CacheInv'
  BY <1>2 DEF CacheInv
<1>7. WorkerInv'
  <2>1. Applying(e)' => eip[e].uid = w.uid /\ eip[e].finalizer /\ w.uid # None
    BY <1>1, <1>2 DEF Applying, ApplyPcs, WorkerInv, CacheInv, PhasesInv
  <2>2. CleaningUp(e)' =>
          /\ w.uid # None
          /\ ~(cachedEip[e].phase = "live" /\ cachedEip[e].finalizer)
          /\ IF eip[e].uid = w.uid THEN eip[e].phase = "deleting" ELSE ~eip[e].finalizer
    BY <1>1, <1>2 DEF CleaningUp, ApplyPcs, WorkerInv, CacheInv, PhasesInv
  <2> QED BY <1>1, <2>1, <2>2 DEF WorkerInv, Applying, CleaningUp
<1>8. OldInv'
  BY DEF OldInv
<1>9. RunInv'
  BY <1>6 DEF RunInv
<1>10. CleanupInv'
  BY <1>1 DEF CleanupInv, describe_addresses_with_tag_value
<1>11. GuardInv'
  BY DEF GuardInv, WasOld
<1> QED BY <1>4, <1>5, <1>7, <1>8, <1>9, <1>10, <1>11

\* The steps of a reconciliation that leave objects and the tags of addresses alone.
LEMMA ReconcileOrphans ==
  ASSUME TypeOK, OrphanInv, GivenInv', stage = "run", NEW e \in Eip, UNCHANGED startVars,
         \/ EipApply(e) \/ EipCleanup(e)
         \/ EipSetStatusCreated(e) \/ EipListResources(e) \/ EipDisassociate(e)
         \/ EipSetStatusDetached(e) \/ EipRefresh(e, worker[e].matched)
         \/ EipCleanupDisassociate(e) \/ EipCleanupRelease(e)
  PROVE  OrphanInv'
<1> USE DEF startVars
<1>a. /\ worker[e] \in Worker /\ cachedEip[e] \in EipMeta
      /\ status \in [Eip -> EipStatus]
  BY DEF TypeOK, EipControllerTypeOK, ClusterTypeOK
<1>b. IdleWorker.uid = None /\ IdleWorker.pc = "idle"
  BY DEF IdleWorker
<1>1. /\ UNCHANGED <<eip, usedUid, owner, cachedEip>>
      /\ allocated' \subseteq allocated
  BY DEF EipApply, EipCleanup, EipSetStatusCreated, EipListResources, EipDisassociate,
     EipSetStatusDetached, EipRefresh, EipCleanupDisassociate, EipCleanupRelease,
     disassociate_eip, release_address, eipVars, awsVars
<1>2. \A f \in Eip : status'[f] = status[f] \/ Exists(f)
  <2>1. CASE EipSetStatusDetached(e)
    <3>1. Exists(e)
      BY <2>1, GuardedExists DEF EipSetStatusDetached, OrphanInv, WorkerInv, Applying
    <3> QED BY <2>1, <3>1, <1>a DEF EipSetStatusDetached, Store
  <2>2. CASE EipSetStatusCreated(e)
    BY <2>2, <1>a DEF EipSetStatusCreated, Store
  <2>3. CASE ~EipSetStatusDetached(e) /\ ~EipSetStatusCreated(e)
    BY <2>3 DEF EipApply, EipCleanup, EipListResources, EipDisassociate, EipRefresh,
       EipCleanupDisassociate, EipCleanupRelease, eipVars
  <2> QED BY <2>1, <2>2, <2>3
<1>3. CASE EipApply(e)
  <2> DEFINE u == cachedEip[e].uid
             addresses == describe_addresses_with_tag_value(u)
             start == [IdleWorker EXCEPT !.uid = u, !.copy = cachedStatus[e]]
  <2>1. PICK w : /\ Goto(e, w)
                 /\ \/ w = [start EXCEPT !.pc = "allocate"]
                    \/ \E a \in addresses : w = [start EXCEPT !.pc = "created", !.alloc = a]
    <3> HIDE DEF addresses, start
    <3> QED BY <1>3 DEF EipApply, addresses, start
  <2>2. w.uid = u /\ w.pc \in {"allocate", "created"}
    <3> HIDE DEF addresses
    <3> QED BY <2>1 DEF IdleWorker
  <2>3. cachedEip[e].phase = "live" /\ cachedEip[e].finalizer
    BY <1>3 DEF EipApply, EipReady
  <2> QED BY <1>1, <1>2, <2>1, <2>2, <2>3, WorkerGoes DEF ApplyPcs
<1>4. CASE EipCleanup(e)
  <2> DEFINE u == cachedEip[e].uid
             mine == describe_addresses_with_tag_value(u)
             todo1 == {<<a, attached[a].assoc>> : a \in mine}
             w == [IdleWorker EXCEPT !.uid = u, !.todo = todo1,
                     !.pc = IF todo1 = {} THEN "finalize" ELSE "release"]
  <2>1. Goto(e, w) /\ allocated' = allocated /\ cachedEip[e].phase = "deleting"
    BY <1>4 DEF EipCleanup, EipReady, awsVars
  <2>2. /\ w.uid = u /\ w.todo = todo1
        /\ w.pc = IF todo1 = {} THEN "finalize" ELSE "release"
    <3> HIDE DEF u, todo1
    <3> QED BY DEF IdleWorker
  <2>3. mine \subseteq {t[1] : t \in todo1}
    <3>1. \A a \in mine : <<a, attached[a].assoc>> \in todo1 /\ <<a, attached[a].assoc>>[1] = a
      OBVIOUS
    <3> QED BY <3>1
  <2>4. todo1 = {} => mine = {}
    BY <2>3
  <2>5. mine = {a \in allocated' : owner[a] = u}
    BY <2>1 DEF describe_addresses_with_tag_value
  <2> HIDE DEF w, mine, todo1
  <2> QED BY <1>1, <1>2, <2>1, <2>2, <2>3, <2>4, <2>5, WorkerGoes
<1>5. CASE EipSetStatusCreated(e) \/ EipListResources(e) \/ EipDisassociate(e)
           \/ EipSetStatusDetached(e) \/ EipRefresh(e, worker[e].matched)
  <2>1. Applying(e)
    BY <1>5 DEF Applying, EipSetStatusCreated, EipListResources, EipDisassociate,
       EipSetStatusDetached, EipRefresh
  <2>2. PICK w : /\ Goto(e, w)
                 /\ \/ w.pc = "idle" /\ w.uid = None
                    \/ w.pc \in ApplyPcs \ {"allocate"} /\ w.uid = worker[e].uid
    BY <1>5, <1>a, ApplyWorker
  <2> QED BY <1>1, <1>2, <2>1, <2>2, WorkerGoes DEF ApplyPcs
<1>6. CASE EipCleanupDisassociate(e)
  <2>1. PICK t \in worker[e].todo :
          Goto(e, [worker[e] EXCEPT !.todo = (@ \ {t}) \cup {<<t[1], None>>}])
    BY <1>6 DEF EipCleanupDisassociate
  <2> DEFINE todo1 == (worker[e].todo \ {t}) \cup {<<t[1], None>>}
             w == [worker[e] EXCEPT !.todo = todo1]
  <2>2. w.pc = "release" /\ w.uid = worker[e].uid /\ w.todo = todo1
    <3> HIDE DEF todo1
    <3> QED BY <1>6, <1>a DEF EipCleanupDisassociate, Worker
  <2>3. {s[1] : s \in worker[e].todo} \subseteq {s[1] : s \in todo1}
    <3>1. <<t[1], None>>[1] = t[1] /\ <<t[1], None>> \in todo1
      OBVIOUS
    <3>2. \A s \in worker[e].todo : s # t => s \in todo1
      OBVIOUS
    <3> HIDE DEF todo1
    <3> QED BY <3>1, <3>2
  <2>4. CleaningUp(e)
    BY <1>6 DEF CleaningUp, EipCleanupDisassociate
  <2>5. {a \in allocated' : owner[a] = worker[e].uid} \subseteq {s[1] : s \in worker[e].todo}
    BY <1>1, <1>6 DEF EipCleanupDisassociate, OrphanInv, CleanupInv,
       describe_addresses_with_tag_value
  <2>6. Goto(e, w)
    BY <2>1
  <2> HIDE DEF w, todo1
  <2> QED BY <1>1, <1>2, <2>2, <2>3, <2>4, <2>5, <2>6, WorkerGoes
<1>7. CASE EipCleanupRelease(e)
  <2> DEFINE rest(t) == worker[e].todo \ {t}
             w(t) == [worker[e] EXCEPT !.todo = rest(t),
                        !.pc = IF rest(t) = {} THEN "finalize" ELSE "release"]
  <2>1. PICK t \in worker[e].todo :
          \/ release_address(t[1]) /\ Goto(e, w(t))
          \/ Goto(e, IdleWorker)
    BY <1>7 DEF EipCleanupRelease, EipEnd
  <2>2. CASE Goto(e, IdleWorker)
    BY <1>1, <1>2, <1>b, <2>2, WorkerGoes
  <2>3. CASE release_address(t[1]) /\ Goto(e, w(t))
    <3>1. /\ w(t).uid = worker[e].uid /\ w(t).todo = rest(t)
          /\ w(t).pc = IF rest(t) = {} THEN "finalize" ELSE "release"
      <4> HIDE DEF rest
      <4> QED BY <1>a DEF Worker
    <3>2. CleaningUp(e)
      BY <1>7 DEF CleaningUp, EipCleanupRelease
    <3>3. {a \in allocated' : owner[a] = worker[e].uid} \subseteq {s[1] : s \in rest(t)}
      <4>1. describe_addresses_with_tag_value(worker[e].uid) \subseteq {s[1] : s \in worker[e].todo}
        BY <1>7 DEF EipCleanupRelease, OrphanInv, CleanupInv
      <4>2. allocated' = allocated \ {t[1]}
        BY <2>3 DEF release_address
      <4> QED BY <4>1, <4>2 DEF describe_addresses_with_tag_value
    <3>4. rest(t) = {} => {a \in allocated' : owner[a] = worker[e].uid} = {}
      BY <3>3
    <3> DEFINE v == w(t)
    <3> HIDE DEF w, rest
    <3>5. /\ Goto(e, v) /\ v.uid = worker[e].uid /\ v.todo = rest(t)
          /\ v.pc = IF rest(t) = {} THEN "finalize" ELSE "release"
      BY <2>3, <3>1
    <3> HIDE DEF v
    <3> QED BY <1>1, <1>2, <3>2, <3>3, <3>4, <3>5, WorkerGoes
  <2> QED BY <2>1, <2>2, <2>3
<1> QED BY <1>3, <1>4, <1>5, <1>6, <1>7

\* The watch brings the stored object to the cache.
LEMMA WatchOrphans ==
  ASSUME TypeOK, OrphanInv, GivenInv', stage = "run", NEW e \in Eip, UNCHANGED startVars,
         EipWatch(e)
  PROVE  OrphanInv'
<1> USE DEF OrphanInv, EipWatch, TypeOK, ClusterTypeOK, EipControllerTypeOK, startVars, awsVars
<1>1. UidsInv'
  <2>1. \A f \in Eip : Known(f)' \subseteq Known(f)
    BY DEF Known
  <2> QED BY <2>1, UidsKept
<1>2. PhasesInv'
  BY DEF PhasesInv
<1>3. CacheInv' /\ WorkerInv'
  BY DEF RunInv, CacheInv, WorkerInv, Applying, CleaningUp
<1>4. OldInv' /\ RunInv' /\ CleanupInv' /\ GuardInv'
  BY <1>3 DEF OldInv, RunInv, CleanupInv, GuardInv, WasOld, describe_addresses_with_tag_value
<1> QED BY <1>1, <1>2, <1>3, <1>4

\* The finalizer guards one Eip more.
LEMMA AddFinalizerOrphans ==
  ASSUME TypeOK, OrphanInv, stage = "run", NEW e \in Eip, UNCHANGED startVars,
         EipAddFinalizer(e)
  PROVE  OrphanInv'
<1> USE DEF OrphanInv, EipAddFinalizer, EipReady, TypeOK, ClusterTypeOK, EipControllerTypeOK,
            startVars, awsVars
<1>1. \A f \in Eip : /\ eip'[f].uid = eip[f].uid
                     /\ eip'[f].phase = eip[f].phase
                     /\ eip'[f].finalizer = (f = e \/ eip[f].finalizer)
  BY DEF EipMeta
<1>2. UidsInv'
  BY <1>1, UidsKept DEF Known
<1>3. PhasesInv'
  BY <1>1 DEF PhasesInv
<1>4. CacheInv' /\ WorkerInv'
  BY <1>1 DEF RunInv, CacheInv, WorkerInv, Applying, CleaningUp
<1>5. OldInv'
  BY <1>1 DEF OldInv
<1>6. RunInv' /\ CleanupInv'
  BY <1>4 DEF RunInv, CleanupInv, describe_addresses_with_tag_value
<1>7. GuardInv'
  BY <1>1 DEF GuardInv, WasOld
<1> QED BY <1>2, <1>3, <1>4, <1>5, <1>6, <1>7

\* An address is allocated for an Eip that is guarded, by the worker of e.
LEMMA AllocateOrphans ==
  ASSUME TypeOK, OrphanInv, GivenInv', stage = "run", NEW e \in Eip, UNCHANGED startVars,
         worker[e].pc = "allocate", NEW a \in AllocId, owner[a] = None,
         allocated' = allocated \cup {a}, owner' = [owner EXCEPT ![a] = worker[e].uid],
         UNCHANGED <<eip, status, usedUid, cachedEip>>,
         \/ UNCHANGED worker
         \/ \E w : Goto(e, w) /\ w.uid = worker[e].uid /\ w.pc = "created"
  PROVE  OrphanInv'
<1> USE DEF OrphanInv, startVars
<1>1. /\ \A f \in Eip : worker'[f].uid = worker[f].uid
      /\ \A f \in Eip : f # e => worker'[f] = worker[f]
      /\ worker'[e].pc \in {"allocate", "created"}
  BY GotoWorkers DEF TypeOK, EipControllerTypeOK
<1>2. /\ owner'[a] = worker[e].uid
      /\ \A b \in AllocId : b # a => owner'[b] = owner[b]
      /\ allocated \subseteq AllocId
  BY DEF TypeOK, ClusterTypeOK
<1>3. worker[e].uid # None /\ eip[e].uid = worker[e].uid /\ eip[e].finalizer
  BY DEF WorkerInv, Applying
<1>4. UidsInv'
  <2>1. \A f \in Eip : Known(f)' = Known(f)
    BY <1>1 DEF Known
  <2>2. \A b \in AllocId : owner'[b] # None => owner'[b] \in usedUid
    BY DEF GivenInv
  <2> QED BY <2>1, <2>2 DEF UidsInv
<1>5. PhasesInv'
  BY DEF PhasesInv
<1>6. CacheInv' /\ RunInv'
  BY DEF RunInv, CacheInv
<1>7. WorkerInv'
  BY <1>1, <1>3 DEF WorkerInv, Applying, CleaningUp
<1>8. OldInv'
  BY DEF OldInv
<1>9. CleanupInv'
  <2>1. ASSUME NEW f \in Eip, f # e, CleaningUp(f)
        PROVE  {b \in allocated' : owner'[b] = worker'[f].uid}
                 \subseteq describe_addresses_with_tag_value(worker[f].uid)
    <3>1. worker[f].uid # worker[e].uid
      BY <1>3, <2>1 DEF UidsInv, Known
    <3> QED BY <1>1, <1>2, <3>1 DEF describe_addresses_with_tag_value
  <2> QED BY <1>1, <2>1 DEF CleanupInv, CleaningUp, describe_addresses_with_tag_value
<1>10. GuardInv'
  BY <1>2, <1>3 DEF GuardInv, WasOld
<1> QED BY <1>4, <1>5, <1>6, <1>7, <1>8, <1>9, <1>10

\* The object of the name e is taken off, or marked as deleted: if it guarded the
\* address of an Eip that is not old, it still does.
LEMMA DeletionOrphans ==
  ASSUME TypeOK, OrphanInv, NEW e \in Eip, NEW obj, Exists(e),
         eip' = [eip EXCEPT ![e] = obj],
         status' = [status EXCEPT ![e] = IF obj = NoEip THEN NoStatus ELSE status[e]],
         \/ obj = NoEip
         \/ obj = [eip[e] EXCEPT !.phase = "deleting"] /\ eip[e].finalizer,
         obj = NoEip /\ eip[e].finalizer =>
           \A a \in allocated : owner[a] = eip[e].uid => WasOld(a),
         worker' = worker \/ Goto(e, IdleWorker),
         worker' = worker /\ obj = NoEip => ~Applying(e),
         stage = "run" /\ obj = NoEip => ~(cachedEip[e].phase = "live" /\ cachedEip[e].finalizer),
         UNCHANGED <<usedUid, owner, allocated, cachedEip, stage, todo>>,
         old' = old \ (IF obj = NoEip THEN {e} ELSE {}),
         seen' = [seen EXCEPT ![e] = {}]
  PROVE  OrphanInv'
<1> USE DEF OrphanInv
<1>1. /\ eip \in [Eip -> EipMeta] /\ status \in [Eip -> EipStatus]
      /\ seen \in [Eip -> SUBSET Holder] /\ worker \in [Eip -> Worker]
  BY DEF TypeOK, ClusterTypeOK, EipControllerTypeOK
<1>2. /\ obj.phase # "live"
      /\ obj.phase = "absent" => obj = NoEip /\ obj.uid = None /\ ~obj.finalizer
      /\ obj.phase # "absent" => /\ obj.phase = "deleting" /\ obj.uid = eip[e].uid
                                 /\ obj.finalizer /\ eip[e].finalizer
  BY <1>1 DEF NoEip, EipMeta
<1>3. /\ eip'[e] = obj /\ seen'[e] = {}
      /\ status'[e] = IF obj = NoEip THEN NoStatus ELSE status[e]
      /\ \A f \in Eip : f # e => /\ eip'[f] = eip[f] /\ status'[f] = status[f]
                                 /\ seen'[f] = seen[f] /\ worker'[f] = worker[f]
  BY <1>1 DEF Goto
<1>4. \/ worker'[e] = worker[e] /\ (obj = NoEip => ~Applying(e))
      \/ worker'[e] = IdleWorker
  BY <1>1 DEF Goto
<1>b. IdleWorker.pc = "idle" /\ IdleWorker.uid = None
  BY DEF IdleWorker
<1>5. UidsInv'
  BY <1>2, <1>3, <1>4, <1>b, UidsKept DEF Known
<1>6. PhasesInv'
  <2>1. obj = NoEip => obj.phase = "absent"
    BY DEF NoEip
  <2> QED BY <1>2, <1>3, <2>1 DEF PhasesInv, Exists
<1>7. RunInv'
  <2>1. stage = "run" => CacheInv'
    BY <1>2, <1>3 DEF RunInv, CacheInv, PhasesInv
  <2> QED BY <1>3, <1>4, <2>1 DEF RunInv
<1>8. WorkerInv'
  BY <1>2, <1>3, <1>4, <1>b DEF WorkerInv, Applying, CleaningUp
<1>9. CleanupInv'
  BY <1>3, <1>4, <1>b DEF CleanupInv, describe_addresses_with_tag_value
<1>10. OldInv'
  <2>1. obj # NoEip => obj.uid = eip[e].uid
    BY <1>1 DEF EipMeta
  <2> QED BY <1>3, <2>1 DEF OldInv
<1>11. GuardInv'
  BY <1>2, <1>3 DEF GuardInv, WasOld
<1> QED BY <1>5, <1>6, <1>7, <1>8, <1>9, <1>10, <1>11

\* The finalizer is taken off an Eip without addresses.
LEMMA RemoveFinalizerOrphans ==
  ASSUME TypeOK, OrphanInv, GivenInv', stage = "run", NEW e \in Eip, UNCHANGED startVars,
         EipRemoveFinalizer(e)
  PROVE  OrphanInv'
<1> USE DEF OrphanInv, startVars
<1>1. /\ CleaningUp(e) /\ ~Applying(e) /\ worker[e].pc = "finalize"
      /\ UNCHANGED <<usedUid, owner, allocated, cachedEip>>
      /\ Goto(e, IdleWorker)
  BY DEF EipRemoveFinalizer, CleaningUp, Applying, EipEnd, awsVars
<1>2. CASE eip[e].finalizer
  <2>1. eip[e].phase = "deleting" /\ eip[e].uid = worker[e].uid
    BY <1>1, <1>2 DEF WorkerInv
  <2>2. /\ eip' = [eip EXCEPT ![e] = NoEip]
        /\ status' = [status EXCEPT ![e] = NoStatus]
        /\ seen' = [seen EXCEPT ![e] = {}]
    BY <1>2, <2>1 DEF EipRemoveFinalizer
  <2>3. \A a \in allocated : owner[a] # eip[e].uid
    BY <1>1, <2>1 DEF CleanupInv, describe_addresses_with_tag_value
  <2>4. ~(cachedEip[e].phase = "live" /\ cachedEip[e].finalizer)
    BY <1>1 DEF WorkerInv
  <2>5. old' = old \ {e}
    BY DEF OldInv
  <2>6. Exists(e)
    BY <2>1 DEF Exists
  <2> QED BY <1>1, <2>1, <2>2, <2>3, <2>4, <2>5, <2>6, DeletionOrphans
<1>3. CASE ~eip[e].finalizer
  <2>1. UNCHANGED <<eip, status>>
    BY <1>3 DEF EipRemoveFinalizer
  <2>2. IdleWorker.pc = "idle" /\ IdleWorker.uid = None
    BY DEF IdleWorker
  <2> QED BY <1>1, <2>1, <2>2, WorkerGoes
<1> QED BY <1>2, <1>3

\* An Eip is created, with a uid that is nowhere.
LEMMA CreateOrphans ==
  ASSUME TypeOK, OrphanInv, NEW e \in Eip, UserCreates(e)
  PROVE  OrphanInv'
<1> USE DEF OrphanInv
<1> DEFINE u == CHOOSE v \in Uid \ usedUid : TRUE
           obj == [phase |-> "live", uid |-> u, finalizer |-> FALSE]
<1>1. u \in Uid /\ u \notin usedUid /\ u # None
  BY ClusterAssumption DEF UserCreates, CreateEip
<1>2. /\ ~Exists(e)
      /\ eip' = [eip EXCEPT ![e] = obj]
      /\ usedUid' = usedUid \cup {u}
      /\ seen' = [seen EXCEPT ![e] = {}]
      /\ UNCHANGED <<status, owner, allocated, cachedEip, worker, stage, old, todo>>
  BY DEF UserCreates, CreateEip, awsVars, eipCtlVars, startVars
<1>3. obj.phase = "live" /\ obj.uid = u /\ ~obj.finalizer
  OBVIOUS
<1> HIDE DEF u, obj
<1>4. /\ eip'[e] = obj /\ seen'[e] = {}
      /\ \A f \in Eip : f # e => eip'[f] = eip[f] /\ seen'[f] = seen[f]
  BY <1>2 DEF TypeOK, ClusterTypeOK
<1>5. /\ eip[e].uid = None /\ ~eip[e].finalizer
      /\ ~Applying(e)
  BY <1>2, GuardedExists DEF PhasesInv, WorkerInv, Exists, NoEip
<1>6. UidsInv'
  <2>1. \A f \in Eip : Known(f)' \subseteq Known(f) \cup (IF f = e THEN {u} ELSE {})
    BY <1>2, <1>3, <1>4 DEF Known
  <2>2. \A f \in Eip : u \notin Known(f)
    BY <1>1 DEF UidsInv
  <2> QED BY <1>2, <2>1, <2>2 DEF UidsInv
<1>7. PhasesInv'
  BY <1>1, <1>2, <1>3, <1>4 DEF PhasesInv
<1>8. RunInv'
  <2>1. \A f \in Eip : cachedEip[f].uid # u
    BY <1>1 DEF UidsInv, Known
  <2>2. stage = "run" => CacheInv'
    BY <1>2, <1>3, <1>4, <1>5, <2>1 DEF RunInv, CacheInv
  <2> QED BY <1>2, <2>2 DEF RunInv
<1>9. WorkerInv'
  <2>1. \A f \in Eip : worker[f].uid # u
    BY <1>1 DEF UidsInv, Known
  <2> QED BY <1>2, <1>3, <1>4, <1>5, <2>1 DEF WorkerInv, Applying, CleaningUp
<1>10. CleanupInv'
  BY <1>2 DEF CleanupInv, describe_addresses_with_tag_value
<1>11. OldInv'
  <2>1. e \notin old
    BY <1>5, StartupAssumption, ClusterAssumption DEF OldInv
  <2> QED BY <1>2, <1>4, <2>1, StartupAssumption DEF OldInv, TypeOK
<1>12. GuardInv'
  BY <1>2, <1>4, <1>5 DEF GuardInv, WasOld
<1> QED BY <1>6, <1>7, <1>8, <1>9, <1>10, <1>11, <1>12

\* A deletion marks an Eip that is guarded.
LEMMA DeleteOrphans ==
  ASSUME TypeOK, OrphanInv, NEW e \in Eip, UserDeletes(e)
  PROVE  OrphanInv'
<1> USE DEF OrphanInv
<1> DEFINE marked == [eip[e] EXCEPT !.phase = "deleting"]
<1>1. /\ eip[e].phase = "live"
      /\ seen' = [seen EXCEPT ![e] = {}]
      /\ UNCHANGED <<usedUid, owner, allocated, cachedEip, worker, stage, todo>>
      /\ IF eip[e].finalizer
           THEN /\ eip' = [eip EXCEPT ![e] = marked]
                /\ status' = [status EXCEPT ![e] = status[e]]
                /\ old' = old
           ELSE /\ eip' = [eip EXCEPT ![e] = NoEip]
                /\ status' = [status EXCEPT ![e] = NoStatus]
                /\ old' = old \ {e}
  BY DEF UserDeletes, DeleteEip, TypeOK, ClusterTypeOK, awsVars, eipCtlVars
<1>2. marked # NoEip
  BY DEF TypeOK, ClusterTypeOK, EipMeta, NoEip
<1>3. Exists(e)
  BY <1>1 DEF Exists
<1>4. CASE eip[e].finalizer
  <2>1. old' = old \ {}
    BY <1>1, <1>4
  <2> HIDE DEF OrphanInv
  <2> QED BY <1>1, <1>2, <1>3, <1>4, <2>1, DeletionOrphans
<1>5. CASE ~eip[e].finalizer
  <2>1. ~Applying(e) /\ (stage = "run" => ~(cachedEip[e].phase = "live" /\ cachedEip[e].finalizer))
    BY <1>5 DEF WorkerInv, RunInv, CacheInv
  <2> HIDE DEF OrphanInv
  <2> QED BY <1>1, <1>3, <1>5, <2>1, DeletionOrphans
<1> QED BY <1>4, <1>5

\* What the next process of the operator does first is to forget.
LEMMA BeginOrphans ==
  ASSUME TypeOK, OrphanInv, Begin
  PROVE  OrphanInv'
<1> USE DEF OrphanInv, Begin, eipVars, awsVars
<1>1. \A e \in Eip : worker'[e] = IdleWorker /\ worker'[e].pc = "idle" /\ worker'[e].uid = None
  BY DEF IdleWorker
<1>2. UidsInv'
  BY <1>1, UidsKept DEF Known
<1>3. PhasesInv' /\ WorkerInv' /\ CleanupInv'
  BY <1>1 DEF PhasesInv, WorkerInv, Applying, CleaningUp, CleanupInv
<1>4. OldInv' /\ RunInv' /\ GuardInv'
  BY <1>1 DEF OldInv, RunInv, GuardInv, WasOld
<1> QED BY <1>2, <1>3, <1>4

\* A step of startup that leaves the objects, what is stored in version 1 and the
\* tags of addresses alone.
LEMMA StartGoesOn ==
  ASSUME TypeOK, OrphanInv, stage # "run", stage' # "run",
         UNCHANGED <<eip, status, seen, usedUid, owner, cachedEip, worker, old>>,
         allocated' \subseteq allocated,
         stage' \in {"release", "unfinalize"} => old = {},
         stage' # "replace"
  PROVE  OrphanInv'
<1> USE DEF OrphanInv
<1>1. UidsInv'
  BY UidsKept DEF Known
<1>2. PhasesInv' /\ WorkerInv'
  BY DEF PhasesInv, WorkerInv, Applying, CleaningUp
<1>3. CleanupInv'
  BY DEF CleanupInv, describe_addresses_with_tag_value
<1>4. OldInv' /\ RunInv' /\ GuardInv'
  BY DEF OldInv, RunInv, GuardInv, WasOld
<1> QED BY <1>1, <1>2, <1>3, <1>4

\* Startup takes the guard off old Eips only.
LEMMA ReplaceOldOrphans ==
  ASSUME TypeOK, OrphanInv, NEW e \in Eip, ReplaceOld(e)
  PROVE  OrphanInv'
<1> USE DEF OrphanInv
<1>1. /\ stage = "replace"
      /\ UNCHANGED <<usedUid, owner, allocated, cachedEip, worker>>
  BY DEF ReplaceOld, Fail, Continue, awsVars, eipCtlVars
<1>2. CASE e \notin seen[e]
  <2>1. stage' = "ended" /\ UNCHANGED <<eip, status, seen, old>>
    BY <1>2 DEF ReplaceOld, Fail, Continue
  <2> HIDE DEF OrphanInv
  <2> QED BY <1>1, <2>1, StartGoesOn
<1>3. CASE e \in seen[e]
  <2> DEFINE obj == IF eip[e].phase = "deleting" THEN NoEip
                    ELSE [eip[e] EXCEPT !.finalizer = FALSE]
  <2>1. /\ eip' = [eip EXCEPT ![e] = obj]
        /\ status' = [status EXCEPT ![e] = IF eip[e].phase = "deleting" THEN NoStatus
                                           ELSE status[e]]
        /\ seen' = [seen EXCEPT ![e] = {}]
        /\ old' = old \ {e} /\ todo' = todo \ {e}
        /\ stage' \in {"describe", "replace"}
        /\ e \in todo
    BY <1>3 DEF ReplaceOld, Continue
  <2>2. e \in old
    BY <1>1, <1>3, <2>1 DEF OldInv
  <2>3. /\ ~obj.finalizer
        /\ IF eip[e].phase = "deleting" THEN obj = NoEip
           ELSE obj.uid = eip[e].uid /\ obj.phase = eip[e].phase
    BY DEF TypeOK, ClusterTypeOK, EipMeta, NoEip
  <2>4. NoEip.phase = "absent" /\ NoEip.uid = None /\ ~NoEip.finalizer
    BY DEF NoEip
  <2>5. /\ eip'[e] = obj /\ seen'[e] = {}
        /\ status'[e] = IF eip[e].phase = "deleting" THEN NoStatus ELSE status[e]
        /\ \A f \in Eip : f # e => eip'[f] = eip[f] /\ status'[f] = status[f] /\ seen'[f] = seen[f]
    BY <2>1 DEF TypeOK, ClusterTypeOK
  <2>6. eip[e].uid = OldEip[e].uid /\ eip[e].uid # None /\ eip[e].phase # "absent"
    BY <2>2, <2>4, StartupAssumption, ClusterAssumption DEF OldInv, PhasesInv
  <2> HIDE DEF obj
  <2>7. \A f \in Eip : worker[f] = IdleWorker /\ worker[f].pc = "idle" /\ worker[f].uid = None
    BY <1>1 DEF RunInv, IdleWorker
  <2>8. UidsInv'
    BY <1>1, <2>3, <2>4, <2>5, UidsKept DEF Known
  <2>9. PhasesInv'
    BY <1>1, <2>3, <2>4, <2>5, <2>6 DEF PhasesInv
  <2>10. WorkerInv' /\ CleanupInv' /\ RunInv'
    BY <1>1, <2>1, <2>7 DEF WorkerInv, Applying, CleaningUp, CleanupInv, RunInv
  <2>11. OldInv'
    <3>1. old \subseteq Eip /\ todo \subseteq Eip
      BY DEF TypeOK
    <3> QED BY <1>1, <2>1, <2>5, <3>1 DEF OldInv
  <2>12. GuardInv'
    BY <1>1, <2>2, <2>5, <2>6 DEF GuardInv, WasOld, OldInv
  <2> QED BY <2>8, <2>9, <2>10, <2>11, <2>12
<1> QED BY <1>2, <1>3

\* The other calls of startup guard what they find guarded.
LEMMA StartingOrphans ==
  ASSUME TypeOK, OrphanInv, Starting
  PROVE  OrphanInv'
<1>1. CASE ListOld
  <2>1. UNCHANGED <<eip, status, usedUid, owner, allocated, cachedEip, worker, old>>
    BY <1>1 DEF ListOld, Continue, awsVars, eipCtlVars
  <2>2. /\ stage = "upgrade" /\ stage' \in {"describe", "replace"}
        /\ todo' \subseteq old
    BY <1>1 DEF ListOld, Continue
  <2> USE DEF OrphanInv
  <2>3. UidsInv'
    BY <2>1, UidsKept DEF Known
  <2>4. PhasesInv' /\ WorkerInv'
    BY <2>1 DEF PhasesInv, WorkerInv, Applying, CleaningUp
  <2>5. CleanupInv'
    BY <2>1 DEF CleanupInv, describe_addresses_with_tag_value
  <2>6. OldInv' /\ RunInv' /\ GuardInv'
    BY <2>1, <2>2 DEF OldInv, RunInv, GuardInv, WasOld
  <2> QED BY <2>3, <2>4, <2>5, <2>6
<1>2. ASSUME NEW e \in Eip, ReplaceOld(e) PROVE OrphanInv'
  BY <1>2, ReplaceOldOrphans
<1>3. CASE \/ DescribeAddresses \/ ListEips \/ DisassociateOrphan \/ ReleaseOrphan
           \/ ReleaseLegacy \/ OrphansReleased \/ RemoveLegacyFinalizer
  <2>1. /\ stage \notin {"run", "replace"} /\ stage' \notin {"run", "replace"}
        /\ UNCHANGED <<eip, status, seen, usedUid, owner, cachedEip, worker, old>>
        /\ allocated' \subseteq allocated
    BY <1>3 DEF DescribeAddresses, ListEips, DisassociateOrphan, ReleaseOrphan, ReleaseLegacy,
       OrphansReleased, RemoveLegacyFinalizer, Continue, Fail, disassociate_eip, release_address,
       eipVars, awsVars, eipCtlVars
  <2>2. stage' \in {"release", "unfinalize"} => old = {} \/ stage \in {"release", "unfinalize"}
    BY <1>3 DEF DescribeAddresses, ListEips, DisassociateOrphan, ReleaseOrphan, ReleaseLegacy,
       OrphansReleased, RemoveLegacyFinalizer, Continue, Fail
  <2>3. stage' \in {"release", "unfinalize"} => old = {}
    BY <2>2 DEF OrphanInv, OldInv
  <2> QED BY <2>1, <2>3, StartGoesOn
<1>4. CASE Spawn
  <2> USE <1>4 DEF OrphanInv, Spawn, EipControllerRestart
  <2>1. \A e \in Eip : worker'[e].pc = "idle" /\ worker'[e].uid = None
    BY DEF IdleWorker
  <2>2. UidsInv'
    <3>1. \A e \in Eip : Known(e)' \subseteq Known(e)
      BY <2>1 DEF Known
    <3> QED BY <3>1, UidsKept DEF awsVars
  <2>3. PhasesInv' /\ CacheInv'
    BY DEF PhasesInv, CacheInv
  <2>4. WorkerInv' /\ CleanupInv'
    BY <2>1 DEF WorkerInv, CleanupInv, Applying, CleaningUp
  <2>5. OldInv' /\ RunInv' /\ GuardInv'
    BY <2>3 DEF OldInv, RunInv, GuardInv, WasOld, awsVars
  <2> QED BY <2>2, <2>3, <2>4, <2>5
<1>5. CASE StartAgain
  BY <1>5, BeginOrphans DEF StartAgain
<1> QED BY <1>1, <1>2, <1>3, <1>4, <1>5 DEF Starting

\* Every step keeps the invariant.
LEMMA NextOrphans ==
  ASSUME TypeOK, GivenInv', OrphanInv, [Next]_vars
  PROVE  OrphanInv'
<1>1. CASE Starting
  BY <1>1, StartingOrphans
<1>2. ASSUME NEW e \in Eip, Running(e) PROVE OrphanInv'
  <2>1. stage = "run" /\ EipStep(e) /\ UNCHANGED startVars
    BY <1>2 DEF Running
  <2>2. CASE EipAllocate(e)
    <3> DEFINE a == CHOOSE b \in UnusedAllocIds : TRUE
               w == [worker[e] EXCEPT !.pc = "created", !.alloc = a]
    <3>1. a \in AllocId /\ owner[a] = None
      BY <2>2 DEF EipAllocate, UnusedAllocIds
    <3>2. /\ allocated' = allocated \cup {a}
          /\ owner' = [owner EXCEPT ![a] = worker[e].uid]
          /\ Goto(e, w)
          /\ worker[e].pc = "allocate"
          /\ UNCHANGED <<eip, status, usedUid, cachedEip>>
      BY <2>2 DEF EipAllocate, allocate_address, eipVars
    <3>3. w.pc = "created" /\ w.uid = worker[e].uid
      BY DEF TypeOK, EipControllerTypeOK, Worker
    <3> HIDE DEF a, w
    <3> QED BY <2>1, <3>1, <3>2, <3>3, AllocateOrphans
  <2> QED BY <2>1, <2>2, ReconcileOrphans, WatchOrphans, AddFinalizerOrphans,
             RemoveFinalizerOrphans DEF EipStep, EipStart, EipProgress
<1>3. ASSUME NEW e \in Eip, ResendAllocate(e) PROVE OrphanInv'
  <2> DEFINE a == CHOOSE b \in UnusedAllocIds : TRUE
  <2>1. a \in AllocId /\ owner[a] = None
    BY <1>3 DEF ResendAllocate, UnusedAllocIds
  <2>2. /\ allocated' = allocated \cup {a}
        /\ owner' = [owner EXCEPT ![a] = worker[e].uid]
        /\ worker[e].pc = "allocate" /\ stage = "run"
        /\ UNCHANGED startVars
        /\ UNCHANGED <<eip, status, usedUid, cachedEip, worker>>
    BY <1>3 DEF ResendAllocate, allocate_address, eipVars, eipCtlVars
  <2> HIDE DEF a
  <2> QED BY <2>1, <2>2, AllocateOrphans
<1>4. ASSUME NEW e \in Eip, UserCreates(e) \/ UserDeletes(e) PROVE OrphanInv'
  BY <1>4, CreateOrphans, DeleteOrphans
<1>5. CASE Restart
  BY <1>5, BeginOrphans DEF Restart
<1>6. CASE UNCHANGED vars
  <2> USE <1>6 DEF vars, eipVars, awsVars, eipCtlVars, startVars, OrphanInv
  <2>1. UidsInv'
    BY UidsKept DEF Known
  <2>2. PhasesInv' /\ WorkerInv' /\ OldInv'
    BY DEF PhasesInv, WorkerInv, Applying, CleaningUp, OldInv
  <2>3. RunInv' /\ CleanupInv' /\ GuardInv'
    BY DEF RunInv, CacheInv, CleanupInv, GuardInv, WasOld, describe_addresses_with_tag_value
  <2> QED BY <2>1, <2>2, <2>3
<1> QED BY <1>1, <1>2, <1>3, <1>4, <1>5, <1>6 DEF Next

\* What an older operator left is old and guarded.
LEMMA InitOrphans == Init => OrphanInv
<1> SUFFICES ASSUME NEW there \in SUBSET DOMAIN OldEip,
                    NEW dying \in SUBSET there, NEW paid \in SUBSET there,
                    NEW on \in SUBSET paid, Left(there, dying, paid, on), GivenInv
             PROVE  OrphanInv
  BY InitFound DEF Init
<1>1. \A e \in there : e \in Eip /\ OldEip[e].uid \in Uid /\ OldEip[e].uid # None
  BY StartupAssumption, ClusterAssumption
<1>2. /\ NoEip.phase = "absent" /\ NoEip.uid = None
      /\ IdleWorker.uid = None /\ IdleWorker.pc = "idle"
  BY DEF NoEip, IdleWorker
<1>3. \A e \in Eip :
        /\ cachedEip[e] = NoEip
        /\ worker[e] = IdleWorker
        /\ e \notin there => eip[e] = NoEip /\ status[e] = NoStatus
        /\ e \in there => /\ eip[e].phase \in {"live", "deleting"}
                          /\ eip[e].uid = OldEip[e].uid /\ eip[e].finalizer
  BY DEF Left, EipControllerInit
<1>4. stage = "upgrade" /\ old = there
  BY DEF Left
<1>5. UidsInv
  <2>1. \A e \in Eip : Known(e) \subseteq IF e \in there THEN {OldEip[e].uid} ELSE {}
    BY <1>2, <1>3 DEF Known
  <2>2. \A e, f \in Eip : e # f => Known(e) \cap Known(f) = {}
    BY <2>1, StartupAssumption
  <2>3. \A e \in Eip : Known(e) \subseteq usedUid
    BY DEF GivenInv, Known
  <2> QED BY <2>2, <2>3 DEF UidsInv, GivenInv
<1>6. PhasesInv
  BY <1>1, <1>2, <1>3 DEF PhasesInv
<1>7. WorkerInv /\ CleanupInv /\ RunInv
  BY <1>2, <1>3, <1>4 DEF WorkerInv, Applying, CleaningUp, CleanupInv, RunInv
<1>8. OldInv
  BY <1>1, <1>3, <1>4 DEF OldInv
<1>9. GuardInv
  <2>1. SUFFICES ASSUME NEW a \in allocated PROVE WasOld(a)
    BY DEF GuardInv
  <2>2. \A b \in AllocId : (\E e \in paid : OldEip[e].alloc = b) =>
                            \E e \in paid : owner[b] = OldEip[e].uid
    BY DEF Left
  <2>3. allocated = {OldEip[e].alloc : e \in paid} /\ a \in AllocId
    BY StartupAssumption DEF Left
  <2> QED BY <2>2, <2>3 DEF WasOld
<1> QED BY <1>5, <1>6, <1>7, <1>8, <1>9 DEF OrphanInv

\* Only an Eip that was upgraded can leave an address behind, whatever users delete,
\* when the process ends, and however often an allocation is sent: the upgrade alone
\* takes a finalizer off an Eip that has an address (eip.rs, upgrade_old_resources).
THEOREM OrphansAreOld == Spec => []OrphansWereOld
<1> DEFINE Inv == TypeOK /\ GivenInv /\ FoundInv /\ OrphanInv
<1>1. Init => Inv
  BY InitTypes, InitFound, InitOrphans
<1>2. Inv /\ [Next]_vars => Inv'
  BY NextTypes, NextFound, NextOrphans
<1>3. Inv => OrphansWereOld
  BY DEF OrphanInv, GuardInv, OrphansWereOld, Orphan
<1> QED BY <1>1, <1>2, <1>3, PTL DEF Spec
=============================================================================
