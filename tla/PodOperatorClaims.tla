------------------------- MODULE PodOperatorClaims --------------------------
(***************************************************************************)
(* Proof that no claim outlives its pod, that every association is claimed *)
(* by the pod that has it, and that the Eip of a pod goes with the pod.    *)
(* What is said of one pod is kept by the steps of the others, because an  *)
(* Eip names one pod.                                                      *)
(***************************************************************************)
EXTENDS PodOperatorAddresses

\* The claim on Eip e stays, or its object goes.
Stays(e) ==
  status'[e].resource = status[e].resource /\ status'[e].port = status[e].port
Goes(e) == status'[e].resource = None /\ eip'[e].uid = None

\* The copies of holder h get no better.
CopiesAge(h) ==
  \A e \in Eip : h \in seen'[e] => h \in seen[e] /\ status'[e] = status[e]

\* The address a stays where it is or is taken off.
Loosens(a) == attached'[a] = attached[a] \/ attached'[a].port = None

\* A step of somebody else spares pod q and what is in its hands.
Spared(q) ==
  /\ CopiesAge(q)
  /\ \A e \in Eip : status'[e].resource = q => Stays(e)
  /\ \A e \in res[q].matches : Stays(e) \/ Goes(e)
  /\ \A a \in AllocId : \/ Loosens(a)
                        \/ a \in allocated /\ \A e \in res[q].matches : owner[a] # eip[e].uid
  /\ AutoEip[q] \in Eip \ UserEips /\ eip'[AutoEip[q]].phase = "live"
     => eip[AutoEip[q]].phase = "live"

-----------------------------------------------------------------------------
(* What holds of one pod.                                                  *)

\* A pod that is spared keeps its part of the invariant, also if its reconciliation
\* ends.
LEMMA SparedPod ==
  ASSUME TypeOK, TypeOK', AddressInv, AddressInv', History, AttachedInv, NEW q \in Resource,
         OnePodInv(q), Spared(q),
         res'[q] = res[q], cachedPod'[q] = cachedPod[q],
         podTask'[q] = podTask[q] \/ podTask'[q] = IdlePod
  PROVE  OnePodInv(q)'
<1> USE CoreTypes DEF OnePodInv
<1>a. res[q].matches \subseteq Eip /\ podTask[q] \in PodTask
  BY DEF TypeOK, ClusterTypeOK, ResourceObject, PodControllerTypeOK
<1>b. \/ podTask'[q] = podTask[q]
      \/ podTask'[q].pc = "idle" /\ ~PodApplying(q)' /\ ~PodCleaningUp(q)'
  BY DEF IdlePod, PodApplying, PodAttaching, PodCleaningUp, PodDetaching
<1>1. PhaseInv(q)' /\ PodCacheInv(q)'
  BY DEF PhaseInv, PodCacheInv
<1>2. PodTaskInv(q)'
  BY <1>b DEF PodTaskInv, PodApplying, PodAttaching, PodCleaningUp, PodDetaching
<1>3. ChoiceInv(q)'
  <2> DEFINE t == podTask[q]
  <2>a. PodAttaching(q)' => PodAttaching(q) /\ podTask'[q] = t
    BY <1>b DEF PodApplying, PodAttaching
  <2> SUFFICES ASSUME PodAttaching(q)
               PROVE  /\ t.eip \in res[q].matches
                      /\ t.alloc # None
                      /\ owner'[t.alloc] \in usedUid'
                      /\ \A f \in Eip : eip'[f].uid = owner'[t.alloc] => f = t.eip
                      /\ t.pc = "associate" /\ t.alloc \in allocated' =>
                           status'[t.eip].resource = q /\ status'[t.eip].port = t.port
    BY <2>a DEF ChoiceInv
  <2>1. /\ t.eip \in res[q].matches /\ t.eip \in Eip
        /\ t.alloc \in AllocId /\ t.alloc # None
        /\ owner[t.alloc] \in usedUid /\ owner[t.alloc] # None
        /\ \A f \in Eip : eip[f].uid = owner[t.alloc] => f = t.eip
        /\ t.pc = "associate" /\ t.alloc \in allocated =>
             status[t.eip].resource = q /\ status[t.eip].port = t.port
    BY <1>a, ClusterAssumption DEF ChoiceInv, PodTask, TypeOK, ClusterTypeOK
  <2> HIDE DEF t
  <2>2. owner'[t.alloc] = owner[t.alloc] /\ owner[t.alloc] \in usedUid'
    BY <2>1 DEF History
  <2>3. \A f \in Eip : eip'[f].uid = owner'[t.alloc] => f = t.eip
    BY <2>1, OldUids
  <2>4. ASSUME t.pc = "associate", t.alloc \in allocated'
        PROVE  status'[t.eip].resource = q /\ status'[t.eip].port = t.port
    <3>1. t.alloc \in allocated
      BY <2>1, <2>4 DEF History
    <3>2. eip[t.eip].uid = owner[t.alloc]
      BY <2>1, <3>1 DEF AddressInv, NoOrphanAddress
    <3>3. eip'[t.eip].uid # None
      BY <2>1, <2>4, <3>1, <3>2, OwnerStays
    <3> QED BY <2>1, <2>4, <3>1, <3>3 DEF Spared, Stays, Goes
  <2> QED BY <2>1, <2>2, <2>3, <2>4
<1>4. ClaimsInv(q)'
  BY <1>b DEF ClaimsInv, Spared, Stays, PodCleaningUp, PodDetaching
<1>5. DetachInv(q)'
  <2> DEFINE t == podTask[q]
  <2>a. PodDetaching(q)' => PodDetaching(q) /\ podTask'[q] = t
    BY <1>b DEF PodCleaningUp, PodDetaching
  <2> SUFFICES ASSUME PodDetaching(q)
               PROVE  /\ \A s \in t.todo : q \in seen'[s[1]] =>
                           status'[s[1]].alloc = s[2] /\ status'[s[1]].resource = q
                      /\ t.pc # "cleanup" =>
                           /\ t.eip \in {s[1] : s \in t.todo}
                           /\ q \in seen'[t.eip] =>
                                \A a \in allocated' :
                                  owner'[a] = eip'[t.eip].uid /\ attached'[a].port # None
                                  => t.pc = "disassociate" /\ attached'[a].assoc = t.assoc
    BY <2>a DEF DetachInv
  <2>1. \A s \in t.todo : s[1] \in Eip
    BY <1>a DEF PodTask
  <2>2. \A s \in t.todo : q \in seen'[s[1]] =>
          /\ q \in seen[s[1]] /\ status'[s[1]] = status[s[1]]
          /\ status[s[1]].alloc = s[2] /\ status[s[1]].resource = q
    BY <2>1 DEF DetachInv, Spared, CopiesAge
  <2>3. ASSUME t.pc # "cleanup", q \in seen'[t.eip], NEW a \in allocated',
               owner'[a] = eip'[t.eip].uid, attached'[a].port # None
        PROVE  t.pc = "disassociate" /\ attached'[a].assoc = t.assoc
    <3>1. t.eip \in Eip /\ t.eip \in {s[1] : s \in t.todo}
      BY <2>1, <2>3 DEF DetachInv
    <3>2. q \in seen[t.eip] /\ status[t.eip].resource = q
      BY <2>2, <2>3, <3>1
    <3>3. t.eip \in res[q].matches
      BY <3>1, <3>2 DEF ClaimsInv
    <3>4. a \in AllocId /\ (Loosens(a) => attached'[a] = attached[a])
      BY <2>3 DEF Loosens, TypeOK, ClusterTypeOK
    <3>5. a \in allocated
      BY <2>3, <3>4 DEF AttachedInv, Spared
    <3>6. owner[a] # None
      BY <3>5, OwnerKnown
    <3>7. eip[t.eip].uid = owner[a]
      BY <2>3, <3>1, <3>4, <3>6, OldUids
    <3>8. attached'[a] = attached[a]
      BY <3>3, <3>4, <3>7 DEF Spared
    <3> QED BY <2>3, <3>2, <3>5, <3>7, <3>8 DEF DetachInv
  <2> QED BY <2>2, <2>3 DEF DetachInv
<1>6. AutoInv(q)'
  BY <1>b DEF AutoInv, Spared
<1> QED BY <1>1, <1>2, <1>3, <1>4, <1>5, <1>6

\* What a step that claims and associates nothing does: every claim stays or goes with
\* its object, an address is taken off or stays, and is released when it is off.
Gentle ==
  /\ \A e \in Eip : Stays(e) \/ Goes(e)
  /\ \A a \in AllocId : Loosens(a)
  /\ \A a \in allocated \ allocated' : attached[a].port = None

\* Such a step spares a pod whose copies age, unless it makes the Eip of that pod.
LEMMA GentleSpares ==
  ASSUME TypeOK, Gentle, NEW q \in Resource, OnePodInv(q), CopiesAge(q),
         AutoEip[q] \in Eip \ UserEips /\ eip'[AutoEip[q]].phase = "live"
         => eip[AutoEip[q]].phase = "live"
  PROVE  Spared(q)
<1>1. res[q].matches \subseteq Eip /\ q # None
  BY ClusterAssumption DEF TypeOK, ClusterTypeOK, ResourceObject
<1> QED BY <1>1 DEF Spared, Gentle, Goes

\* An address on a port is claimed in the status of its Eip.
Claimed(a) ==
  /\ a \in allocated
  /\ attached[a].assoc # None
  /\ \E e \in Eip : /\ eip[e].uid = owner[a]
                    /\ status[e].resource # None
                    /\ status[e].port = attached[a].port

\* No address of e is on a port.
Free(e) == \A a \in allocated : owner[a] = eip[e].uid => attached[a].port = None

\* An Eip without a claim is free.
LEMMA UnclaimedFree ==
  ASSUME AddressInv, AttachedInv, TypeOK, NEW e \in Eip, status[e].resource = None
  PROVE  Free(e)
<1> SUFFICES ASSUME NEW a \in allocated, owner[a] = eip[e].uid, attached[a].port # None
             PROVE  FALSE
  BY DEF Free
<1>1. PICK f \in Eip : eip[f].uid = owner[a] /\ status[f].resource # None
  BY DEF AttachedInv, TypeOK, ClusterTypeOK
<1>2. owner[a] # None
  BY OwnerKnown
<1>3. f = e
  BY <1>1, <1>2 DEF AddressInv, UidsInv, Known
<1> QED BY <1>1, <1>3

\* Addresses stay claimed when a claim is only touched that goes with its object or
\* whose addresses are off, and nothing is put on a port without a claim.
LEMMA AttachedKept ==
  ASSUME TypeOK, TypeOK', AddressInv, AddressInv', History, AttachedInv,
         \A a \in AllocId : Loosens(a) \/ Claimed(a)',
         \A a \in allocated \ allocated' : attached[a].port = None,
         \A e \in Eip : Stays(e) \/ Goes(e) \/ Free(e)
  PROVE  AttachedInv'
<1> SUFFICES ASSUME NEW a \in AllocId, attached'[a].port # None, attached'[a] = attached[a]
             PROVE  Claimed(a)'
  BY DEF AttachedInv, Claimed, Loosens
<1>1. PICK e \in Eip : /\ eip[e].uid = owner[a]
                       /\ status[e].resource # None
                       /\ status[e].port = attached[a].port
  BY DEF AttachedInv
<1>2. a \in allocated /\ a \in allocated' /\ attached[a].assoc # None
  BY DEF AttachedInv
<1>3. eip'[e].uid = owner[a] /\ eip'[e].uid # None
  BY <1>1, <1>2, OwnerStays
<1>4. owner'[a] = owner[a]
  BY <1>2, OwnerKnown DEF History
<1>5. Stays(e)
  BY <1>1, <1>2, <1>3 DEF Goes, Free
<1> QED BY <1>1, <1>2, <1>3, <1>4, <1>5 DEF Stays, Claimed

-----------------------------------------------------------------------------
(* The Eip controller.                                                     *)

\* What the functions of eip.rs do to a claim.
LEMMA StatusClaims ==
  ASSUME NEW s \in EipStatus
  PROVE  /\ \A a : /\ StatusCreated(s, a).resource = s.resource
                  /\ StatusCreated(s, a).port = s.port
         /\ \A x : /\ StatusAssociationId(s, x).resource = s.resource
                  /\ StatusAssociationId(s, x).port = s.port
                  /\ StatusAssociationId(s, x).alloc = s.alloc
         /\ \A r, p : /\ StatusShouldAttach(s, r, p).resource = r
                     /\ StatusShouldAttach(s, r, p).port = p
                     /\ StatusShouldAttach(s, r, p).alloc = s.alloc
         /\ StatusDetached(s).resource = None
BY DEF EipStatus, StatusCreated, StatusAssociationId, StatusShouldAttach, StatusDetached

\* The worker that is about to detach an Eip has an old copy: what it compared with
\* the pods was no claim of theirs.
LEMMA ListKeepsWorker ==
  ASSUME TypeOK, AddressInv, PodInv, NEW e \in Eip, EipListResources(e)
  PROVE  WorkerPodInv'
<1> DEFINE w == worker[e]
           found == {r \in Resource : res[r].phase # "absent" /\ e \in res[r].matches}
           next == [w EXCEPT !.matched = found]
<1>a. /\ worker \in [Eip -> Worker]
      /\ status \in [Eip -> EipStatus]
      /\ seen \in [Eip -> SUBSET Holder]
  BY DEF TypeOK, ClusterTypeOK, EipControllerTypeOK
<1>1. \A f \in Eip : f # e => worker'[f] = worker[f] /\ (f \in seen'[f] => f \in seen[f])
  BY <1>a DEF EipListResources, Goto, Forget
<1>2. CASE w.copy.resource \in found \cup {None}
  <2>1. /\ worker'[e].pc \in {"refresh", "idle"}
    <3>1. [next EXCEPT !.pc = "refresh", !.copy = NoStatus].pc = "refresh"
      BY <1>a DEF Worker
    <3>2. IdleWorker.pc = "idle"
      BY DEF IdleWorker
    <3> HIDE DEF next
    <3> QED BY <1>a, <1>2, <3>1, <3>2 DEF EipListResources, Goto, next
  <2> QED BY <1>1, <2>1 DEF PodInv, WorkerPodInv
<1>3. CASE w.copy.resource \notin found \cup {None}
  <2>1. e \notin seen[e]
    <3> SUFFICES ASSUME e \in seen[e] PROVE FALSE
      OBVIOUS
    <3>1. w.copy = status[e]
      BY DEF AddressInv, CopiesInv
    <3>2. status[e].resource \in Resource
      BY <1>a, <1>3, <3>1 DEF EipStatus
    <3>3. res[status[e].resource].finalizer /\ e \in res[status[e].resource].matches
      BY <3>2 DEF PodInv, OnePodInv, ClaimsInv
    <3>4. res[status[e].resource].phase # "absent"
      BY <3>2, <3>3 DEF PodInv, OnePodInv, PhaseInv, NoResource
    <3> QED BY <1>3, <3>1, <3>2, <3>3, <3>4
  <2>2. seen' = seen
    BY <1>3 DEF EipListResources
  <2> QED BY <1>1, <2>1, <2>2 DEF PodInv, WorkerPodInv
<1> QED BY <1>2, <1>3

\* A worker that goes on elsewhere, or ends, is not about to detach its Eip.
LEMMA WorkerElsewhere ==
  ASSUME TypeOK, WorkerPodInv, NEW e \in Eip, NEW w, Goto(e, w),
         w.pc \in {"disassociate", "detach"} => e \notin seen'[e],
         \A f \in Eip : f # e /\ f \in seen'[f] => f \in seen[f]
  PROVE  WorkerPodInv'
BY DEF WorkerPodInv, Goto, TypeOK, EipControllerTypeOK

\* What a step of the Eip controller does to what pods rely on.
EipGentle ==
  /\ Gentle
  /\ \A q \in Resource : CopiesAge(q)
  /\ \A f \in Eip : eip'[f].phase = "live" => eip[f].phase = "live"

\* A step that writes no status and lets no pod read is gentle.
LEMMA StaleGentle ==
  ASSUME UNCHANGED <<eip, status, owner, allocated, attached>>,
         \A f \in Eip, q \in Resource : q \in seen'[f] => q \in seen[f]
  PROVE  EipGentle
BY DEF EipGentle, Gentle, Stays, Loosens, CopiesAge

\* So is a write of the status that leaves the claim.
LEMMA StoreGentle ==
  ASSUME TypeOK, NEW e \in Eip, NEW s, NEW done, Store(e, s, done),
         s.resource = status[e].resource, s.port = status[e].port,
         UNCHANGED <<eip, owner, allocated, attached>>
  PROVE  EipGentle
BY DEF EipGentle, Gentle, Stays, Loosens, CopiesAge, Store, TypeOK, ClusterTypeOK

\* Every step of the reconciliation of an Eip is gentle to pods.
LEMMA EipControllerGentle ==
  ASSUME TypeOK, AddressInv, PodInv, NEW e \in Eip,
         EipStep(e) \/ EipFault(e) \/ EipResync(e)
  PROVE  EipGentle /\ WorkerPodInv'
<1> USE DEF eipVars, awsVars
<1>a. /\ status \in [Eip -> EipStatus]
      /\ eip \in [Eip -> EipMeta]
      /\ worker \in [Eip -> Worker]
      /\ seen \in [Eip -> SUBSET Holder]
  BY DEF TypeOK, ClusterTypeOK, EipControllerTypeOK
<1>b. e \notin Resource /\ "cache" \notin Resource /\ "cache" # e
      /\ \A f \in Eip : f # "cache"
  BY ClusterAssumption
<1>c. WorkerPodInv
  BY DEF PodInv
<1>d. UNCHANGED worker /\ (\A f \in Eip : f \in seen'[f] => f \in seen[f]) => WorkerPodInv'
  BY <1>c DEF WorkerPodInv
<1>e. IdleWorker.pc \notin {"disassociate", "detach"}
  BY DEF IdleWorker
<1>f. /\ UNCHANGED seen => \A f, h : h \in seen'[f] => h \in seen[f]
      /\ seen' = Forget(e) => \A f \in Eip : \A h : h \in seen'[f] => h \in seen[f]
  BY DEF Forget
<1>1. CASE EipWatch(e)
  BY <1>1, <1>b, <1>d, StaleGentle DEF EipWatch, Read
<1>2. CASE EipApply(e)
  <2>1. EipGentle
    BY <1>2, <1>b, StaleGentle DEF EipApply, Read
  <2> DEFINE start == [IdleWorker EXCEPT !.uid = cachedEip[e].uid, !.copy = cachedStatus[e]]
  <2>2. /\ [start EXCEPT !.pc = "allocate"].pc = "allocate"
        /\ \A a : [start EXCEPT !.pc = "created", !.alloc = a].pc = "created"
    BY DEF IdleWorker
  <2>3. \E w : Goto(e, w) /\ w.pc \in {"allocate", "created"}
    <3>1. \/ Goto(e, [start EXCEPT !.pc = "allocate"])
          \/ \E a : Goto(e, [start EXCEPT !.pc = "created", !.alloc = a])
      BY <1>2 DEF EipApply
    <3> HIDE DEF start
    <3> QED BY <2>2, <3>1
  <2>4. \A f \in Eip : f # e /\ f \in seen'[f] => f \in seen[f]
    BY <1>2 DEF EipApply, Read
  <2> QED BY <1>c, <2>1, <2>3, <2>4, WorkerElsewhere
<1>3. CASE EipAddFinalizer(e)
  <2>1. \A f \in Eip : eip'[f].phase = eip[f].phase
    BY <1>3, <1>a DEF EipAddFinalizer, EipMeta
  <2>2. \A f \in Eip : seen'[f] \subseteq seen[f]
    BY <1>3, <1>a DEF EipAddFinalizer
  <2> QED BY <1>3, <1>d, <2>1, <2>2
          DEF EipAddFinalizer, EipGentle, Gentle, Stays, Loosens, CopiesAge
<1>4. CASE EipResync(e) \/ EipCleanup(e) \/ \E done : EipRefresh(e, done)
  <2>1. EipGentle
    BY <1>4, StaleGentle DEF EipResync, EipCleanup, EipRefresh
  <2>2. \/ UNCHANGED worker
        \/ \E w : Goto(e, w) /\ w.pc \notin {"disassociate", "detach"}
    <3>1. CASE EipCleanup(e)
      <4> DEFINE u == cachedEip[e].uid
                 found == {<<a, attached[a].assoc>> : a \in describe_addresses_with_tag_value(u)}
                 w == [IdleWorker EXCEPT !.uid = u, !.todo = found,
                          !.pc = IF found = {} THEN "finalize" ELSE "release"]
      <4>1. Goto(e, w)
        BY <3>1 DEF EipCleanup
      <4>2. w.pc \in {"finalize", "release"}
        <5> HIDE DEF u, found
        <5> QED BY DEF IdleWorker
      <4> QED BY <4>1, <4>2
    <3>2. CASE EipResync(e) \/ \E done : EipRefresh(e, done)
      BY <3>2, <1>e DEF EipResync, EipRefresh, EipEnd
    <3> QED BY <1>4, <3>1, <3>2
  <2>3. seen' = seen
    BY <1>4 DEF EipResync, EipCleanup, EipRefresh
  <2> QED BY <1>c, <1>d, <2>1, <2>2, <2>3, WorkerElsewhere
<1>5. CASE EipAllocate(e)
  <2>1. [worker[e] EXCEPT !.pc = "created", !.alloc = CHOOSE b \in UnusedAllocIds : TRUE].pc
          = "created"
    BY <1>a DEF Worker
  <2>2. /\ \E w : Goto(e, w) /\ w.pc = "created"
        /\ UNCHANGED <<eip, status, seen, attached>>
        /\ allocated \subseteq allocated'
    BY <1>5, <2>1 DEF EipAllocate, allocate_address
  <2>3. EipGentle
    BY <2>2 DEF EipGentle, Gentle, Stays, Loosens, CopiesAge
  <2> QED BY <1>c, <2>2, <2>3, WorkerElsewhere
<1>6. CASE EipDisassociate(e)
  <2>1. [worker[e] EXCEPT !.pc = "detach"].pc = "detach"
    BY <1>a DEF Worker
  <2>2. /\ worker[e].pc = "disassociate"
        /\ \E w : Goto(e, w) /\ w.pc = "detach"
        /\ UNCHANGED <<eip, status, seen, owner, allocated>>
    BY <1>6, <2>1 DEF EipDisassociate, disassociate_eip
  <2>3. \A a \in AllocId : Loosens(a)
    BY <1>6 DEF EipDisassociate, disassociate_eip, Loosens, NoAttachment
  <2>4. EipGentle
    BY <2>2, <2>3 DEF EipGentle, Gentle, Stays, CopiesAge
  <2>5. e \notin seen[e]
    BY <1>c, <2>2 DEF WorkerPodInv
  <2> QED BY <1>c, <2>2, <2>4, <2>5, WorkerElsewhere
<1>7. CASE EipCleanupDisassociate(e)
  <2>1. PICK t \in worker[e].todo :
          /\ disassociate_eip(t[2])
          /\ Goto(e, [worker[e] EXCEPT !.todo = (@ \ {t}) \cup {<<t[1], None>>}])
    BY <1>7 DEF EipCleanupDisassociate
  <2>2. \A todo : [worker[e] EXCEPT !.todo = todo].pc = "release"
    BY <1>7, <1>a DEF EipCleanupDisassociate, Worker
  <2>3. \E w : Goto(e, w) /\ w.pc = "release"
    BY <2>1, <2>2
  <2>4. UNCHANGED <<eip, status, seen, owner, allocated>>
    BY <1>7 DEF EipCleanupDisassociate, disassociate_eip
  <2>5. \A a \in AllocId : Loosens(a)
    BY <2>1 DEF disassociate_eip, Loosens, NoAttachment
  <2>6. EipGentle
    BY <2>4, <2>5 DEF EipGentle, Gentle, Stays, CopiesAge
  <2> QED BY <1>c, <2>3, <2>4, <2>6, WorkerElsewhere
<1>8. CASE EipCleanupRelease(e)
  <2>1. PICK t \in worker[e].todo :
          \/ /\ Releasable(t[1]) /\ release_address(t[1])
             /\ Goto(e, [worker[e] EXCEPT !.todo = worker[e].todo \ {t},
                           !.pc = IF worker[e].todo \ {t} = {} THEN "finalize" ELSE "release"])
          \/ EipEnd(e, TRUE) /\ UNCHANGED awsVars
    BY <1>8 DEF EipCleanupRelease
  <2>2. \A todo : \A pc \in {"finalize", "release"} :
          [worker[e] EXCEPT !.todo = todo, !.pc = pc].pc = pc
    BY <1>a DEF Worker
  <2>3. \E w : Goto(e, w) /\ w.pc \notin {"disassociate", "detach"}
    BY <1>e, <2>1, <2>2 DEF EipEnd
  <2>4. UNCHANGED <<eip, status, seen, attached>>
    BY <1>8, <2>1 DEF EipCleanupRelease, release_address
  <2>5. \A a \in allocated \ allocated' : attached[a].port = None
    BY <2>1 DEF release_address, Releasable
  <2>6. EipGentle
    BY <2>4, <2>5 DEF EipGentle, Gentle, Stays, Loosens, CopiesAge
  <2> QED BY <1>c, <2>3, <2>4, <2>6, WorkerElsewhere
<1>9. CASE EipFails(e)
  BY <1>9, <1>c, <1>e, <1>f, StaleGentle, WorkerElsewhere DEF EipFails, EipEnd
<1>10. CASE EipSetStatusCreated(e)
  <2>1. [worker[e] EXCEPT !.pc = "list", !.alloc = None].pc = "list"
    BY <1>a DEF Worker
  <2>2. \E w : Goto(e, w) /\ w.pc \notin {"disassociate", "detach"}
    BY <1>10, <1>e, <2>1 DEF EipSetStatusCreated, EipEnd
  <2>3. \A f \in Eip : seen'[f] \subseteq seen[f]
    BY <1>10 DEF EipSetStatusCreated, Store, Forget
  <2>4. EipGentle
    BY <1>10, <1>a, <1>f, StatusClaims, StoreGentle, StaleGentle DEF EipSetStatusCreated
  <2> QED BY <1>c, <2>2, <2>3, <2>4, WorkerElsewhere
<1>11. CASE EipListResources(e)
  <2>1. EipGentle
    BY <1>11, <1>f, StaleGentle DEF EipListResources
  <2> QED BY <1>11, <2>1, ListKeepsWorker
<1>12. CASE EipSetStatusDetached(e)
  <2>1. e \notin seen[e]
    BY <1>12, <1>c DEF EipSetStatusDetached, WorkerPodInv
  <2>2. EipEnd(e, TRUE) /\ seen' = Forget(e) /\ UNCHANGED <<eip, status, owner, allocated, attached>>
    BY <1>12, <2>1 DEF EipSetStatusDetached
  <2> QED BY <1>c, <1>e, <1>f, <2>2, StaleGentle, WorkerElsewhere DEF EipEnd
<1>13. CASE EipRemoveFinalizer(e)
  <2>1. \E w : Goto(e, w) /\ w.pc \notin {"disassociate", "detach"}
    BY <1>13, <1>e DEF EipRemoveFinalizer, EipEnd
  <2>2. UNCHANGED <<owner, allocated, attached>>
    BY <1>13 DEF EipRemoveFinalizer
  <2>3. \A f \in Eip : seen'[f] \subseteq seen[f]
    BY <1>13, <1>a DEF EipRemoveFinalizer
  <2>4. \A f \in Eip : f # e => eip'[f] = eip[f] /\ status'[f] = status[f]
    BY <1>13, <1>a DEF EipRemoveFinalizer
  <2>5. CASE ~eip[e].finalizer
    BY <1>13, <1>c, <2>1, <2>2, <2>3, <2>5, StaleGentle, WorkerElsewhere
    DEF EipRemoveFinalizer
  <2>6. CASE eip[e].finalizer /\ eip[e].phase = "deleting"
    <3>1. eip'[e] = NoEip /\ status'[e] = NoStatus /\ seen'[e] = {}
      BY <1>13, <1>a, <2>6 DEF EipRemoveFinalizer
    <3>2. EipGentle
      BY <2>2, <2>3, <2>4, <3>1
      DEF EipGentle, Gentle, Stays, Goes, Loosens, CopiesAge, NoEip, NoStatus
    <3> QED BY <1>c, <2>1, <2>3, <3>2, WorkerElsewhere
  <2>7. CASE eip[e].finalizer /\ eip[e].phase # "deleting"
    <3>1. eip'[e].phase = eip[e].phase
      BY <1>13, <1>a, <2>7 DEF EipRemoveFinalizer, EipMeta
    <3>2. seen'[e] = {} /\ status'[e] = status[e]
      BY <1>13, <1>a, <2>7 DEF EipRemoveFinalizer
    <3>3. EipGentle
      BY <2>2, <2>3, <2>4, <3>1, <3>2 DEF EipGentle, Gentle, Stays, Loosens, CopiesAge
    <3> QED BY <1>c, <2>1, <2>3, <3>3, WorkerElsewhere
  <2> QED BY <2>5, <2>6, <2>7
<1> QED
  BY <1>1, <1>2, <1>3, <1>4, <1>5, <1>6, <1>7, <1>8, <1>9, <1>10, <1>11, <1>12, <1>13
  DEF EipStep, EipStart, EipProgress, EipFault, EipRefreshFails

-----------------------------------------------------------------------------
(* Steps around one pod.                                                   *)

\* What the steps below start from and are already known to keep.
Around ==
  /\ TypeOK /\ TypeOK'
  /\ AddressInv /\ AddressInv'
  /\ History
  /\ PodInv

\* Every step of the reconciliation of an Eip keeps what holds of pods.
LEMMA EipStepPods ==
  ASSUME Around, NEW e \in Eip, UNCHANGED podCtlVars,
         EipStep(e) \/ EipFault(e) \/ EipResync(e)
  PROVE  PodInv'
<1> USE DEF Around, PodInv
<1>1. EipGentle /\ WorkerPodInv'
  BY EipControllerGentle
<1>2. UNCHANGED <<res, cachedPod, podTask>>
  BY DEF podCtlVars, EipStep, EipStart, EipProgress, EipFault, EipRefreshFails, EipWatch, EipResync,
         EipAddFinalizer, EipFails, EipApply, EipAllocate, EipSetStatusCreated,
         EipListResources, EipDisassociate, EipSetStatusDetached, EipRefresh,
         EipCleanup, EipCleanupDisassociate, EipCleanupRelease, EipRemoveFinalizer, resVars
<1>3. ASSUME NEW q \in Resource PROVE OnePodInv(q)'
  <2>1. Spared(q)
    BY <1>1, GentleSpares DEF EipGentle
  <2> QED BY <1>2, <2>1, SparedPod
<1>4. AttachedInv'
  BY <1>1, AttachedKept DEF EipGentle, Gentle
<1> QED BY <1>1, <1>3, <1>4

\* A step of the cluster that is gentle and does not concern a pod.
LEMMA GentlePods ==
  ASSUME Around, EipGentle, UNCHANGED <<res, cachedPod, worker>>,
         \A e \in Eip : seen'[e] \subseteq seen[e],
         \A q \in Resource : podTask'[q] = podTask[q] \/ podTask'[q] = IdlePod
  PROVE  PodInv'
<1> USE DEF Around, PodInv
<1>1. ASSUME NEW q \in Resource PROVE OnePodInv(q)'
  <2>1. Spared(q)
    BY GentleSpares DEF EipGentle
  <2> QED BY <2>1, SparedPod
<1>2. AttachedInv'
  BY AttachedKept DEF EipGentle, Gentle
<1>3. WorkerPodInv'
  BY DEF WorkerPodInv
<1> QED BY <1>1, <1>2, <1>3

\* The reconciliation of a pod ends, for whatever reason, or nothing happens.
LEMMA PodRests ==
  ASSUME Around, NEW r \in Resource,
         UNCHANGED <<eip, status, owner, allocated, attached, res, cachedPod, worker>>,
         seen' = seen \/ seen' = Forget(r),
         podTask' = podTask \/ Proceed(r, IdlePod)
  PROVE  PodInv'
<1>1. \A e \in Eip : seen'[e] \subseteq seen[e]
  BY DEF Forget
<1>2. EipGentle
  BY <1>1, StaleGentle
<1>3. \A q \in Resource : podTask'[q] = podTask[q] \/ podTask'[q] = IdlePod
  BY DEF Proceed, Around, TypeOK, PodControllerTypeOK
<1> QED BY <1>1, <1>2, <1>3, GentlePods

\* Every other pod is spared by a step that touches what is pod r's.
LEMMA OthersKept ==
  ASSUME Around, NEW r \in Resource,
         \A q \in Resource : q # r =>
           /\ Spared(q)
           /\ res'[q] = res[q] /\ cachedPod'[q] = cachedPod[q] /\ podTask'[q] = podTask[q],
         OnePodInv(r)', AttachedInv',
         UNCHANGED worker, \A e, f \in Eip : e \in seen'[f] => e \in seen[f]
  PROVE  PodInv'
<1> USE DEF Around, PodInv
<1>1. ASSUME NEW q \in Resource, q # r PROVE OnePodInv(q)'
  BY <1>1, SparedPod
<1>2. WorkerPodInv'
  BY DEF WorkerPodInv
<1> QED BY <1>1, <1>2

\* No Eip names two pods.
LEMMA NamesOne ==
  ASSUME PodInv, NEW r \in Resource, NEW q \in Resource, q # r
  PROVE  res[r].matches \cap res[q].matches = {}
BY PodControllerAssumption DEF PodInv, OnePodInv, PhaseInv, NoResource

\* The task of r goes on, and nothing else happens but that r reads.
LEMMA PodMoves ==
  ASSUME Around, NEW r \in Resource, NEW t, Proceed(r, t),
         UNCHANGED <<eip, status, owner, allocated, attached, res, cachedPod, worker>>,
         \A e \in Eip : \A h : h # r /\ h \in seen'[e] => h \in seen[e],
         PodTaskInv(r)', ChoiceInv(r)', ClaimsInv(r)', DetachInv(r)', AutoInv(r)'
  PROVE  PodInv'
<1> USE DEF Around
<1>1. ASSUME NEW q \in Resource, q # r
      PROVE  Spared(q) /\ podTask'[q] = podTask[q]
  <2>1. Gentle /\ CopiesAge(q)
    BY <1>1 DEF Gentle, Stays, Loosens, CopiesAge
  <2> QED BY <1>1, <2>1, GentleSpares DEF Proceed, TypeOK, PodControllerTypeOK, PodInv
<1>2. OnePodInv(r)'
  BY DEF PodInv, OnePodInv, PhaseInv, PodCacheInv
<1>3. AttachedInv'
  BY DEF PodInv, AttachedInv
<1>4. \A e \in Eip : e # r
  BY ClusterAssumption
<1> QED BY <1>1, <1>2, <1>3, <1>4, OthersKept

-----------------------------------------------------------------------------
(* apply                                                                   *)

\* What a task says of the parts when apply goes on with it.
LEMMA ApplyMoves ==
  ASSUME NEW r \in Resource, OnePodInv(r), PodApplying(r),
         podTask'[r].pc \in {"describe", "claim", "associate", "list", "record", "annotate"},
         podTask'[r].port = podTask[r].port,
         UNCHANGED <<eip, res, cachedPod>>
  PROVE  /\ PhaseInv(r)' /\ PodCacheInv(r)' /\ PodTaskInv(r)' /\ DetachInv(r)' /\ AutoInv(r)'
         /\ UNCHANGED status => ClaimsInv(r)'
<1>1. PodApplying(r)' /\ ~PodCleaningUp(r)' /\ ~PodDetaching(r)'
  BY DEF PodApplying, PodAttaching, PodCleaningUp, PodDetaching
<1> QED BY <1>1
        DEF OnePodInv, PhaseInv, PodCacheInv, PodTaskInv, ClaimsInv, DetachInv, AutoInv

\* The list takes an address of the one Eip that names the pod.
LEMMA PodListPods ==
  ASSUME Around, NEW r \in Resource, PodList(r), UNCHANGED worker
  PROVE  PodInv'
<1> USE DEF Around, PodInv
<1>a. podTask \in [Resource -> PodTask] /\ status \in [Eip -> EipStatus]
  BY DEF TypeOK, ClusterTypeOK, PodControllerTypeOK
<1>1. /\ podTask[r].pc = "list"
      /\ UNCHANGED <<eip, status, owner, allocated, attached, res, cachedPod>>
  BY DEF PodList, resVars, awsVars
<1>2. CASE PodEnd(r, EipsNaming(r) # {}) /\ UNCHANGED seen
  BY <1>1, <1>2, PodRests DEF PodEnd
<1>3. ASSUME NEW e \in EipsNaming(r), status[e].alloc # None, seen' = Read({e}, r),
             Proceed(r, [podTask[r] EXCEPT !.pc = "describe", !.eip = e,
                                           !.alloc = status[e].alloc])
      PROVE  PodInv'
  <2> DEFINE t == [podTask[r] EXCEPT !.pc = "describe", !.eip = e, !.alloc = status[e].alloc]
             a == status[e].alloc
  <2>1. t.pc = "describe" /\ t.eip = e /\ t.alloc = a /\ t.port = podTask[r].port
    BY <1>a DEF PodTask
  <2>2. podTask'[r] = t
    BY <1>3, <1>a DEF Proceed
  <2>3. /\ PodTaskInv(r)' /\ DetachInv(r)' /\ AutoInv(r)' /\ ClaimsInv(r)'
    BY <1>1, <2>1, <2>2, ApplyMoves DEF PodApplying
  <2>4. e \in Eip /\ e \in res[r].matches /\ Exists(e)
    BY DEF EipsNaming
  <2>5. owner[a] = eip[e].uid /\ eip[e].uid # None
    BY <1>3, <2>4 DEF AddressInv, StatusNamesOwnAddress, PhasesInv, Exists
  <2>6. eip[e].uid \in usedUid /\ \A f \in Eip : eip[f].uid = eip[e].uid => f = e
    BY <2>4, <2>5 DEF AddressInv, UidsInv, Known
  <2>7. owner[a] \in usedUid'
    BY <2>5, <2>6 DEF History
  <2> HIDE DEF t
  <2>8. ChoiceInv(r)'
    BY <1>1, <1>3, <2>1, <2>2, <2>4, <2>5, <2>6, <2>7 DEF ChoiceInv
  <2>9. \A f \in Eip : \A h : h # r /\ h \in seen'[f] => h \in seen[f]
    BY <1>3 DEF Read
  <2> QED BY <1>1, <1>3, <2>3, <2>8, <2>9, PodMoves DEF t
<1> QED BY <1>2, <1>3 DEF PodList

\* The address is described.
LEMMA PodDescribePods ==
  ASSUME Around, NEW r \in Resource, PodDescribe(r), UNCHANGED worker
  PROVE  PodInv'
<1> USE DEF Around, PodInv
<1>a. podTask[r] \in PodTask
  BY DEF TypeOK, PodControllerTypeOK
<1>1. /\ podTask[r].pc = "describe"
      /\ UNCHANGED <<eip, status, usedUid, owner, allocated, attached, res, cachedPod>>
  BY DEF PodDescribe, resVars, awsVars
<1> DEFINE t == [podTask[r] EXCEPT !.pc = "claim",
                    !.onPort = attached[podTask[r].alloc].port = podTask[r].port]
<1>2. CASE PodEnd(r, TRUE) /\ seen' = Forget(r)
  BY <1>1, <1>2, PodRests DEF PodEnd
<1>3. CASE Proceed(r, t) /\ UNCHANGED seen
  <2>1. /\ t.pc = "claim" /\ t.eip = podTask[r].eip
        /\ t.alloc = podTask[r].alloc /\ t.port = podTask[r].port
    BY <1>a DEF PodTask
  <2>2. podTask'[r] = t
    BY <1>3 DEF Proceed, TypeOK, PodControllerTypeOK
  <2> HIDE DEF t
  <2>3. /\ PodTaskInv(r)' /\ DetachInv(r)' /\ AutoInv(r)' /\ ClaimsInv(r)'
    BY <1>1, <2>1, <2>2, ApplyMoves DEF PodApplying, PodAttaching
  <2>4. ChoiceInv(r)'
    BY <1>1, <2>1, <2>2 DEF OnePodInv, ChoiceInv, PodAttaching
  <2> QED BY <1>1, <1>3, <2>3, <2>4, PodMoves
<1> QED BY <1>2, <1>3 DEF PodDescribe

\* The claim is of an Eip that nobody had, or of one that was the pod's already.
LEMMA PodClaimPods ==
  ASSUME Around, NEW r \in Resource, PodClaim(r), UNCHANGED worker
  PROVE  PodInv'
<1> USE DEF Around, PodInv
<1>a. /\ podTask \in [Resource -> PodTask] /\ status \in [Eip -> EipStatus]
      /\ \A q \in Resource : res[q].matches \subseteq Eip
  BY DEF TypeOK, ClusterTypeOK, PodControllerTypeOK, ResourceObject
<1> DEFINE e == podTask[r].eip
           p == podTask[r].port
           s == StatusShouldAttach(status[e], r, p)
           t == [podTask[r] EXCEPT !.pc = IF podTask[r].onPort THEN "annotate" ELSE "associate"]
<1>1. /\ podTask[r].pc = "claim"
      /\ UNCHANGED <<eip, usedUid, owner, allocated, attached, res, cachedPod>>
  BY DEF PodClaim, resVars, awsVars
<1>2. CASE PodEnd(r, TRUE) /\ seen' = Forget(r) /\ UNCHANGED status
  BY <1>1, <1>2, PodRests DEF PodEnd
<1>3. CASE Store(e, s, {r}) /\ Proceed(r, t)
  <2>1. /\ t.pc \in {"annotate", "associate"} /\ t.eip = e
        /\ t.alloc = podTask[r].alloc /\ t.port = p
    BY <1>a DEF PodTask
  <2>2. podTask'[r] = t
    BY <1>3, <1>a DEF Proceed
  <2>3. e \in res[r].matches /\ e \in Eip
    BY <1>1, <1>a DEF OnePodInv, ChoiceInv, PodAttaching
  <2>4. res[r].finalizer /\ p = res[r].port
    BY <1>1 DEF OnePodInv, PodTaskInv, PodApplying, PodAttaching
  <2>5. s.resource = r /\ s.port = p
    BY <1>a, <2>3, StatusClaims
  <2> HIDE DEF e, s, t, p
  <2>6. /\ status'[e] = s
        /\ \A f \in Eip : f # e => status'[f] = status[f]
        /\ \A f \in Eip : \A h \in seen'[f] : h \in seen[f] /\ status'[f] = status[f]
    BY <1>3, <1>a, <2>3 DEF Store
  <2>7. \A q \in Resource : q # r => e \notin res[q].matches
    BY <2>3, NamesOne
  <2>8. Stays(e) \/ status[e].resource = None
    <3>1. status[e].resource \in Resource \cup {None}
      BY <1>a, <2>3 DEF EipStatus
    <3>2. ASSUME status[e].resource \in Resource PROVE status[e].resource = r
      BY <2>3, <2>7, <3>2 DEF OnePodInv, ClaimsInv
    <3>3. status[e].resource = r => status[e].port = res[r].port
      BY <2>3 DEF OnePodInv, ClaimsInv
    <3> QED BY <2>4, <2>5, <2>6, <3>1, <3>2, <3>3 DEF Stays
  <2>9. AttachedInv'
    <3>1. Stays(e) \/ Free(e)
      BY <2>3, <2>8, UnclaimedFree
    <3> QED BY <1>1, <2>3, <2>6, <3>1, AttachedKept DEF Stays, Loosens
  <2>10. ASSUME NEW q \in Resource, q # r PROVE Spared(q) /\ podTask'[q] = podTask[q]
    BY <1>1, <1>3, <1>a, <2>5, <2>6, <2>7, <2>10 DEF Spared, CopiesAge, Stays, Loosens, Proceed
  <2>11. OnePodInv(r)'
    <3>1. /\ PhaseInv(r)' /\ PodCacheInv(r)' /\ PodTaskInv(r)' /\ DetachInv(r)' /\ AutoInv(r)'
      BY <1>1, <2>1, <2>2, ApplyMoves DEF PodApplying, PodAttaching, p
    <3>2. ChoiceInv(r)'
      BY <1>1, <2>1, <2>2, <2>5, <2>6 DEF OnePodInv, ChoiceInv, PodAttaching, e
    <3>3. ClaimsInv(r)'
      <4>1. ~PodCleaningUp(r)'
        BY <2>1, <2>2 DEF PodCleaningUp, PodDetaching
      <4> QED BY <1>1, <2>3, <2>4, <2>5, <2>6, <4>1 DEF OnePodInv, ClaimsInv
    <3> QED BY <3>1, <3>2, <3>3 DEF OnePodInv
  <2> QED BY <1>1, <2>6, <2>9, <2>10, <2>11, OthersKept
<1> QED BY <1>2, <1>3 DEF PodClaim

\* The address goes on the port of the pod that claims its Eip.
LEMMA PodAssociatePods ==
  ASSUME Around, NEW r \in Resource, NEW x \in AssocId, PodAssociate(r, x), UNCHANGED worker
  PROVE  PodInv'
<1> USE DEF Around, PodInv
<1>a. /\ podTask \in [Resource -> PodTask]
      /\ \A q \in Resource : res[q].matches \subseteq Eip
      /\ x # None /\ r # None
      /\ attached \in [AllocId -> Attachment]
  BY ClusterAssumption DEF TypeOK, ClusterTypeOK, PodControllerTypeOK, ResourceObject
<1> DEFINE a == podTask[r].alloc
           e == podTask[r].eip
           p == podTask[r].port
           t == [podTask[r] EXCEPT !.pc = "record", !.assoc = x]
<1>1. /\ podTask[r].pc = "associate"
      /\ UNCHANGED <<eip, status, seen, usedUid, owner, allocated, res, cachedPod>>
  BY DEF PodAssociate, eipVars, resVars, awsVars, associate_eip
<1>2. CASE PodEnd(r, TRUE) /\ UNCHANGED awsVars
  BY <1>1, <1>2, PodRests DEF PodEnd, awsVars
<1>3. CASE a \in allocated /\ associate_eip(a, p, x) /\ Proceed(r, t)
  <2>1. t.pc = "record" /\ t.port = p
    BY <1>a DEF PodTask
  <2>2. podTask'[r] = t
    BY <1>3, <1>a DEF Proceed
  <2>3. /\ e \in res[r].matches /\ e \in Eip
        /\ \A f \in Eip : eip[f].uid = owner[a] => f = e
        /\ status[e].resource = r /\ status[e].port = p
    BY <1>1, <1>3, <1>a DEF OnePodInv, ChoiceInv, PodAttaching
  <2>4. eip[e].uid = owner[a]
    BY <1>3, <2>3 DEF AddressInv, NoOrphanAddress
  <2>5. \A b \in AllocId : b # a => Loosens(b)
    BY <1>3 DEF associate_eip, Loosens, NoAttachment
  <2>6. a \in AllocId /\ attached'[a] = [port |-> p, assoc |-> x]
    BY <1>3 DEF associate_eip, TypeOK, ClusterTypeOK
  <2> HIDE DEF e, t, p, a
  <2>7. AttachedInv'
    <3>1. PICK b \in AllocId : b = a
      BY <2>6
    <3>2. Claimed(b)'
      BY <1>1, <1>3, <1>a, <2>3, <2>4, <2>6, <3>1 DEF Claimed
    <3>3. \A c \in AllocId : Loosens(c) \/ Claimed(c)'
      BY <2>5, <3>1, <3>2
    <3> QED BY <1>1, <3>3, AttachedKept DEF Stays
  <2>8. ASSUME NEW q \in Resource, q # r PROVE Spared(q) /\ podTask'[q] = podTask[q]
    <3>1. \A f \in res[q].matches : f # e /\ f \in Eip
      BY <1>a, <2>3, <2>8, NamesOne
    <3>2. \A f \in res[q].matches : owner[a] # eip[f].uid
      BY <2>3, <3>1
    <3> QED BY <1>1, <1>3, <1>a, <2>5, <2>8, <3>2 DEF Spared, CopiesAge, Stays, Proceed
  <2>9. OnePodInv(r)'
    <3>1. /\ PhaseInv(r)' /\ PodCacheInv(r)' /\ PodTaskInv(r)' /\ DetachInv(r)' /\ AutoInv(r)'
          /\ ClaimsInv(r)'
      BY <1>1, <2>1, <2>2, ApplyMoves DEF PodApplying, PodAttaching, p
    <3>2. ChoiceInv(r)'
      BY <2>1, <2>2 DEF ChoiceInv, PodAttaching
    <3> QED BY <3>1, <3>2 DEF OnePodInv
  <2> QED BY <1>1, <2>7, <2>8, <2>9, OthersKept
<1> QED BY <1>2, <1>3 DEF PodAssociate

\* The association id is recorded; the claim stays whoever has it.
LEMMA PodRecordPods ==
  ASSUME Around, NEW r \in Resource, PodRecord(r), UNCHANGED worker
  PROVE  PodInv'
<1> USE DEF Around, PodInv
<1>a. /\ podTask \in [Resource -> PodTask] /\ status \in [Eip -> EipStatus]
  BY DEF TypeOK, ClusterTypeOK, PodControllerTypeOK
<1> DEFINE e == podTask[r].eip
           s == StatusAssociationId(status[e], podTask[r].assoc)
           t == [podTask[r] EXCEPT !.pc = "annotate", !.assoc = None]
<1>1. /\ podTask[r].pc = "record"
      /\ UNCHANGED <<eip, usedUid, owner, allocated, attached, res, cachedPod>>
  BY DEF PodRecord, resVars, awsVars
<1>2. CASE PodEnd(r, TRUE) /\ UNCHANGED <<status, seen>>
  BY <1>1, <1>2, PodRests DEF PodEnd
<1>3. CASE Store(e, s, {}) /\ Proceed(r, t)
  <2>1. t.pc = "annotate" /\ t.port = podTask[r].port
    BY <1>a DEF PodTask
  <2>2. podTask'[r] = t
    BY <1>3, <1>a DEF Proceed
  <2>3. e \in Eip => s.resource = status[e].resource /\ s.port = status[e].port
    BY <1>a, StatusClaims
  <2> HIDE DEF e, s, t
  <2>4. /\ \A f \in Eip : Stays(f)
        /\ \A f \in Eip : \A h \in seen'[f] : h \in seen[f] /\ status'[f] = status[f]
    BY <1>3, <1>a, <2>3 DEF Store, Stays
  <2>5. Gentle /\ \A q \in Resource : CopiesAge(q)
    BY <1>1, <2>4 DEF Gentle, Loosens, CopiesAge
  <2>6. ASSUME NEW q \in Resource, q # r PROVE Spared(q) /\ podTask'[q] = podTask[q]
    BY <1>1, <1>3, <1>a, <2>5, <2>6, GentleSpares DEF Proceed
  <2>7. AttachedInv'
    BY <2>5, AttachedKept DEF Gentle
  <2>8. OnePodInv(r)'
    <3>1. /\ PhaseInv(r)' /\ PodCacheInv(r)' /\ PodTaskInv(r)' /\ DetachInv(r)' /\ AutoInv(r)'
      BY <1>1, <2>1, <2>2, ApplyMoves DEF PodApplying
    <3>2. ChoiceInv(r)'
      BY <2>1, <2>2 DEF ChoiceInv, PodAttaching
    <3>3. ClaimsInv(r)'
      <4>1. ~PodCleaningUp(r)'
        BY <2>1, <2>2 DEF PodCleaningUp, PodDetaching
      <4> QED BY <1>1, <2>4, <4>1 DEF OnePodInv, ClaimsInv, Stays
    <3> QED BY <3>1, <3>2, <3>3 DEF OnePodInv
  <2> QED BY <1>1, <2>4, <2>6, <2>7, <2>8, OthersKept
<1> QED BY <1>2, <1>3 DEF PodRecord

-----------------------------------------------------------------------------
(* cleanup                                                                 *)

\* The list of cleanup finds every claim on the pod.
LEMMA PodCleanupPods ==
  ASSUME Around, NEW r \in Resource, PodCleanup(r), UNCHANGED worker
  PROVE  PodInv'
<1> USE DEF Around, PodInv
<1>a. podTask \in [Resource -> PodTask] /\ r # None /\ None \notin Eip
  BY ClusterAssumption DEF TypeOK, PodControllerTypeOK
<1> DEFINE held == {e \in Eip : Exists(e) /\ status[e].resource = r}
           todo == {<<e, status[e].alloc>> : e \in held}
           t == [IdlePod EXCEPT !.pc = PodCleanupNext(r, todo), !.todo = todo]
<1>1. /\ podTask[r].pc = "idle" /\ cachedPod[r].phase = "deleting"
      /\ UNCHANGED <<eip, status, usedUid, owner, allocated, attached, res, cachedPod>>
      /\ seen' = Read(held, r)
      /\ Proceed(r, t)
  BY DEF PodCleanup, PodReady, resVars, awsVars
<1>2. /\ t.pc = PodCleanupNext(r, todo) /\ t.todo = todo
  BY DEF IdlePod
<1>3. podTask'[r] = t
  BY <1>1, <1>a DEF Proceed
<1>4. \A e \in Eip : status[e].resource = r => e \in held
  BY <1>a DEF AddressInv, PhasesInv, Exists, NoStatus
<1>5. ASSUME NEW e \in Eip, status[e].resource = r PROVE e \in {s[1] : s \in todo}
  <2>1. <<e, status[e].alloc>> \in todo /\ <<e, status[e].alloc>>[1] = e
    BY <1>4, <1>5
  <2> HIDE DEF todo
  <2> QED BY <2>1
<1>6. \A s \in todo : s[1] \in Eip /\ status[s[1]].alloc = s[2] /\ status[s[1]].resource = r
  OBVIOUS
<1>7. \A e \in Eip : \A h : h # r /\ h \in seen'[e] => h \in seen[e]
  BY <1>1 DEF Read
<1>8. /\ t.pc \in {"cleanup", "delete", "finalize"}
      /\ t.pc # "cleanup" => todo = {}
      /\ t.pc = "finalize" => AutoEip[r] = None
  BY <1>2 DEF PodCleanupNext
<1> HIDE DEF held, todo, t
<1>9. PodTaskInv(r)'
  BY <1>1, <1>3, <1>8 DEF OnePodInv, PodCacheInv, PodTaskInv, PodApplying, PodAttaching
<1>10. ChoiceInv(r)'
  BY <1>3, <1>8 DEF ChoiceInv, PodAttaching
<1>11. ClaimsInv(r)'
  BY <1>1, <1>2, <1>3, <1>5, <1>8 DEF OnePodInv, ClaimsInv, PodDetaching
<1>12. DetachInv(r)'
  BY <1>1, <1>2, <1>3, <1>6, <1>8 DEF DetachInv, PodDetaching
<1>13. AutoInv(r)'
  BY <1>1, <1>a, <1>3, <1>8 DEF OnePodInv, AutoInv
<1> QED BY <1>1, <1>7, <1>9, <1>10, <1>11, <1>12, <1>13, PodMoves

\* The address that is described is the only one of the Eip, or the copy is old.
LEMMA PodCleanupDescribePods ==
  ASSUME Around, NEW r \in Resource, PodCleanupDescribe(r), UNCHANGED worker
  PROVE  PodInv'
<1> USE DEF Around, PodInv
<1>a. /\ podTask \in [Resource -> PodTask] /\ podTask[r].todo \subseteq Eip \X (AllocId \cup {None})
      /\ None \notin AllocId /\ allocated \subseteq AllocId
  BY ClusterAssumption DEF TypeOK, ClusterTypeOK, PodControllerTypeOK, PodTask
<1>1. /\ podTask[r].pc = "cleanup"
      /\ UNCHANGED <<eip, status, usedUid, owner, allocated, attached, res, cachedPod>>
  BY DEF PodCleanupDescribe, resVars, awsVars
<1>2. CASE PodEnd(r, TRUE) /\ seen' = Forget(r)
  BY <1>1, <1>2, PodRests DEF PodEnd
<1> DEFINE t(s) == [podTask[r] EXCEPT !.eip = s[1], !.assoc = attached[s[2]].assoc,
                      !.pc = IF attached[s[2]].assoc = None THEN "detach" ELSE "disassociate"]
<1>3. ASSUME NEW s \in podTask[r].todo, s[2] \in allocated, Proceed(r, t(s)), UNCHANGED seen
      PROVE  PodInv'
  <2>1. /\ t(s).eip = s[1] /\ t(s).assoc = attached[s[2]].assoc
        /\ t(s).todo = podTask[r].todo
        /\ t(s).pc = IF attached[s[2]].assoc = None THEN "detach" ELSE "disassociate"
    BY <1>a DEF PodTask
  <2>2. podTask'[r] = t(s)
    BY <1>3, <1>a DEF Proceed
  <2> HIDE DEF t
  <2>3. PodDetaching(r) /\ PodDetaching(r)' /\ PodCleaningUp(r)
    BY <1>1, <2>1, <2>2 DEF PodDetaching, PodCleaningUp
  <2>4. PodTaskInv(r)' /\ AutoInv(r)' /\ ChoiceInv(r)'
    BY <1>1, <2>1, <2>2, <2>3
    DEF OnePodInv, PodTaskInv, AutoInv, ChoiceInv, PodApplying, PodAttaching
  <2>5. ClaimsInv(r)'
    BY <1>1, <2>1, <2>2, <2>3 DEF OnePodInv, ClaimsInv
  <2>6. ASSUME r \in seen[s[1]], NEW a \in allocated, owner[a] = eip[s[1]].uid,
               attached[a].port # None
        PROVE  a = s[2] /\ t(s).pc = "disassociate"
    <3>1. s[1] \in Eip /\ status[s[1]].alloc = s[2]
      BY <1>3, <1>a, <2>3, <2>6 DEF OnePodInv, DetachInv
    <3>2. owner[s[2]] = eip[s[1]].uid
      BY <1>3, <1>a, <3>1 DEF AddressInv, StatusNamesOwnAddress
    <3>3. a = s[2]
      BY <1>3, <2>6, <3>2 DEF AddressInv, OneAddressPerEip
    <3>4. attached[a].assoc # None
      BY <1>a, <2>6 DEF AttachedInv
    <3> QED BY <2>1, <3>3, <3>4
  <2>7. DetachInv(r)'
    <3>1. \A u \in podTask[r].todo : r \in seen[u[1]] =>
            status[u[1]].alloc = u[2] /\ status[u[1]].resource = r
      BY <2>3 DEF OnePodInv, DetachInv
    <3>2. s[1] \in {u[1] : u \in podTask[r].todo}
      BY <1>3
    <3> QED BY <1>1, <1>3, <2>1, <2>2, <2>6, <3>1, <3>2 DEF DetachInv
  <2> QED BY <1>1, <1>3, <2>4, <2>5, <2>7, PodMoves
<1> QED BY <1>2, <1>3 DEF PodCleanupDescribe

\* The address is taken off.
LEMMA PodCleanupDisassociatePods ==
  ASSUME Around, NEW r \in Resource, PodCleanupDisassociate(r), UNCHANGED worker
  PROVE  PodInv'
<1> USE DEF Around, PodInv
<1>a. podTask \in [Resource -> PodTask] /\ allocated \subseteq AllocId
  BY DEF TypeOK, ClusterTypeOK, PodControllerTypeOK
<1> DEFINE t == [podTask[r] EXCEPT !.pc = "detach", !.assoc = None]
<1>1. /\ podTask[r].pc = "disassociate"
      /\ UNCHANGED <<eip, status, seen, usedUid, owner, allocated, res, cachedPod>>
      /\ Proceed(r, t)
  BY DEF PodCleanupDisassociate, eipVars, resVars, disassociate_eip
<1>2. \A a \in AllocId :
        /\ Loosens(a)
        /\ attached'[a].port # None
           => attached'[a] = attached[a] /\ attached[a].assoc # podTask[r].assoc
  BY DEF PodCleanupDisassociate, disassociate_eip, Loosens, NoAttachment
<1>3. t.pc = "detach" /\ t.eip = podTask[r].eip /\ t.todo = podTask[r].todo
  BY <1>a DEF PodTask
<1>4. podTask'[r] = t
  BY <1>1, <1>a DEF Proceed
<1> HIDE DEF t
<1>5. Gentle /\ \A q \in Resource : CopiesAge(q)
  BY <1>1, <1>2 DEF Gentle, Stays, CopiesAge
<1>6. ASSUME NEW q \in Resource, q # r PROVE Spared(q) /\ podTask'[q] = podTask[q]
  BY <1>1, <1>a, <1>5, <1>6, GentleSpares DEF Proceed
<1>7. AttachedInv'
  BY <1>5, AttachedKept DEF Gentle
<1>8. PodDetaching(r) /\ PodDetaching(r)' /\ PodCleaningUp(r)
  BY <1>1, <1>3, <1>4 DEF PodDetaching, PodCleaningUp
<1>9. PhaseInv(r)' /\ PodCacheInv(r)' /\ PodTaskInv(r)' /\ AutoInv(r)' /\ ChoiceInv(r)'
  BY <1>1, <1>3, <1>4, <1>8
  DEF OnePodInv, PhaseInv, PodCacheInv, PodTaskInv, AutoInv, ChoiceInv, PodApplying, PodAttaching
<1>10. ClaimsInv(r)'
  BY <1>1, <1>3, <1>4, <1>8 DEF OnePodInv, ClaimsInv
<1>11. DetachInv(r)'
  BY <1>1, <1>a, <1>2, <1>3, <1>4, <1>8 DEF OnePodInv, DetachInv
<1> QED BY <1>1, <1>6, <1>7, <1>9, <1>10, <1>11, OthersKept DEF OnePodInv

\* The claim is given up when the address is off: if the copy is not old, nothing has
\* put it on again.
LEMMA PodCleanupDetachPods ==
  ASSUME Around, NEW r \in Resource, PodCleanupDetach(r), UNCHANGED worker
  PROVE  PodInv'
<1> USE DEF Around, PodInv
<1>a. /\ podTask \in [Resource -> PodTask] /\ status \in [Eip -> EipStatus]
      /\ podTask[r].todo \subseteq Eip \X (AllocId \cup {None})
      /\ r # None /\ None \notin Eip
  BY ClusterAssumption DEF TypeOK, ClusterTypeOK, PodControllerTypeOK, PodTask
<1> DEFINE e == podTask[r].eip
           s == StatusDetached(status[e])
           rest == {u \in podTask[r].todo : u[1] # e}
           t == [IdlePod EXCEPT !.pc = PodCleanupNext(r, rest), !.todo = rest]
<1>1. /\ podTask[r].pc = "detach"
      /\ UNCHANGED <<eip, usedUid, owner, allocated, attached, res, cachedPod>>
  BY DEF PodCleanupDetach, resVars, awsVars
<1>2. CASE PodEnd(r, TRUE) /\ seen' = Forget(r) /\ UNCHANGED status
  BY <1>1, <1>2, PodRests DEF PodEnd
<1>3. CASE r \in seen[e] /\ Store(e, s, {}) /\ Proceed(r, t)
  <2>1. t.pc = PodCleanupNext(r, rest) /\ t.todo = rest
    BY DEF IdlePod
  <2>2. podTask'[r] = t
    BY <1>3, <1>a DEF Proceed
  <2>3. PodDetaching(r) /\ PodCleaningUp(r)
    BY <1>1 DEF PodDetaching, PodCleaningUp
  <2>4. /\ e \in {u[1] : u \in podTask[r].todo} /\ e \in Eip
        /\ status[e].resource = r
        /\ Free(e)
    BY <1>1, <1>3, <1>a, <2>3 DEF OnePodInv, DetachInv, Free
  <2>5. e \in res[r].matches
    BY <2>4 DEF OnePodInv, ClaimsInv
  <2>6. s.resource = None
    BY <1>a, <2>4, StatusClaims
  <2>7. /\ rest \subseteq podTask[r].todo /\ \A u \in rest : u[1] # e /\ u[1] \in Eip
        /\ \A f \in Eip : f # e /\ f \in {u[1] : u \in podTask[r].todo}
                          => f \in {u[1] : u \in rest}
    BY <1>a
  <2>8. /\ t.pc \in {"cleanup", "delete", "finalize"}
        /\ t.pc # "cleanup" => rest = {}
        /\ t.pc = "finalize" => AutoEip[r] = None
    BY <2>1 DEF PodCleanupNext
  <2> HIDE DEF e, s, rest, t
  <2>9. /\ status'[e].resource = None
        /\ \A f \in Eip : f # e => status'[f] = status[f] /\ seen'[f] = seen[f]
        /\ \A f \in Eip : \A h \in seen'[f] : h \in seen[f] /\ status'[f] = status[f]
    BY <1>3, <1>a, <2>4, <2>6 DEF Store
  <2>10. AttachedInv'
    BY <1>1, <2>4, <2>9, AttachedKept DEF Stays, Loosens
  <2>11. ASSUME NEW q \in Resource, q # r PROVE Spared(q) /\ podTask'[q] = podTask[q]
    <3>1. e \notin res[q].matches /\ res[q].matches \subseteq Eip /\ q # None
      BY <2>5, <2>11, NamesOne, ClusterAssumption DEF TypeOK, ClusterTypeOK, ResourceObject
    <3> QED BY <1>1, <1>3, <1>a, <2>9, <2>11, <3>1
            DEF Spared, CopiesAge, Stays, Loosens, Proceed
  <2>12. PhaseInv(r)' /\ PodCacheInv(r)'
    BY <1>1 DEF OnePodInv, PhaseInv, PodCacheInv
  <2>13. PodTaskInv(r)' /\ ChoiceInv(r)'
    BY <1>1, <2>2, <2>3, <2>8
    DEF OnePodInv, PodTaskInv, ChoiceInv, PodApplying, PodAttaching
  <2>14. AutoInv(r)'
    BY <1>1, <1>a, <2>2, <2>8 DEF OnePodInv, AutoInv
  <2>15. ClaimsInv(r)'
    <3> SUFFICES ASSUME NEW f \in Eip, status'[f].resource = r
                 PROVE  /\ res[r].finalizer
                        /\ res[r].port = status'[f].port
                        /\ f \in res[r].matches
                        /\ PodDetaching(r)' /\ f \in {u[1] : u \in rest}
      BY <1>1, <2>1, <2>2 DEF ClaimsInv
    <3>1. f # e /\ status'[f] = status[f]
      BY <1>a, <2>9
    <3>2. /\ res[r].finalizer /\ res[r].port = status[f].port /\ f \in res[r].matches
          /\ f \in {u[1] : u \in podTask[r].todo}
      BY <2>3, <3>1 DEF OnePodInv, ClaimsInv
    <3>3. f \in {u[1] : u \in rest}
      BY <2>7, <3>1, <3>2
    <3>4. PodDetaching(r)'
      BY <2>2, <2>8, <3>3 DEF PodDetaching
    <3> QED BY <3>1, <3>2, <3>3, <3>4
  <2>16. DetachInv(r)'
    <3>1. \A u \in rest : r \in seen'[u[1]] =>
            status'[u[1]].alloc = u[2] /\ status'[u[1]].resource = r
      BY <2>3, <2>7, <2>9 DEF OnePodInv, DetachInv
    <3> QED BY <2>1, <2>2, <2>8, <3>1 DEF DetachInv, PodDetaching
  <2> QED BY <1>1, <2>9, <2>10, <2>11, <2>12, <2>13, <2>14, <2>15, <2>16, OthersKept
          DEF OnePodInv
<1> QED BY <1>2, <1>3 DEF PodCleanupDetach

\* A deletion is gentle.
LEMMA DeleteGentle ==
  ASSUME TypeOK, NEW e, DeleteEip(e)
  PROVE  EipGentle /\ \A f \in Eip : seen'[f] \subseteq seen[f]
<1> USE DEF TypeOK, ClusterTypeOK
<1>1. UNCHANGED <<owner, allocated, attached>>
  BY DEF DeleteEip, awsVars
<1>2. \A f \in Eip : f # e => eip'[f] = eip[f] /\ status'[f] = status[f] /\ seen'[f] = seen[f]
  BY DEF DeleteEip
<1>3. e \in Eip => /\ seen'[e] = {}
                   /\ eip[e].phase = "live"
                   /\ eip[e].finalizer => status'[e] = status[e]
                   /\ ~eip[e].finalizer => status'[e] = NoStatus /\ eip'[e] = NoEip
  BY DEF DeleteEip
<1> QED BY <1>1, <1>2, <1>3
        DEF EipGentle, Gentle, Stays, Goes, Loosens, CopiesAge, NoEip, NoStatus

\* The Eip of the pod is deleted before the pod is let go.
LEMMA PodDeleteEipPods ==
  ASSUME Around, NEW r \in Resource, PodDeleteEip(r), UNCHANGED worker
  PROVE  PodInv'
<1> USE DEF Around, PodInv
<1>a. /\ podTask \in [Resource -> PodTask] /\ r # None
      /\ eip \in [Eip -> EipMeta]
  BY ClusterAssumption DEF TypeOK, ClusterTypeOK, PodControllerTypeOK
<1> DEFINE t == [podTask[r] EXCEPT !.pc = "finalize"]
<1>1. /\ podTask[r].pc = "delete"
      /\ UNCHANGED <<res, cachedPod>>
      /\ Proceed(r, t)
  BY DEF PodDeleteEip, DeleteEip, resVars
<1>2. t.pc = "finalize"
  BY <1>a DEF PodTask
<1>3. podTask'[r] = t
  BY <1>1, <1>a DEF Proceed
<1>4. EipGentle /\ \A f \in Eip : seen'[f] \subseteq seen[f]
  BY DeleteGentle, StaleGentle DEF PodDeleteEip, eipVars, awsVars
<1>5. AutoEip[r] \in Eip => eip'[AutoEip[r]].phase # "live"
  BY <1>a DEF PodDeleteEip, DeleteEip, eipVars, NoEip, EipMeta
<1> HIDE DEF t
<1>6. ASSUME NEW q \in Resource, q # r PROVE Spared(q) /\ podTask'[q] = podTask[q]
  BY <1>1, <1>4, <1>a, <1>6, GentleSpares DEF EipGentle, Proceed
<1>7. AttachedInv'
  BY <1>4, AttachedKept DEF EipGentle, Gentle
<1>8. PodCleaningUp(r) /\ ~PodDetaching(r)
  BY <1>1 DEF PodCleaningUp, PodDetaching
<1>9. PhaseInv(r)' /\ PodCacheInv(r)' /\ PodTaskInv(r)' /\ ChoiceInv(r)' /\ DetachInv(r)'
  BY <1>1, <1>2, <1>3, <1>8
  DEF OnePodInv, PhaseInv, PodCacheInv, PodTaskInv, ChoiceInv, DetachInv, PodApplying,
      PodAttaching, PodDetaching
<1>10. ClaimsInv(r)'
  BY <1>a, <1>4, <1>8 DEF OnePodInv, ClaimsInv, EipGentle, Gentle, Stays, Goes
<1>11. AutoInv(r)'
  BY <1>5 DEF AutoInv
<1> QED BY <1>1, <1>4, <1>6, <1>7, <1>9, <1>10, <1>11, OthersKept DEF OnePodInv

\* Steps that change the pod itself, and nothing that it shares.
LEMMA PodChanges ==
  ASSUME Around, NEW r \in Resource, NEW obj, res' = [res EXCEPT ![r] = obj],
         UNCHANGED <<eip, status, seen, owner, allocated, attached, cachedPod, worker>>,
         podTask' = podTask \/ Proceed(r, IdlePod),
         OnePodInv(r)'
  PROVE  PodInv'
<1> USE DEF Around, PodInv
<1>1. EipGentle
  BY StaleGentle
<1>2. ASSUME NEW q \in Resource, q # r PROVE Spared(q) /\ podTask'[q] = podTask[q]
  BY <1>1, <1>2, GentleSpares DEF EipGentle, Proceed, TypeOK, PodControllerTypeOK
<1>3. AttachedInv'
  BY DEF AttachedInv
<1>4. \A q \in Resource : q # r => res'[q] = res[q]
  BY DEF TypeOK, ClusterTypeOK
<1> QED BY <1>2, <1>3, <1>4, OthersKept

\* The finalizer is taken off when every claim and the Eip are gone.
LEMMA PodRemoveFinalizerPods ==
  ASSUME Around, NEW r \in Resource, PodRemoveFinalizer(r), UNCHANGED worker
  PROVE  PodInv'
<1> USE DEF Around, PodInv
<1>1. /\ podTask[r].pc = "finalize"
      /\ UNCHANGED <<eip, status, seen, owner, allocated, attached, cachedPod>>
      /\ Proceed(r, IdlePod)
  BY DEF PodRemoveFinalizer, PutResource, PodEnd, eipVars, awsVars
<1>2. CASE ~res[r].finalizer
  BY <1>1, <1>2, PodRests DEF PodRemoveFinalizer, resVars
<1>3. CASE res[r].finalizer
  <2>1. PodCleaningUp(r) /\ ~PodDetaching(r)
    BY <1>1 DEF PodCleaningUp, PodDetaching
  <2>2. res[r].phase = "deleting"
    BY <1>3, <2>1 DEF OnePodInv, PodTaskInv
  <2>3. res' = [res EXCEPT ![r] = NoResource]
    BY <1>3, <2>2 DEF PodRemoveFinalizer, PutResource
  <2>4. /\ res'[r] = NoResource /\ ~NoResource.finalizer /\ NoResource.phase = "absent"
        /\ podTask'[r].pc = "idle"
    BY <1>1, <2>3 DEF TypeOK, ClusterTypeOK, PodControllerTypeOK, NoResource, Proceed, IdlePod
  <2>5. PhaseInv(r)' /\ PodCacheInv(r)' /\ PodTaskInv(r)' /\ ChoiceInv(r)' /\ DetachInv(r)'
    BY <1>1, <2>1, <2>4
    DEF OnePodInv, PhaseInv, PodCacheInv, PodTaskInv, ChoiceInv, DetachInv, PodApplying,
        PodAttaching, PodDetaching, PodCleaningUp
  <2>6. ClaimsInv(r)' /\ AutoInv(r)'
    BY <1>1, <2>1 DEF OnePodInv, ClaimsInv, AutoInv
  <2> QED BY <1>1, <2>3, <2>5, <2>6, PodChanges DEF OnePodInv
<1> QED BY <1>2, <1>3

-----------------------------------------------------------------------------
(* The reconciler and the environment.                                     *)

\* What cleanup knows of Eips and addresses has nothing to do with the pod itself.
LEMMA DetachKept ==
  ASSUME NEW r \in Resource, DetachInv(r), podTask'[r] = podTask[r],
         UNCHANGED <<eip, status, seen, owner, allocated, attached>>
  PROVE  DetachInv(r)'
BY DEF DetachInv, PodDetaching

\* The watch.
LEMMA PodWatchPods ==
  ASSUME Around, NEW r \in Resource, PodWatch(r), UNCHANGED worker
  PROVE  PodInv'
<1> USE DEF Around, PodInv
<1>1. UNCHANGED <<eip, status, seen, owner, allocated, attached, res, podTask>>
  BY DEF PodWatch, eipVars, awsVars
<1>2. /\ cachedPod'[r] = res[r]
      /\ \A q \in Resource : q # r => cachedPod'[q] = cachedPod[q]
  BY DEF PodWatch, TypeOK, PodControllerTypeOK
<1>3. EipGentle
  BY <1>1, StaleGentle
<1>4. ASSUME NEW q \in Resource, q # r PROVE Spared(q)
  BY <1>1, <1>3, <1>4, GentleSpares DEF EipGentle
<1>5. PhaseInv(r)' /\ PodCacheInv(r)' /\ AutoInv(r)'
  BY <1>1, <1>2 DEF OnePodInv, PhaseInv, PodCacheInv, AutoInv
<1>6. PodTaskInv(r)'
  BY <1>1, <1>2
  DEF OnePodInv, PodTaskInv, PodApplying, PodAttaching, PodCleaningUp, PodDetaching
<1>7. ChoiceInv(r)'
  <2>1. owner[podTask[r].alloc] \in usedUid => owner[podTask[r].alloc] \in usedUid'
    BY DEF History
  <2> QED BY <1>1, <2>1 DEF OnePodInv, ChoiceInv, PodAttaching
<1>8. ClaimsInv(r)'
  BY <1>1 DEF OnePodInv, ClaimsInv, PodCleaningUp, PodDetaching
<1>9. DetachInv(r)'
  BY <1>1, DetachKept DEF OnePodInv
<1>10. AttachedInv'
  BY <1>1 DEF AttachedInv
<1> QED BY <1>1, <1>2, <1>4, <1>5, <1>6, <1>7, <1>8, <1>9, <1>10, OthersKept DEF OnePodInv

\* The finalizer is put on a pod that has no claim.
LEMMA PodAddFinalizerPods ==
  ASSUME Around, NEW r \in Resource, PodAddFinalizer(r), UNCHANGED worker
  PROVE  PodInv'
<1> USE DEF Around, PodInv
<1> DEFINE obj == [res[r] EXCEPT !.finalizer = TRUE]
<1>1. /\ podTask[r].pc = "idle"
      /\ cachedPod[r].phase = "live" /\ ~cachedPod[r].finalizer
      /\ res[r].phase = "live" /\ ~res[r].finalizer
      /\ res' = [res EXCEPT ![r] = obj]
      /\ UNCHANGED <<eip, status, seen, owner, allocated, attached, cachedPod, podTask>>
  BY DEF PodAddFinalizer, PodReady, PutResource, eipVars, awsVars
<1>2. obj.phase = "live" /\ obj.finalizer /\ obj.matches = res[r].matches /\ obj.port = res[r].port
  BY <1>1 DEF TypeOK, ClusterTypeOK, ResourceObject
<1>3. res'[r] = obj
  BY <1>1 DEF TypeOK, ClusterTypeOK
<1> HIDE DEF obj
<1>4. PhaseInv(r)' /\ PodCacheInv(r)' /\ AutoInv(r)'
  BY <1>1, <1>2, <1>3 DEF OnePodInv, PhaseInv, PodCacheInv, AutoInv
<1>5. PodTaskInv(r)' /\ ChoiceInv(r)' /\ ClaimsInv(r)' /\ DetachInv(r)'
  BY <1>1, <1>2, <1>3
  DEF OnePodInv, PodTaskInv, ChoiceInv, ClaimsInv, DetachInv, PodApplying, PodAttaching,
      PodCleaningUp, PodDetaching
<1> QED BY <1>1, <1>4, <1>5, PodChanges DEF OnePodInv

\* A new Eip has no claim and no address.
LEMMA CreateGentle ==
  ASSUME TypeOK, NEW e, CreateEip(e)
  PROVE  /\ Gentle
         /\ \A q \in Resource : CopiesAge(q)
         /\ \A f \in Eip : f # e => eip'[f] = eip[f]
         /\ \A f \in Eip : seen'[f] \subseteq seen[f]
         /\ UNCHANGED <<status, owner, allocated, attached>>
BY DEF CreateEip, Gentle, Stays, Loosens, CopiesAge, TypeOK, ClusterTypeOK, resVars, awsVars

\* The pod that is applied is guarded, and so may have its Eip.
LEMMA PodApplyPods ==
  ASSUME Around, NEW r \in Resource, PodApply(r), UNCHANGED worker
  PROVE  PodInv'
<1> USE DEF Around, PodInv
<1>a. podTask \in [Resource -> PodTask] /\ eip \in [Eip -> EipMeta] /\ None \notin Eip
  BY ClusterAssumption DEF TypeOK, ClusterTypeOK, PodControllerTypeOK
<1> DEFINE t == [IdlePod EXCEPT !.pc = "list", !.port = cachedPod[r].port]
<1>1. /\ podTask[r].pc = "idle"
      /\ cachedPod[r].phase = "live" /\ cachedPod[r].finalizer
      /\ UNCHANGED <<status, owner, allocated, attached, res, cachedPod>>
      /\ podTask' = podTask \/ Proceed(r, t)
  BY DEF PodApply, PodReady, create_for_pod, CreateEip, eipVars, resVars, awsVars
<1>2. t.pc = "list" /\ t.port = cachedPod[r].port
  BY DEF IdlePod
<1>3. podTask'[r] = podTask[r] \/ podTask'[r] = t
  BY <1>1, <1>a DEF Proceed
<1> HIDE DEF t
<1>4. res[r].finalizer /\ res[r].port = cachedPod[r].port
  BY <1>1 DEF OnePodInv, PodCacheInv
<1>5. /\ Gentle
      /\ \A q \in Resource : CopiesAge(q)
      /\ \A f \in Eip : f # AutoEip[r] => eip'[f] = eip[f]
      /\ \A f \in Eip : seen'[f] \subseteq seen[f]
  <2>1. CASE CreateEip(AutoEip[r])
    BY <2>1, CreateGentle
  <2>2. CASE UNCHANGED <<eipVars, resVars, awsVars>>
    BY <2>2, StaleGentle DEF eipVars, awsVars, EipGentle
  <2> QED BY <2>1, <2>2 DEF PodApply, create_for_pod
<1>6. ASSUME NEW q \in Resource, q # r PROVE Spared(q) /\ podTask'[q] = podTask[q]
  <2>1. AutoEip[q] \in Eip => AutoEip[q] # AutoEip[r]
    BY <1>a, <1>6, PodControllerAssumption
  <2> QED BY <1>1, <1>a, <1>5, <1>6, <2>1, GentleSpares DEF Proceed
<1>7. AttachedInv'
  BY <1>5, AttachedKept DEF Gentle
<1>8. PhaseInv(r)' /\ PodCacheInv(r)'
  BY <1>1 DEF OnePodInv, PhaseInv, PodCacheInv
<1>9. PodTaskInv(r)' /\ ChoiceInv(r)' /\ DetachInv(r)' /\ AutoInv(r)'
  BY <1>1, <1>2, <1>3, <1>4
  DEF OnePodInv, PodTaskInv, ChoiceInv, DetachInv, AutoInv, PodApplying, PodAttaching,
      PodCleaningUp, PodDetaching
<1>10. ClaimsInv(r)'
  BY <1>1, <1>2, <1>3 DEF OnePodInv, ClaimsInv, PodCleaningUp, PodDetaching
<1> QED BY <1>1, <1>5, <1>6, <1>7, <1>8, <1>9, <1>10, OthersKept DEF OnePodInv

\* Every step of the reconciliation of a pod.
LEMMA PodStepPods ==
  ASSUME Around, NEW r \in Resource, UNCHANGED eipCtlVars,
         PodStep(r, FreeAssocs) \/ PodFails(r) \/ PodResync(r)
  PROVE  PodInv'
<1>a. UNCHANGED worker
  BY DEF eipCtlVars
<1>1. CASE PodFails(r)
  BY <1>a, <1>1, PodRests DEF PodFails, PodEnd, resVars, awsVars
<1>2. CASE PodResync(r)
  BY <1>a, <1>2, PodRests DEF PodResync, eipVars, resVars, awsVars
<1>3. CASE PodAnnotate(r)
  BY <1>a, <1>3, PodRests DEF PodAnnotate, PodEnd, eipVars, awsVars
<1>4. ASSUME FreeAssocs # {}, PodAssociate(r, CHOOSE x \in FreeAssocs : TRUE) PROVE PodInv'
  <2>1. (CHOOSE x \in FreeAssocs : TRUE) \in AssocId
    BY <1>4 DEF FreeAssocs
  <2> QED BY <1>a, <1>4, <2>1, PodAssociatePods
<1> QED
  BY <1>a, <1>1, <1>2, <1>3, <1>4, PodWatchPods, PodAddFinalizerPods, PodApplyPods,
     PodCleanupPods, PodListPods, PodDescribePods, PodClaimPods, PodRecordPods,
     PodCleanupDescribePods, PodCleanupDisassociatePods, PodCleanupDetachPods,
     PodDeleteEipPods, PodRemoveFinalizerPods
  DEF PodStep, PodStart, PodProgress

\* Pods come, start and go.
LEMMA PodLifePods ==
  ASSUME Around, NEW r \in Resource, PodCreated(r) \/ PodStarts(r) \/ PodDeleted(r)
  PROVE  PodInv'
<1> USE DEF Around, PodInv, ctlVars, eipCtlVars, podCtlVars, eipVars, awsVars
<1>a. res \in [Resource -> ResourceObject] /\ res[r] \in ResourceObject
  BY DEF TypeOK, ClusterTypeOK
<1>b. UNCHANGED <<eip, status, seen, owner, allocated, attached, cachedPod, podTask, worker>>
  BY DEF PodCreated, PodStarts, PodDeleted, CreateResource, ChangeReady, DeleteResource,
         PutResource
<1>c. owner[podTask[r].alloc] \in usedUid => owner[podTask[r].alloc] \in usedUid'
  BY DEF History
<1>1. CASE PodCreated(r)
  <2>1. PICK p \in Ports[r], es \in Labels[r] :
          PutResource(r, [phase |-> "live", finalizer |-> FALSE, ready |-> FALSE,
                          matches |-> es, port |-> p])
    BY <1>1 DEF PodCreated, CreateResource
  <2> DEFINE obj == [phase |-> "live", finalizer |-> FALSE, ready |-> FALSE,
                     matches |-> es, port |-> p]
  <2>2. obj.phase = "live" /\ ~obj.finalizer /\ obj.matches \in Labels[r]
    OBVIOUS
  <2>3. res' = [res EXCEPT ![r] = obj] /\ res'[r] = obj
    BY <1>a, <2>1 DEF PutResource
  <2>4. ~res[r].finalizer
    BY <1>1 DEF PodCreated, CreateResource, OnePodInv, PhaseInv, NoResource
  <2> HIDE DEF obj
  <2>5. PhaseInv(r)' /\ PodCacheInv(r)' /\ AutoInv(r)'
    BY <1>b, <2>2, <2>3, <2>4 DEF OnePodInv, PhaseInv, PodCacheInv, AutoInv
  <2>6. PodTaskInv(r)' /\ ChoiceInv(r)' /\ ClaimsInv(r)' /\ DetachInv(r)'
    BY <1>b, <2>2, <2>3, <2>4
    DEF OnePodInv, PodTaskInv, ChoiceInv, ClaimsInv, DetachInv, PodApplying, PodCleaningUp,
        PodAttaching, PodDetaching
  <2> QED BY <1>b, <2>3, <2>5, <2>6, PodChanges DEF OnePodInv
<1>2. CASE PodStarts(r)
  <2> DEFINE obj == [res[r] EXCEPT !.ready = ~@]
  <2>1. obj.phase = res[r].phase /\ obj.finalizer = res[r].finalizer
        /\ obj.matches = res[r].matches /\ obj.port = res[r].port
    BY <1>a DEF ResourceObject
  <2>2. res' = [res EXCEPT ![r] = obj] /\ res'[r] = obj /\ res[r].phase # "absent"
    BY <1>2, <1>a DEF PodStarts, ChangeReady, PutResource
  <2> HIDE DEF obj
  <2>3. PhaseInv(r)' /\ PodCacheInv(r)' /\ AutoInv(r)'
    BY <1>b, <2>1, <2>2 DEF OnePodInv, PhaseInv, PodCacheInv, AutoInv
  <2>4. PodTaskInv(r)' /\ ClaimsInv(r)'
    BY <1>b, <2>1, <2>2
    DEF OnePodInv, PodTaskInv, ClaimsInv, PodApplying, PodCleaningUp, PodAttaching, PodDetaching
  <2>5. ChoiceInv(r)'
    <3>1. PodAttaching(r) => res'[r].matches = res[r].matches
      BY <2>1, <2>2 DEF OnePodInv, PodTaskInv, PodApplying
    <3> QED BY <1>b, <1>c, <3>1 DEF OnePodInv, ChoiceInv, PodAttaching
  <2>6. DetachInv(r)'
    BY <1>b, DetachKept DEF OnePodInv
  <2> QED BY <1>b, <2>2, <2>3, <2>4, <2>5, <2>6, PodChanges DEF OnePodInv
<1>3. CASE PodDeleted(r)
  <2> DEFINE obj == IF res[r].finalizer THEN [res[r] EXCEPT !.phase = "deleting"]
                                        ELSE NoResource
  <2>1. /\ res' = [res EXCEPT ![r] = obj] /\ res'[r] = obj
        /\ res[r].phase = "live"
    BY <1>3, <1>a DEF PodDeleted, DeleteResource, PutResource
  <2>2. /\ res[r].finalizer =>
             /\ obj.phase = "deleting" /\ obj.finalizer
             /\ obj.matches = res[r].matches /\ obj.port = res[r].port
        /\ ~res[r].finalizer => obj = NoResource /\ ~obj.finalizer /\ obj.phase = "absent"
    BY <1>a DEF ResourceObject, NoResource
  <2> HIDE DEF obj
  <2>3. PhaseInv(r)' /\ PodCacheInv(r)' /\ AutoInv(r)'
    BY <1>b, <2>1, <2>2 DEF OnePodInv, PhaseInv, PodCacheInv, AutoInv
  <2>4. PodTaskInv(r)' /\ ClaimsInv(r)'
    BY <1>b, <2>1, <2>2
    DEF OnePodInv, PodTaskInv, ClaimsInv, PodApplying, PodCleaningUp, PodAttaching, PodDetaching
  <2>5. ChoiceInv(r)'
    <3>1. PodAttaching(r) => res'[r].matches = res[r].matches
      BY <2>1, <2>2 DEF OnePodInv, PodTaskInv, PodApplying
    <3> QED BY <1>b, <1>c, <3>1 DEF OnePodInv, ChoiceInv, PodAttaching
  <2>6. DetachInv(r)'
    BY <1>b, DetachKept DEF OnePodInv
  <2> QED BY <1>b, <2>1, <2>3, <2>4, <2>5, <2>6, PodChanges DEF OnePodInv
<1> QED BY <1>1, <1>2, <1>3

\* Whatever users, pods and network interfaces do.
LEMMA EnvironmentPods == ASSUME Around, Environment PROVE PodInv'
<1> USE DEF ctlVars, eipCtlVars, podCtlVars, Around
<1>1. ASSUME NEW e \in Eip, UserCreates(e) PROVE PodInv'
  <2>1. /\ Gentle
        /\ \A q \in Resource : CopiesAge(q)
        /\ \A f \in Eip : f # e => eip'[f] = eip[f]
        /\ \A f \in Eip : seen'[f] \subseteq seen[f]
        /\ UNCHANGED <<res, cachedPod, podTask, worker>>
        /\ e \in UserEips
    BY <1>1, CreateGentle DEF UserCreates, CreateEip, resVars
  <2>2. ASSUME NEW q \in Resource PROVE OnePodInv(q)'
    BY <2>1, GentleSpares, SparedPod DEF PodInv
  <2>3. AttachedInv' /\ WorkerPodInv'
    BY <2>1, AttachedKept DEF Gentle, WorkerPodInv, PodInv
  <2> QED BY <2>2, <2>3 DEF PodInv
<1>2. ASSUME NEW e \in Eip, UserDeletes(e) PROVE PodInv'
  BY <1>2, DeleteGentle, GentlePods DEF UserDeletes, DeleteEip, resVars
<1>3. ASSUME NEW r \in Resource, InterfaceGone(r) PROVE PodInv'
  <2>1. UNCHANGED <<eip, status, seen, owner, allocated, res, cachedPod, podTask, worker>>
    BY <1>3 DEF InterfaceGone, eipVars, resVars
  <2>2. \A a \in AllocId : Loosens(a)
    BY <1>3 DEF InterfaceGone, Loosens, NoAttachment
  <2>3. EipGentle
    BY <2>1, <2>2 DEF EipGentle, Gentle, Stays, CopiesAge
  <2> QED BY <2>1, <2>3, GentlePods
<1> QED BY <1>1, <1>2, <1>3, PodLifePods DEF Environment

\* A new operator has no copies and nothing in hand.
LEMMA CrashPods == ASSUME Around, Crash PROVE PodInv'
<1> USE DEF Around, PodInv
<1>1. /\ UNCHANGED <<eip, status, owner, allocated, attached, res>>
      /\ cachedPod' = res
      /\ \A r \in Resource : podTask'[r] = IdlePod
      /\ \A e \in Eip : worker'[e] = IdleWorker
  BY DEF Crash, awsVars, PodControllerRestart, EipControllerRestart
<1>2. ASSUME NEW r \in Resource PROVE OnePodInv(r)'
  BY <1>1
  DEF OnePodInv, PhaseInv, PodCacheInv, PodTaskInv, ChoiceInv, ClaimsInv, DetachInv, AutoInv,
      PodApplying, PodAttaching, PodCleaningUp, PodDetaching, IdlePod
<1>3. WorkerPodInv'
  BY <1>1 DEF WorkerPodInv, IdleWorker
<1>4. AttachedInv'
  BY <1>1 DEF AttachedInv
<1> QED BY <1>2, <1>3, <1>4

\* At first there is nothing.
LEMMA InitPods == ASSUME Init PROVE PodInv
<1>1. ASSUME NEW r \in Resource PROVE OnePodInv(r)
  BY ClusterAssumption
  DEF Init, ClusterInit, PodControllerInit, OnePodInv, PhaseInv, PodCacheInv, PodTaskInv,
      ChoiceInv, ClaimsInv, DetachInv, AutoInv, PodApplying, PodAttaching, PodCleaningUp,
      PodDetaching, IdlePod, NoEip, NoStatus, NoResource
<1>2. WorkerPodInv
  BY DEF Init, EipControllerInit, WorkerPodInv, IdleWorker
<1>3. AttachedInv
  BY DEF Init, ClusterInit, AttachedInv, NoAttachment
<1> QED BY <1>1, <1>2, <1>3 DEF PodInv

-----------------------------------------------------------------------------
(* The theorems.                                                           *)

\* No step gives an old uid or an old tag to anything.
LEMMA NextHistory == ASSUME TypeOK, AddressInv, [Next]_vars PROVE History
<1>1. ASSUME NEW e \in Eip, EipStep(e) \/ EipFault(e) \/ EipResync(e) PROVE History
  BY <1>1, CoreTypes, EipControllerHistory
<1>2. Quiet \/ (\E e \in Eip : CreateEip(e) \/ DeleteEip(e)) => History
  BY CoreTypes, QuietHistory, CreationHistory DEF Quiet
<1>3. ASSUME NEW r \in Resource, UNCHANGED eipCtlVars,
             PodStep(r, FreeAssocs) \/ PodFails(r) \/ PodResync(r)
      PROVE  History
  BY <1>2, <1>3, PodControllerQuiet
<1>4. CASE Control \/ Resync \/ CallFails
  BY <1>1, <1>3, <1>4 DEF Control, EipControl, PodControl, Resync, CallFails, EipFault
<1>5. CASE Environment
  BY <1>2, <1>5, EnvironmentQuiet
<1>6. CASE Crash \/ UNCHANGED vars
  BY <1>6, QuietHistory DEF Crash, vars, eipVars, awsVars
<1> QED BY <1>4, <1>5, <1>6 DEF Next

\* No step breaks what is said of pods, their claims and their associations.
LEMMA NextPods ==
  ASSUME TypeOK, TypeOK', AddressInv, AddressInv', PodInv, [Next]_vars
  PROVE  PodInv'
<1>1. Around
  BY NextHistory DEF Around
<1>2. CASE Control \/ Resync \/ CallFails
  <2>1. ASSUME NEW e \in Eip, UNCHANGED podCtlVars, EipStep(e) \/ EipFault(e) \/ EipResync(e)
        PROVE  PodInv'
    BY <1>1, <2>1, EipStepPods
  <2>2. ASSUME NEW r \in Resource, UNCHANGED eipCtlVars,
               PodStep(r, FreeAssocs) \/ PodFails(r) \/ PodResync(r)
        PROVE  PodInv'
    BY <1>1, <2>2, PodStepPods
  <2> QED BY <1>2, <2>1, <2>2 DEF Control, EipControl, PodControl, Resync, CallFails, EipFault
<1>3. CASE UNCHANGED vars
  <2>1. UNCHANGED <<eip, status, seen, owner, allocated, attached, res, cachedPod, podTask, worker>>
    BY <1>3 DEF vars, eipVars, resVars, awsVars, eipCtlVars, podCtlVars
  <2>2. EipGentle
    BY <2>1, StaleGentle
  <2> QED BY <1>1, <2>1, <2>2, GentlePods
<1> QED BY <1>1, <1>2, <1>3, EnvironmentPods, CrashPods DEF Next

\* The inductive invariant of pods, claims and associations holds through every step
\* of both controllers, every failing call, every crash, and pods that come again.
THEOREM PodsSafe == Spec => []PodInv
<1>1. TypeOK /\ TypeOK' /\ AddressInv /\ AddressInv' /\ PodInv /\ [Next]_vars => PodInv'
  BY NextPods
<1>2. Init => PodInv
  BY InitPods
<1> QED BY PodTypeCorrect, PodAddressesSafe, <1>1, <1>2, PTL DEF Spec

\* An address that is associated is claimed, in the status of its own Eip, by the pod
\* whose port it is on, and that pod will run cleanup before it goes
\* (controller/pod.rs, apply: the status is set before the address is associated).
THEOREM AssociationsAreClaimed == Spec => []AttachmentIsClaimed
<1>1. TypeOK /\ PodInv => AttachmentIsClaimed
  <2> SUFFICES ASSUME TypeOK, PodInv, NEW a \in allocated, attached[a].port # None
               PROVE  \E e \in Eip, r \in Resource :
                        /\ eip[e].uid = owner[a]
                        /\ status[e].resource = r
                        /\ res[r].finalizer
                        /\ res[r].port = attached[a].port
    BY DEF AttachmentIsClaimed
  <2>1. PICK e \in Eip : /\ eip[e].uid = owner[a]
                         /\ status[e].resource # None
                         /\ status[e].port = attached[a].port
    BY DEF PodInv, AttachedInv, TypeOK, ClusterTypeOK
  <2>2. status[e].resource \in Resource
    BY <2>1 DEF TypeOK, ClusterTypeOK, EipStatus
  <2> QED BY <2>1, <2>2 DEF PodInv, OnePodInv, ClaimsInv
<1> QED BY PodTypeCorrect, PodsSafe, <1>1, PTL

\* No claim outlives the pod, though a pod comes back under its name with another port
\* (controller/pod.rs, cleanup).
THEOREM ClaimsOutliveNoPod == Spec => []ClaimsNamePods
<1>1. PodInv => ClaimsNamePods
  BY DEF PodInv, OnePodInv, ClaimsInv, ClaimsNamePods
<1> QED BY PodsSafe, <1>1, PTL

\* The Eip that was made for a pod is never left alive without it (controller/pod.rs,
\* cleanup: eip::delete before the finalizer is taken off).
THEOREM AutoEipsGoWithPods == Spec => []AutoEipGoesWithPod
<1>1. PodInv => AutoEipGoesWithPod
  BY DEF PodInv, OnePodInv, AutoInv, AutoEipGoesWithPod
<1> QED BY PodsSafe, <1>1, PTL
=============================================================================
