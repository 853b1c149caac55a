------------------------- MODULE NodeOperatorClaims ------------------------
(***************************************************************************)
(* Proofs about claims: that a claim is given up before another node takes *)
(* it, whatever number of nodes is reconciled at a time, since a node that *)
(* claims an Eip with a current copy still sees what it saw when it chose  *)
(* the Eip; that no claim outlives its node; that no address is taken from *)
(* the node that has the claim; and that, while no call fails, the status  *)
(* of a claimed Eip knows the association of its address.                  *)
(***************************************************************************)
EXTENDS NodeOperatorAddresses, FiniteSetTheorems

Choosing(n) == task[n].pc \in {"describe", "claim"}

\* A node that is about to claim an Eip has read, if its copy is current, that
\* nobody else has it.
ClaimInv ==
  \A n \in Resource : Choosing(n) =>
    /\ task[n].eip \in Eip
    /\ n \in seen[task[n].eip] => status[task[n].eip].resource \in {None, n}

\* What every step does to a claim but the claim itself.
Yields ==
  \A e \in Eip :
    \/ status'[e].resource = None
    \/ /\ status'[e].resource = status[e].resource
       /\ status[e].present => status'[e].present

\* The copies of node n get no better.
CopiesAge(n) ==
  \A e \in Eip : n \in seen'[e] => n \in seen[e] /\ status'[e] = status[e]

-----------------------------------------------------------------------------
\* A write that is no claim ages every copy and yields.
LEMMA StoreYields ==
  ASSUME TypeOK, NEW e, NEW s, NEW done, Store(e, s, done),
         e \in Eip => \/ s.resource = None
                      \/ /\ s.resource = status[e].resource
                         /\ s.present
  PROVE  Yields /\ \A n \in Resource : CopiesAge(n)
BY DEF Store, Yields, CopiesAge, TypeOK, ClusterTypeOK

LEMMA DetachYields ==
  ASSUME TypeOK, NEW e, NEW s, NEW done, Store(e, s, done),
         e \in Eip => s.resource = None
  PROVE  Yields /\ \A n \in Resource : CopiesAge(n)
BY DEF Store, Yields, CopiesAge, TypeOK, ClusterTypeOK

\* So does a step that writes no status and lets nodes read nothing.
LEMMA StaleYields ==
  ASSUME UNCHANGED status,
         \A e \in Eip, n \in Resource : n \in seen'[e] => n \in seen[e]
  PROVE  Yields /\ \A n \in Resource : CopiesAge(n)
BY DEF Yields, CopiesAge

\* What the functions of eip.rs do to the resource of a status.
LEMMA StatusYields ==
  ASSUME NEW s \in EipStatus
  PROVE  /\ \A a : StatusCreated(s, a).resource = s.resource /\ StatusCreated(s, a).present
         /\ \A x : /\ StatusAssociationId(s, x).resource = s.resource
                  /\ StatusAssociationId(s, x).present
         /\ StatusDetached(s).resource = None
BY DEF EipStatus, StatusCreated, StatusAssociationId, StatusDetached

\* No step of the reconciliation of an Eip makes a claim.
LEMMA EipControllerYields ==
  ASSUME TypeOK, NEW e \in Eip, EipStep(e) \/ EipFault(e) \/ EipResync(e)
  PROVE  Yields /\ \A n \in Resource : CopiesAge(n)
<1> USE DEF eipVars
<1>a. /\ status[e] \in EipStatus
      /\ worker[e].copy \in EipStatus
      /\ seen \in [Eip -> SUBSET Holder]
  BY DEF TypeOK, ClusterTypeOK, EipControllerTypeOK, Worker
<1>b. e \notin Resource /\ "cache" \notin Resource
  BY ClusterAssumption
<1>1. CASE EipWatch(e)
  BY <1>1, <1>b, StaleYields DEF EipWatch, Read
<1>2. CASE EipApply(e)
  BY <1>2, <1>b, StaleYields DEF EipApply, Read
<1>3. CASE EipAddFinalizer(e)
  BY <1>3, <1>a, StaleYields DEF EipAddFinalizer
<1>4. CASE EipResync(e) \/ EipAllocate(e) \/ EipDisassociate(e) \/ EipCleanup(e)
           \/ EipCleanupDisassociate(e) \/ EipCleanupRelease(e)
           \/ \E done : EipRefresh(e, done)
  BY <1>4, StaleYields
  DEF EipResync, EipAllocate, EipDisassociate, EipCleanup, EipCleanupDisassociate,
      EipCleanupRelease, EipRefresh
<1>5. CASE EipFails(e)
  BY <1>5, <1>a, StaleYields DEF EipFails, Forget
<1>6. CASE EipSetStatusCreated(e)
  BY <1>6, <1>a, StatusYields, StoreYields, StaleYields DEF EipSetStatusCreated, Forget
<1>7. CASE EipListResources(e)
  BY <1>7, <1>a, StaleYields DEF EipListResources, Forget
<1>8. CASE EipSetStatusDetached(e)
  BY <1>8, <1>a, StatusYields, DetachYields, StaleYields DEF EipSetStatusDetached, Forget
<1>9. CASE EipRemoveFinalizer(e)
  <2>1. \/ UNCHANGED <<status, seen>>
        \/ /\ status' = [status EXCEPT ![e] = IF eip[e].phase = "deleting" THEN NoStatus ELSE @]
           /\ seen' = [seen EXCEPT ![e] = {}]
    BY <1>9 DEF EipRemoveFinalizer
  <2>2. status \in [Eip -> EipStatus] /\ NoStatus.resource = None
    BY DEF TypeOK, ClusterTypeOK, NoStatus
  <2> QED BY <1>a, <2>1, <2>2 DEF Yields, CopiesAge
<1> QED
  BY <1>1, <1>2, <1>3, <1>4, <1>5, <1>6, <1>7, <1>8, <1>9
  DEF EipStep, EipStart, EipProgress, EipFault, EipRefreshFails

\* Nor does anything of the environment, or a crash.
LEMMA EnvironmentYields ==
  ASSUME TypeOK, Environment \/ Crash
  PROVE  /\ Yields
         /\ \A n \in Resource : CopiesAge(n)
         /\ task' = task \/ \A n \in Resource : ~Choosing(n)'
<1> USE DEF eipVars, nodeCtlVars, ctlVars
<1>1. ASSUME NEW e \in Eip, UserCreates(e)
      PROVE  Yields /\ (\A n \in Resource : CopiesAge(n)) /\ task' = task
  BY <1>1, StaleYields DEF UserCreates, CreateEip, TypeOK, ClusterTypeOK
<1>2. ASSUME NEW e \in Eip, UserDeletes(e)
      PROVE  Yields /\ (\A n \in Resource : CopiesAge(n)) /\ task' = task
  BY <1>2 DEF UserDeletes, DeleteEip, NoStatus, Yields, CopiesAge, TypeOK, ClusterTypeOK
<1>3. ASSUME NEW n \in Resource,
             NodeJoins(n) \/ NodeBecomes(n) \/ NodeRelabelled(n) \/ NodeLeaves(n)
      PROVE  Yields /\ (\A m \in Resource : CopiesAge(m)) /\ task' = task
  BY <1>3, StaleYields
  DEF NodeJoins, NodeBecomes, NodeRelabelled, NodeLeaves, CreateResource, ChangeReady,
      Relabel, DeleteResource, PutResource
<1>4. ASSUME NEW p \in Port, InterfaceGone(p)
      PROVE  Yields /\ (\A n \in Resource : CopiesAge(n)) /\ task' = task
  BY <1>4, StaleYields DEF InterfaceGone, PortGone
<1>5. CASE Crash
  <2>1. Yields /\ \A n \in Resource : CopiesAge(n)
    BY <1>5, ClusterAssumption, StaleYields DEF Crash
  <2>2. \A n \in Resource : ~Choosing(n)'
    BY <1>5 DEF Crash, NodeControllerRestart, Choosing, IdleTask
  <2> QED BY <2>1, <2>2
<1> QED BY <1>1, <1>2, <1>3, <1>4, <1>5 DEF Environment

-----------------------------------------------------------------------------
\* A step that leaves the copies of the others and its own tasks alone, or ends.
LEMMA ClaimKept ==
  ASSUME ClaimInv, Yields, \A n \in Resource : CopiesAge(n),
         \A n \in Resource : Choosing(n)' => Choosing(n) /\ task'[n].eip = task[n].eip
  PROVE  ClaimInv'
BY DEF ClaimInv, CopiesAge

\* The task of n goes on without choosing an Eip.
LEMMA TaskMoves ==
  ASSUME TypeOK, NEW n \in Resource, NEW t, Continue(n, t),
         t.pc \notin {"describe", "claim"} \/ (Choosing(n) /\ t.eip = task[n].eip)
  PROVE  \A m \in Resource : Choosing(m)' => Choosing(m) /\ task'[m].eip = task[m].eip
BY DEF Continue, Choosing, TypeOK, NodeControllerTypeOK

\* The task of n ends.
LEMMA TaskEnds ==
  ASSUME TypeOK, NEW n \in Resource, NEW again, NodeEnd(n, again)
  PROVE  \A m \in Resource : Choosing(m)' => Choosing(m) /\ task'[m].eip = task[m].eip
<1>1. IdleTask.pc \notin {"describe", "claim"}
  BY DEF IdleTask
<1> QED BY <1>1, TaskMoves DEF NodeEnd

\* What a step of the reconciliation of n that makes no claim and no choice does.
Harmless ==
  /\ Yields
  /\ \A m \in Resource : CopiesAge(m)
  /\ \A m \in Resource : Choosing(m)' => Choosing(m) /\ task'[m].eip = task[m].eip

\* Every step of the reconciliation of a node but the list, the claim and the
\* list of cleanup.
LEMMA NodeControllerHarmless ==
  ASSUME TypeOK, NEW n \in Resource,
         \/ NodeWatch(n) \/ NodeResync(n) \/ NodeAddFinalizer(n) \/ NodeFails(n)
         \/ NodeRelease(n) \/ NodeDescribe(n) \/ NodeRecord(n)
         \/ \E x \in AssocId : NodeAssociate(n, x)
         \/ NodeCleanupDescribe(n) \/ NodeCleanupDisassociate(n) \/ NodeCleanupDetach(n)
         \/ NodeCleanupLabel(n) \/ NodeRemoveFinalizer(n)
  PROVE  Harmless
<1> USE DEF eipVars
<1>a. /\ \A e \in Eip : status[e] \in EipStatus
      /\ seen \in [Eip -> SUBSET Holder]
      /\ task[n] \in Task
  BY DEF TypeOK, ClusterTypeOK, NodeControllerTypeOK
<1>b. \A e : e \in Eip => /\ StatusDetached(status[e]).resource = None
                          /\ \A x :
                               /\ StatusAssociationId(status[e], x).resource = status[e].resource
                               /\ StatusAssociationId(status[e], x).present
  BY <1>a, StatusYields
<1>c. UNCHANGED status /\ seen' = Forget(n) => Yields /\ \A m \in Resource : CopiesAge(m)
  BY <1>a, StaleYields DEF Forget
<1>d. UNCHANGED <<status, seen>> => Yields /\ \A m \in Resource : CopiesAge(m)
  BY StaleYields
<1>e. \A pc \in {"associate", "record", "cleanup", "disassociate", "detach", "label",
                 "finalize"} : pc \notin {"describe", "claim"}
  OBVIOUS
<1>1. CASE NodeWatch(n) \/ NodeResync(n) \/ NodeAddFinalizer(n)
  BY <1>1, <1>d DEF NodeWatch, NodeResync, NodeAddFinalizer, PutResource, Harmless, Choosing
<1>2. CASE NodeFails(n)
  BY <1>2, <1>c, TaskEnds DEF NodeFails, Harmless
<1>3. CASE NodeRelease(n)
  <2>1. Yields /\ \A m \in Resource : CopiesAge(m)
    BY <1>3, <1>b, <1>c, DetachYields DEF NodeRelease
  <2> QED BY <1>3, <2>1, TaskEnds DEF NodeRelease, Harmless
<1>4. CASE NodeDescribe(n)
  <2> DEFINE t == [task[n] EXCEPT !.pc = "claim"]
  <2>1. /\ Choosing(n)
        /\ Continue(n, t) \/ \E again : NodeEnd(n, again)
    BY <1>4 DEF NodeDescribe, Choosing
  <2>2. t.eip = task[n].eip
    BY <1>a DEF Task
  <2> HIDE DEF t
  <2>3. Yields /\ \A m \in Resource : CopiesAge(m)
    BY <1>4, <1>c, <1>d DEF NodeDescribe
  <2>4. \A m \in Resource : Choosing(m)' => Choosing(m) /\ task'[m].eip = task[m].eip
    BY <2>1, <2>2, TaskMoves, TaskEnds
  <2> QED BY <2>3, <2>4 DEF Harmless
<1>5. CASE NodeRecord(n)
  <2>1. Yields /\ \A m \in Resource : CopiesAge(m)
    BY <1>5, <1>b, <1>d, StoreYields DEF NodeRecord
  <2> QED BY <1>5, <2>1, TaskEnds DEF NodeRecord, Harmless
<1>6. ASSUME NEW x \in AssocId, NodeAssociate(n, x) PROVE Harmless
  <2> DEFINE t == [IdleTask EXCEPT !.pc = "record", !.eip = task[n].eip, !.assoc = x]
  <2>1. t.pc = "record"
    BY DEF IdleTask
  <2> HIDE DEF t
  <2>2. Continue(n, t) \/ \E again : NodeEnd(n, again)
    BY <1>6 DEF NodeAssociate, t
  <2>3. Yields /\ \A m \in Resource : CopiesAge(m)
    BY <1>6, <1>d DEF NodeAssociate
  <2>4. \A m \in Resource : Choosing(m)' => Choosing(m) /\ task'[m].eip = task[m].eip
    BY <2>1, <2>2, TaskMoves, TaskEnds
  <2> QED BY <2>3, <2>4 DEF Harmless
<1>7. CASE NodeCleanupDescribe(n)
  <2>1. PICK t : \/ Continue(n, t) /\ t.pc \in {"detach", "disassociate"}
                 \/ \E again : NodeEnd(n, again)
    <3>1. \A e, x : \A pc \in {"detach", "disassociate"} :
            [task[n] EXCEPT !.eip = e, !.assoc = x, !.pc = pc].pc = pc
      BY <1>a DEF Task
    <3>2. \/ \E e, x : \E pc \in {"detach", "disassociate"} :
               Continue(n, [task[n] EXCEPT !.eip = e, !.assoc = x, !.pc = pc])
          \/ \E again : NodeEnd(n, again)
      BY <1>7 DEF NodeCleanupDescribe
    <3> QED BY <3>1, <3>2
  <2>2. Yields /\ \A m \in Resource : CopiesAge(m)
    BY <1>7, <1>c, <1>d DEF NodeCleanupDescribe
  <2>3. \A m \in Resource : Choosing(m)' => Choosing(m) /\ task'[m].eip = task[m].eip
    BY <2>1, TaskMoves, TaskEnds
  <2> QED BY <2>2, <2>3 DEF Harmless
<1>8. CASE NodeCleanupDisassociate(n)
  <2>1. [task[n] EXCEPT !.pc = "detach", !.assoc = None].pc = "detach"
    BY <1>a DEF Task
  <2>2. Yields /\ \A m \in Resource : CopiesAge(m)
    BY <1>8, <1>d DEF NodeCleanupDisassociate
  <2>3. \A m \in Resource : Choosing(m)' => Choosing(m) /\ task'[m].eip = task[m].eip
    BY <1>8, <2>1, TaskMoves DEF NodeCleanupDisassociate
  <2> QED BY <2>2, <2>3 DEF Harmless
<1>9. CASE NodeCleanupDetach(n)
  <2> DEFINE rest == {s \in task[n].todo : s[1] # task[n].eip}
             t == [IdleTask EXCEPT !.pc = CleanupStep(rest), !.todo = rest]
  <2>1. t.pc \in {"cleanup", "label"}
    <3> HIDE DEF rest
    <3> QED BY DEF IdleTask, CleanupStep
  <2>2. Continue(n, t) \/ \E again : NodeEnd(n, again)
    BY <1>9 DEF NodeCleanupDetach
  <2> HIDE DEF t
  <2>3. Yields /\ \A m \in Resource : CopiesAge(m)
    BY <1>9, <1>b, <1>c, DetachYields DEF NodeCleanupDetach
  <2>4. \A m \in Resource : Choosing(m)' => Choosing(m) /\ task'[m].eip = task[m].eip
    BY <2>1, <2>2, TaskMoves, TaskEnds
  <2> QED BY <2>3, <2>4 DEF Harmless
<1>10. CASE NodeCleanupLabel(n)
  <2>1. [IdleTask EXCEPT !.pc = "finalize"].pc = "finalize"
    BY DEF IdleTask
  <2>2. \A m \in Resource : Choosing(m)' => Choosing(m) /\ task'[m].eip = task[m].eip
    BY <1>10, <2>1, TaskMoves DEF NodeCleanupLabel
  <2> QED BY <1>10, <1>c, <2>2 DEF NodeCleanupLabel, Harmless
<1>11. CASE NodeRemoveFinalizer(n)
  <2>1. Yields /\ \A m \in Resource : CopiesAge(m)
    BY <1>11, <1>d DEF NodeRemoveFinalizer, PutResource
  <2> QED BY <1>11, <2>1, TaskEnds DEF NodeRemoveFinalizer, Harmless
<1> QED
  BY <1>1, <1>2, <1>3, <1>4, <1>5, <1>6, <1>7, <1>8, <1>9, <1>10, <1>11

\* The list: the node takes a free Eip with a current copy, or none.
LEMMA ApplyClaims ==
  ASSUME TypeOK, ClaimInv, NEW n \in Resource, NodeApply(n)
  PROVE  ClaimInv' /\ Yields
<1>1. UNCHANGED status
  BY DEF NodeApply
<1>2. Yields
  BY <1>1 DEF Yields
<1>3. /\ \A e \in Eip : status[e] \in EipStatus
      /\ seen \in [Eip -> SUBSET Holder]
      /\ task \in [Resource -> Task]
  BY DEF TypeOK, ClusterTypeOK, NodeControllerTypeOK
<1>4. CASE UNCHANGED <<seen, task>>
  BY <1>1, <1>2, <1>4 DEF ClaimInv, Choosing
<1>5. CASE \E e \in MatchedEips(n) :
             /\ Claimable(n, e)
             /\ seen' = Read({e}, n)
             /\ \/ Continue(n, [IdleTask EXCEPT !.pc = "describe", !.eip = e,
                                 !.port = cachedRes[n].port, !.alloc = status[e].alloc])
                \/ Continue(n, [IdleTask EXCEPT !.pc = "release", !.eip = e])
  <2>1. PICK e \in MatchedEips(n) :
          /\ Claimable(n, e) /\ seen' = Read({e}, n)
          /\ \E t : Continue(n, t) /\ t.eip = e
    <3> DEFINE describing(e) == [IdleTask EXCEPT !.pc = "describe", !.eip = e,
                                  !.port = cachedRes[n].port, !.alloc = status[e].alloc]
               releasing(e) == [IdleTask EXCEPT !.pc = "release", !.eip = e]
    <3>1. \A e : describing(e).eip = e /\ releasing(e).eip = e
      BY DEF IdleTask
    <3>2. PICK e \in MatchedEips(n) :
            /\ Claimable(n, e) /\ seen' = Read({e}, n)
            /\ Continue(n, describing(e)) \/ Continue(n, releasing(e))
      BY <1>5
    <3> HIDE DEF describing, releasing
    <3>3. \E t : Continue(n, t) /\ t.eip = e
      BY <3>1, <3>2
    <3> QED BY <3>2, <3>3
  <2>t. PICK t : Continue(n, t) /\ t.eip = e
    BY <2>1
  <2>2. e \in Eip /\ status[e].resource \in {None, n}
    BY <2>1, NodeControllerAssumption DEF MatchedEips, Claimable
  <2>3. /\ task'[n] = t
        /\ \A m \in Resource : m # n => task'[m] = task[m]
    BY <1>3, <2>t DEF Continue
  <2>4. \A m \in Resource, f \in Eip : m # n /\ m \in seen'[f] => m \in seen[f]
    BY <2>1 DEF Read
  <2>5. ASSUME NEW m \in Resource, Choosing(m)'
        PROVE  /\ task'[m].eip \in Eip
               /\ m \in seen'[task'[m].eip] => status'[task'[m].eip].resource \in {None, m}
    <3>1. CASE m = n
      BY <1>1, <2>t, <2>2, <2>3, <3>1
    <3>2. CASE m # n
      BY <1>1, <2>3, <2>4, <2>5, <3>2 DEF ClaimInv, Choosing
    <3> QED BY <3>1, <3>2
  <2> QED BY <1>2, <2>5 DEF ClaimInv
<1>6. \/ UNCHANGED <<seen, task>>
      \/ \E e \in MatchedEips(n) :
             /\ Claimable(n, e)
             /\ seen' = Read({e}, n)
             /\ \/ Continue(n, [IdleTask EXCEPT !.pc = "describe", !.eip = e,
                                 !.port = cachedRes[n].port, !.alloc = status[e].alloc])
                \/ Continue(n, [IdleTask EXCEPT !.pc = "release", !.eip = e])
  <2> DEFINE describe(e) == Continue(n, [IdleTask EXCEPT !.pc = "describe", !.eip = e,
                                 !.port = cachedRes[n].port, !.alloc = status[e].alloc])
             release(e) == Continue(n, [IdleTask EXCEPT !.pc = "release", !.eip = e])
  <2>1. \/ UNCHANGED <<seen, task>>
        \/ \E e \in MatchedEips(n) :
             /\ Claimable(n, e) /\ seen' = Read({e}, n) /\ (describe(e) \/ release(e))
    <3> HIDE DEF describe, release
    <3> QED BY DEF NodeApply, describe, release
  <2> QED BY <2>1
<1> QED BY <1>2, <1>4, <1>5, <1>6

\* The list of cleanup: the node chooses nothing any more.
LEMMA CleanupClaims ==
  ASSUME TypeOK, ClaimInv, NEW n \in Resource, NodeCleanup(n)
  PROVE  ClaimInv' /\ Yields
<1> DEFINE held == {e \in MatchedEips(n) : status[e].present /\ status[e].resource = n}
           todo == {<<e, status[e].alloc>> : e \in held}
           t == [IdleTask EXCEPT !.pc = CleanupStep(todo), !.todo = todo]
<1>1. Continue(n, t) /\ seen' = Read(held, n) /\ UNCHANGED status
  BY DEF NodeCleanup
<1>2. t.pc \in {"cleanup", "label"}
  <2> HIDE DEF todo
  <2> QED BY DEF IdleTask, CleanupStep
<1> HIDE DEF t, held
<1>3. /\ task'[n] = t
      /\ \A m \in Resource : m # n => task'[m] = task[m]
  BY <1>1 DEF Continue, TypeOK, NodeControllerTypeOK
<1>4. \A m \in Resource, f \in Eip : m # n /\ m \in seen'[f] => m \in seen[f]
  BY <1>1 DEF Read
<1>5. ~Choosing(n)'
  BY <1>2, <1>3 DEF Choosing
<1>6. \A m \in Resource : m # n => (Choosing(m)' <=> Choosing(m))
  BY <1>3 DEF Choosing
<1> QED BY <1>1, <1>3, <1>4, <1>5, <1>6 DEF ClaimInv, Yields

\* The claim: nobody has the Eip, or n itself, if the copy is current.
LEMMA ClaimClaims ==
  ASSUME TypeOK, ClaimInv, NEW n \in Resource, NodeClaim(n)
  PROVE  /\ ClaimInv'
         /\ \A e \in Eip : status'[e].resource \in {None, status[e].resource}
                           \/ status[e].resource = None
<1> DEFINE f == task[n].eip
           s == StatusShouldAttach(status[f], n, task[n].port)
           t == [task[n] EXCEPT !.pc = "associate"]
<1>1. /\ \A e \in Eip : status[e] \in EipStatus
      /\ status \in [Eip -> EipStatus]
      /\ seen \in [Eip -> SUBSET Holder]
      /\ task[n] \in Task
  BY DEF TypeOK, ClusterTypeOK, NodeControllerTypeOK
<1>2. CASE n \notin seen[f]
  <2>1. Yields /\ \A m \in Resource : CopiesAge(m)
    BY <1>1, <1>2, StaleYields DEF NodeClaim, Forget
  <2>2. \A m \in Resource : Choosing(m)' => Choosing(m) /\ task'[m].eip = task[m].eip
    BY <1>2, TaskEnds DEF NodeClaim
  <2> QED BY <2>1, <2>2, ClaimKept DEF Yields
<1>3. CASE n \in seen[f]
  <2>1. f \in Eip /\ status[f].resource \in {None, n}
    BY <1>3 DEF ClaimInv, Choosing, NodeClaim
  <2>2. s.resource = n
    BY <1>1, <2>1 DEF EipStatus, StatusShouldAttach
  <2>3. t.pc = "associate"
    BY <1>1 DEF Task
  <2>4. Store(f, s, {n}) /\ Continue(n, t)
    BY <1>3 DEF NodeClaim
  <2> HIDE DEF s, t, f
  <2>5. /\ status'[f] = s
        /\ \A e \in Eip : e # f => status'[e] = status[e]
        /\ \A m \in Resource : CopiesAge(m)
    BY <1>1, <2>1, <2>4 DEF Store, CopiesAge
  <2>6. \A m \in Resource : Choosing(m)' => Choosing(m) /\ task'[m].eip = task[m].eip
    BY <2>3, <2>4, TaskMoves
  <2>7. ClaimInv'
    BY <2>5, <2>6 DEF ClaimInv, CopiesAge
  <2> QED BY <2>1, <2>2, <2>5, <2>7
<1> QED BY <1>2, <1>3

-----------------------------------------------------------------------------
\* Every step keeps the invariant and takes no claim from anybody.
LEMMA NextClaims ==
  ASSUME TypeOK, ClaimInv, [Next]_vars
  PROVE  /\ ClaimInv'
         /\ \A e \in Eip : status'[e].resource \in {None, status[e].resource}
                           \/ status[e].resource = None
<1> DEFINE Good == /\ ClaimInv'
                   /\ \A e \in Eip : status'[e].resource \in {None, status[e].resource}
                                     \/ status[e].resource = None
<1> SUFFICES Good
  OBVIOUS
<1>1. ASSUME NEW e \in Eip, UNCHANGED nodeCtlVars,
             EipStep(e) \/ EipFault(e) \/ EipResync(e)
      PROVE  Good
  <2>1. Yields /\ \A n \in Resource : CopiesAge(n)
    BY <1>1, EipControllerYields
  <2>2. \A m \in Resource : Choosing(m)' => Choosing(m) /\ task'[m].eip = task[m].eip
    BY <1>1 DEF nodeCtlVars, Choosing
  <2> QED BY <2>1, <2>2, ClaimKept DEF Yields
<1>2. ASSUME NEW n \in Resource, NodeStep(n, FreeAssocs) \/ NodeFails(n) \/ NodeResync(n)
      PROVE  Good
  <2>1. \A x : x \in FreeAssocs => x \in AssocId
    BY DEF FreeAssocs
  <2>2. CASE Harmless
    BY <2>2, ClaimKept DEF Harmless, Yields
  <2>3. CASE NodeApply(n) \/ NodeCleanup(n)
    BY <2>3, ApplyClaims, CleanupClaims DEF Yields
  <2>4. CASE NodeClaim(n)
    BY <2>4, ClaimClaims
  <2> QED BY <1>2, <2>1, <2>2, <2>3, <2>4, NodeControllerHarmless
          DEF NodeStep, NodeStart, NodeProgress
<1>3. CASE Environment \/ Crash
  <2>1. /\ Yields /\ \A n \in Resource : CopiesAge(n)
        /\ task' = task \/ \A n \in Resource : ~Choosing(n)'
    BY <1>3, EnvironmentYields
  <2>2. \A m \in Resource : Choosing(m)' => Choosing(m) /\ task'[m].eip = task[m].eip
    BY <2>1 DEF Choosing
  <2> QED BY <2>1, <2>2, ClaimKept DEF Yields
<1>4. CASE UNCHANGED vars
  BY <1>4 DEF vars, eipVars, nodeCtlVars, ClaimInv, Choosing
<1>5. CASE Control \/ Resync \/ CallFails
  <2> HIDE DEF Good
  <2> QED BY <1>1, <1>2, <1>5 DEF Control, EipControl, NodeControl, Resync, CallFails, EipFault
<1> HIDE DEF Good
<1> QED BY <1>3, <1>4, <1>5 DEF Next

\* Nobody is choosing at first.
LEMMA InitClaims == Init => ClaimInv
BY DEF Init, NodeControllerInit, ClaimInv, Choosing, IdleTask

-----------------------------------------------------------------------------
(* The lock.                                                               *)

\* The status of one Eip at most is written.
OneWritten ==
  status' = status \/ \E e, s : status' = [status EXCEPT ![e] = s]

LEMMA StoreWritesOne ==
  ASSUME NEW e, NEW s, NEW done, Store(e, s, done)
  PROVE  OneWritten
BY DEF Store, OneWritten

LEMMA EipControllerWritesOne ==
  ASSUME NEW e \in Eip, EipStep(e) \/ EipFault(e) \/ EipResync(e)
  PROVE  OneWritten
<1> USE DEF eipVars
<1>1. CASE EipSetStatusCreated(e) \/ EipSetStatusDetached(e)
  BY <1>1, StoreWritesOne DEF EipSetStatusCreated, EipSetStatusDetached, OneWritten
<1>2. CASE EipRemoveFinalizer(e)
  BY <1>2 DEF EipRemoveFinalizer, OneWritten
<1>3. CASE ~(EipSetStatusCreated(e) \/ EipSetStatusDetached(e) \/ EipRemoveFinalizer(e))
  <2>1. status' = status
    BY <1>3
    DEF EipStep, EipStart, EipProgress, EipFault, EipRefreshFails, EipWatch, EipResync, EipAddFinalizer,
        EipApply, EipAllocate, EipListResources, EipDisassociate, EipRefresh, EipFails,
        EipCleanup, EipCleanupDisassociate, EipCleanupRelease
  <2> QED BY <2>1 DEF OneWritten
<1> QED BY <1>1, <1>2, <1>3

LEMMA NodeControllerWritesOne ==
  ASSUME NEW n \in Resource,
         NodeStep(n, FreeAssocs) \/ NodeFails(n) \/ NodeResync(n)
  PROVE  OneWritten
<1> USE DEF eipVars
<1>1. CASE NodeRelease(n)
  BY <1>1, StoreWritesOne DEF NodeRelease, OneWritten
<1>2. CASE NodeClaim(n)
  BY <1>2, StoreWritesOne DEF NodeClaim, OneWritten
<1>3. CASE NodeRecord(n)
  BY <1>3, StoreWritesOne DEF NodeRecord, OneWritten
<1>4. CASE NodeCleanupDetach(n)
  BY <1>4, StoreWritesOne DEF NodeCleanupDetach, OneWritten
<1>5. CASE ~(NodeRelease(n) \/ NodeClaim(n) \/ NodeRecord(n) \/ NodeCleanupDetach(n))
  <2>1. status' = status
    BY <1>5
    DEF NodeStep, NodeStart, NodeProgress, NodeWatch, NodeResync, NodeAddFinalizer,
        NodeFails, NodeApply, NodeDescribe, NodeAssociate, NodeCleanup,
        NodeCleanupDescribe, NodeCleanupDisassociate, NodeCleanupLabel,
        NodeRemoveFinalizer, PutResource
  <2> QED BY <2>1 DEF OneWritten
<1> QED BY <1>1, <1>2, <1>3, <1>4, <1>5

LEMMA NextWritesOne ==
  ASSUME Next
  PROVE  OneWritten
<1> USE DEF eipVars
<1>1. CASE Control \/ Resync \/ CallFails
  BY <1>1, EipControllerWritesOne, NodeControllerWritesOne
  DEF Control, EipControl, NodeControl, Resync, CallFails, EipFault
<1>2. CASE Crash
  BY <1>2 DEF Crash, OneWritten
<1>3. ASSUME NEW e \in Eip, UserCreates(e) \/ UserDeletes(e)
      PROVE  OneWritten
  BY <1>3 DEF UserCreates, CreateEip, UserDeletes, DeleteEip, OneWritten
<1>4. CASE Environment /\ ~\E e \in Eip : UserCreates(e) \/ UserDeletes(e)
  <2>1. status' = status
    BY <1>4
    DEF Environment, NodeJoins, NodeBecomes, NodeRelabelled, NodeLeaves, InterfaceGone,
        CreateResource, ChangeReady, Relabel, DeleteResource, PutResource, PortGone
  <2> QED BY <2>1 DEF OneWritten
<1> QED BY <1>1, <1>2, <1>3, <1>4 DEF Next

\* A write to one status that takes no claim from anybody is a step of the lock.
LEMMA WriteKeepsLock ==
  ASSUME TypeOK, TypeOK', OneWritten,
         \A e \in Eip : status'[e].resource \in {None, status[e].resource}
                        \/ status[e].resource = None
  PROVE  [Lock!Next]_([e \in Eip |-> status[e].resource])
<1> DEFINE claim == [e \in Eip |-> status[e].resource]
<1>1. \A e \in Eip : status[e].resource \in Resource \cup {None}
                     /\ status'[e].resource \in Resource \cup {None}
  BY DEF TypeOK, ClusterTypeOK, EipStatus
<1>2. CASE status' = status
  BY <1>2
<1>3. ASSUME NEW e, NEW s, e \notin Eip, status' = [status EXCEPT ![e] = s]
      PROVE  status' = status
  BY <1>3 DEF TypeOK, ClusterTypeOK
<1>4. ASSUME NEW e \in Eip, NEW s, status' = [status EXCEPT ![e] = s]
      PROVE  [Lock!Next]_claim
  <2>1. claim' = [claim EXCEPT ![e] = status'[e].resource]
    BY <1>4 DEF TypeOK, ClusterTypeOK
  <2>2. CASE status'[e].resource = status[e].resource
    <3>1. claim' = claim
      BY <2>1, <2>2
    <3> QED BY <3>1
  <2>3. CASE status'[e].resource # status[e].resource /\ status'[e].resource = None
    <3>1. Lock!Yield(e)
      BY <2>1, <2>3 DEF Lock!Yield
    <3> QED BY <3>1 DEF Lock!Next
  <2>4. CASE status'[e].resource # status[e].resource /\ status'[e].resource # None
    <3>1. PICK r \in Resource : r = status'[e].resource
      BY <1>1, <2>4
    <3>2. Lock!Take(e, r)
      BY <2>1, <2>4, <3>1 DEF Lock!Take
    <3> QED BY <3>2 DEF Lock!Next
  <2> QED BY <2>2, <2>3, <2>4
<1> QED BY <1>2, <1>3, <1>4 DEF OneWritten

LEMMA InitLock == Init => Lock!Init
BY DEF Init, ClusterInit, Lock!Init, NoStatus

\* The claims are a lock that is given up before another node takes it, for any
\* number of nodes that are reconciled at a time: the write of the claim carries
\* the version of the copy in which the Eip was free (controller/node.rs, apply;
\* eip.rs, set_status_should_attach).
THEOREM ClaimLockKept == Spec => KeepsClaimLock
<1>1. TypeOK /\ ClaimInv /\ [Next]_vars => ClaimInv'
  BY NextClaims
<1>2. TypeOK /\ TypeOK' /\ ClaimInv /\ [Next]_vars
      => [Lock!Next]_([e \in Eip |-> status[e].resource])
  <2>1. CASE UNCHANGED vars
    BY <2>1 DEF vars, eipVars
  <2> QED BY <2>1, NextClaims, NextWritesOne, WriteKeepsLock
<1> QED BY InitClaims, InitLock, TypeCorrect, <1>1, <1>2, PTL
        DEF Spec, KeepsClaimLock, Lock!Spec

-----------------------------------------------------------------------------
(* Nodes that leave.                                                       *)

\* A step of the reconciliation of an Eip, or of a user.
LEMMA QuietNodes ==
  ASSUME NodeInv, Yields, \A m \in Resource : CopiesAge(m), UNCHANGED <<res, cachedRes, task>>
  PROVE  NodeInv'
<1> USE DEF NodeInv
<1>1. NodesInv' /\ NodeCacheInv' /\ NodeTaskInv'
  BY DEF NodesInv, NodeCacheInv, NodeTaskInv, NodeApplying, NodeDetaching, NodeCleaningUp
<1>2. NodeChoiceInv'
  <2> SUFFICES ASSUME NEW n \in Resource, task[n].pc \in {"describe", "claim"}
               PROVE  /\ Listed(task[n].eip, n)
                      /\ n \in seen'[task[n].eip] => status'[task[n].eip].present
    BY DEF NodeChoiceInv, Listed
  <2>1. /\ Listed(task[n].eip, n)
        /\ n \in seen[task[n].eip] => status[task[n].eip].present
    BY DEF NodeChoiceInv
  <2>2. task[n].eip \in Eip
    BY <2>1, NodeControllerAssumption DEF Listed
  <2> QED BY <2>1, <2>2 DEF CopiesAge
<1>3. NodeClaimsInv'
  BY ClusterAssumption DEF NodeClaimsInv, NodeDetaching, NodeCleaningUp, Listed, Yields
<1> QED BY <1>1, <1>2, <1>3

\* A reconciliation goes on within apply or within cleanup, or ends.
LEMMA TaskNodes ==
  ASSUME TypeOK, NodeInv, Yields, \A m \in Resource : CopiesAge(m), UNCHANGED <<res, cachedRes>>,
         NEW n \in Resource, NEW t, Continue(n, t),
         t.pc \in {"describe", "claim"} => Choosing(n) /\ t.eip = task[n].eip,
         t.pc \in {"release", "describe", "claim", "associate", "record"} => NodeApplying(n),
         t.pc \in {"cleanup", "disassociate", "detach", "label", "finalize"} =>
           /\ NodeCleaningUp(n)
           /\ \A e \in Eip : status'[e].resource = n =>
                /\ t.pc \in {"cleanup", "disassociate", "detach"}
                /\ e \in {s[1] : s \in t.todo}
  PROVE  NodeInv'
<1>1. task'[n] = t /\ \A m \in Resource : m # n => task'[m] = task[m]
  BY DEF Continue, TypeOK, NodeControllerTypeOK
<1> USE DEF NodeInv
<1>2. NodesInv' /\ NodeCacheInv'
  BY DEF NodesInv, NodeCacheInv
<1>3. NodeTaskInv'
  BY <1>1 DEF NodeTaskInv, NodeApplying, NodeDetaching, NodeCleaningUp
<1>4. NodeChoiceInv'
  <2> SUFFICES ASSUME NEW m \in Resource, task'[m].pc \in {"describe", "claim"}
               PROVE  /\ Listed(task'[m].eip, m)
                      /\ m \in seen'[task'[m].eip] => status'[task'[m].eip].present
    BY DEF NodeChoiceInv, Listed
  <2>1. task[m].pc \in {"describe", "claim"} /\ task'[m].eip = task[m].eip
    BY <1>1 DEF Choosing
  <2>2. /\ Listed(task[m].eip, m)
        /\ m \in seen[task[m].eip] => status[task[m].eip].present
    BY <2>1 DEF NodeChoiceInv
  <2>3. task[m].eip \in Eip
    BY <2>2, NodeControllerAssumption DEF Listed
  <2> QED BY <2>1, <2>2, <2>3 DEF CopiesAge
<1>5. NodeClaimsInv'
  BY <1>1, ClusterAssumption DEF NodeClaimsInv, NodeDetaching, NodeCleaningUp, Yields, Listed
<1> QED BY <1>2, <1>3, <1>4, <1>5

\* A reconciliation ends.
LEMMA EndNodes ==
  ASSUME TypeOK, NodeInv, Yields, \A m \in Resource : CopiesAge(m), UNCHANGED <<res, cachedRes>>,
         NEW n \in Resource, NEW again, NodeEnd(n, again)
  PROVE  NodeInv'
BY TaskNodes DEF NodeEnd, IdleTask

\* A node is written by somebody else, or gets its finalizer.
LEMMA PutNodes ==
  ASSUME TypeOK, NodeInv, NEW n \in Resource, NEW obj, PutResource(n, obj),
         UNCHANGED <<cachedRes, task>>,
         obj.phase = "absent" => ~obj.finalizer,
         obj.phase = "deleting" => obj.finalizer,
         obj.phase # "absent" => obj.matches \in Labels[n],
         res[n].phase = "deleting" => obj.phase = "deleting",
         \/ obj.finalizer = res[n].finalizer
         \/ obj.finalizer /\ task[n].pc = "idle" /\ cachedRes[n].phase = "live"
  PROVE  NodeInv'
<1>1. /\ res'[n] = obj
      /\ \A m \in Resource : m # n => res'[m] = res[m]
      /\ UNCHANGED <<status, seen>>
  BY DEF PutResource, eipVars, TypeOK, ClusterTypeOK
<1> USE DEF NodeInv
<1>2. NodesInv'
  BY <1>1 DEF NodesInv
<1>3. NodeCacheInv'
  BY <1>1 DEF NodeCacheInv
<1>4. NodeTaskInv'
  BY <1>1 DEF NodeTaskInv, NodeApplying, NodeDetaching, NodeCleaningUp
<1>5. NodeChoiceInv'
  BY <1>1 DEF NodeChoiceInv, Listed
<1>6. NodeClaimsInv'
  BY <1>1 DEF NodeClaimsInv, NodeDetaching, NodeCleaningUp, Listed
<1> QED BY <1>2, <1>3, <1>4, <1>5, <1>6

\* The steps of the reconciliation of a node that make no claim and list nothing.
LEMMA ProgressNodes ==
  ASSUME TypeOK, NodeInv, NEW n \in Resource,
         \/ NodeFails(n) \/ NodeRelease(n) \/ NodeDescribe(n) \/ NodeRecord(n)
         \/ \E x \in AssocId : NodeAssociate(n, x)
         \/ NodeCleanupDescribe(n) \/ NodeCleanupDisassociate(n) \/ NodeCleanupDetach(n)
         \/ NodeCleanupLabel(n)
  PROVE  NodeInv'
<1>a. Yields /\ \A m \in Resource : CopiesAge(m)
  BY NodeControllerHarmless DEF Harmless
<1>b. task[n] \in Task
  BY DEF TypeOK, NodeControllerTypeOK
<1>c. \A e \in Eip : status'[e].resource = n =>
        /\ status[e].resource = n
        /\ NodeCleaningUp(n) => NodeDetaching(n) /\ e \in {s[1] : s \in task[n].todo}
  BY <1>a, ClusterAssumption DEF NodeInv, NodeClaimsInv, Yields
<1>1. CASE NodeFails(n) \/ NodeRelease(n) \/ NodeRecord(n)
  <2>1. UNCHANGED <<res, cachedRes>> /\ \E again : NodeEnd(n, again)
    BY <1>1 DEF NodeFails, NodeRelease, NodeRecord, resVars
  <2> QED BY <1>a, <2>1, EndNodes
<1>2. CASE NodeDescribe(n)
  <2> DEFINE t == [task[n] EXCEPT !.pc = "claim"]
  <2>1. /\ Choosing(n) /\ NodeApplying(n)
        /\ UNCHANGED <<res, cachedRes>>
        /\ Continue(n, t) \/ \E again : NodeEnd(n, again)
    BY <1>2 DEF NodeDescribe, Choosing, NodeApplying, resVars
  <2>2. t.pc = "claim" /\ t.eip = task[n].eip
    BY <1>b DEF Task
  <2> HIDE DEF t
  <2> QED BY <1>a, <2>1, <2>2, TaskNodes, EndNodes
<1>3. ASSUME NEW x \in AssocId, NodeAssociate(n, x) PROVE NodeInv'
  <2> DEFINE t == [IdleTask EXCEPT !.pc = "record", !.eip = task[n].eip, !.assoc = x]
  <2>1. /\ NodeApplying(n)
        /\ UNCHANGED <<res, cachedRes>>
        /\ Continue(n, t) \/ \E again : NodeEnd(n, again)
    BY <1>3 DEF NodeAssociate, NodeApplying, resVars
  <2>2. t.pc = "record"
    BY DEF IdleTask
  <2> HIDE DEF t
  <2> QED BY <1>a, <2>1, <2>2, TaskNodes, EndNodes
<1>4. CASE NodeCleanupDescribe(n)
  <2> DEFINE t(e, x, pc) == [task[n] EXCEPT !.eip = e, !.assoc = x, !.pc = pc]
  <2>1. /\ NodeCleaningUp(n)
        /\ UNCHANGED <<res, cachedRes>>
    BY <1>4 DEF NodeCleanupDescribe, NodeDetaching, NodeCleaningUp, resVars
  <2>2. \A e, x : \A pc \in {"detach", "disassociate"} :
          t(e, x, pc).pc = pc /\ t(e, x, pc).todo = task[n].todo
    BY <1>b DEF Task
  <2>3. \/ \E e, x : \E pc \in {"detach", "disassociate"} : Continue(n, t(e, x, pc))
        \/ \E again : NodeEnd(n, again)
    BY <1>4 DEF NodeCleanupDescribe
  <2> HIDE DEF t
  <2>4. ASSUME NEW e, NEW x, NEW pc \in {"detach", "disassociate"}, Continue(n, t(e, x, pc))
        PROVE  NodeInv'
    BY <1>a, <1>c, <2>1, <2>2, <2>4, TaskNodes
  <2> QED BY <1>a, <2>1, <2>3, <2>4, EndNodes
<1>5. CASE NodeCleanupDisassociate(n)
  <2> DEFINE t == [task[n] EXCEPT !.pc = "detach", !.assoc = None]
  <2>1. /\ NodeCleaningUp(n)
        /\ UNCHANGED <<res, cachedRes>>
        /\ Continue(n, t)
    BY <1>5 DEF NodeCleanupDisassociate, NodeDetaching, NodeCleaningUp, resVars
  <2>2. t.pc = "detach" /\ t.todo = task[n].todo
    BY <1>b DEF Task
  <2> HIDE DEF t
  <2> QED BY <1>a, <1>c, <2>1, <2>2, TaskNodes
<1>6. CASE NodeCleanupDetach(n)
  <2> DEFINE rest == {s \in task[n].todo : s[1] # task[n].eip}
             t == [IdleTask EXCEPT !.pc = CleanupStep(rest), !.todo = rest]
  <2>1. /\ NodeCleaningUp(n)
        /\ UNCHANGED <<res, cachedRes>>
        /\ Continue(n, t) \/ \E again : NodeEnd(n, again)
    BY <1>6 DEF NodeCleanupDetach, NodeDetaching, NodeCleaningUp, resVars
  <2>2. CASE \E again : NodeEnd(n, again)
    BY <1>a, <2>1, <2>2, EndNodes
  <2>3. CASE n \in seen[task[n].eip]
    <3>1. Store(task[n].eip, StatusDetached(status[task[n].eip]), {}) /\ Continue(n, t)
      BY <1>6, <2>3 DEF NodeCleanupDetach
    <3>2. task[n].eip \in Eip => status'[task[n].eip].resource = None
      BY <3>1, StatusYields DEF Store, TypeOK, ClusterTypeOK
    <3>3. \A e \in Eip : status'[e].resource = n => e \in {s[1] : s \in rest}
      BY <1>c, <2>1, <3>2, ClusterAssumption
    <3>4. t.todo = rest /\ t.pc = IF rest = {} THEN "label" ELSE "cleanup"
      <4> HIDE DEF rest
      <4> QED BY DEF IdleTask, CleanupStep
    <3> HIDE DEF t, rest
    <3> QED BY <1>a, <2>1, <3>1, <3>3, <3>4, TaskNodes
  <2> QED BY <1>6, <2>2, <2>3 DEF NodeCleanupDetach
<1>7. CASE NodeCleanupLabel(n)
  <2> DEFINE t == [IdleTask EXCEPT !.pc = "finalize"]
  <2>1. /\ NodeCleaningUp(n) /\ ~NodeDetaching(n)
        /\ UNCHANGED <<res, cachedRes>>
        /\ Continue(n, t)
    BY <1>7 DEF NodeCleanupLabel, NodeDetaching, NodeCleaningUp
  <2>2. t.pc = "finalize"
    BY DEF IdleTask
  <2> HIDE DEF t
  <2> QED BY <1>a, <1>c, <2>1, <2>2, TaskNodes
<1> QED BY <1>1, <1>2, <1>3, <1>4, <1>5, <1>6, <1>7

\* The list: a node that is guarded chooses an Eip that its cleanup will list.
LEMMA ApplyNodes ==
  ASSUME LabelsKept, TypeOK, NodeInv, NEW n \in Resource, NodeApply(n)
  PROVE  NodeInv'
<1>1. /\ UNCHANGED <<status, res, cachedRes>>
      /\ task[n].pc = "idle"
      /\ cachedRes[n].phase = "live" /\ cachedRes[n].finalizer
  BY DEF NodeApply, NodeReady, resVars
<1>2. CASE UNCHANGED <<seen, task>>
  BY <1>1, <1>2, StaleYields, QuietNodes
<1>3. ASSUME NEW e \in MatchedEips(n), NEW t,
             Claimable(n, e), seen' = Read({e}, n), Continue(n, t),
             t.eip = e, t.pc \in {"describe", "release"}
      PROVE  NodeInv'
  <2>1. Listed(e, n) /\ status[e].present
    BY <1>1, <1>3 DEF LabelsKept, Listed, MatchedEips, Claimable, NodeInv, NodeCacheInv
  <2>2. task'[n] = t /\ \A m \in Resource : m # n => task'[m] = task[m]
    BY <1>3 DEF Continue, TypeOK, NodeControllerTypeOK
  <2>3. \A m \in Resource : m # n => \A f \in Eip : m \in seen'[f] => m \in seen[f]
    BY <1>3 DEF Read
  <2> USE DEF NodeInv
  <2>4. NodesInv' /\ NodeCacheInv'
    BY <1>1 DEF NodesInv, NodeCacheInv
  <2>5. NodeTaskInv'
    BY <1>1, <1>3, <2>2
    DEF NodeTaskInv, NodeCacheInv, NodeApplying, NodeDetaching, NodeCleaningUp
  <2>6. NodeChoiceInv'
    <3> SUFFICES ASSUME NEW m \in Resource, task'[m].pc \in {"describe", "claim"}
                 PROVE  /\ Listed(task'[m].eip, m)
                        /\ m \in seen'[task'[m].eip] => status'[task'[m].eip].present
      BY DEF NodeChoiceInv, Listed
    <3>1. CASE m = n
      BY <1>1, <1>3, <2>1, <2>2, <3>1
    <3>2. CASE m # n
      <4>1. /\ Listed(task[m].eip, m)
            /\ m \in seen[task[m].eip] => status[task[m].eip].present
        BY <2>2, <3>2 DEF NodeChoiceInv
      <4>2. task[m].eip \in Eip
        BY <4>1, NodeControllerAssumption DEF Listed
      <4> QED BY <1>1, <2>2, <2>3, <3>2, <4>1, <4>2
    <3> QED BY <3>1, <3>2
  <2>7. NodeClaimsInv'
    BY <1>1, <1>3, <2>2 DEF NodeClaimsInv, NodeDetaching, NodeCleaningUp, Listed
  <2> QED BY <2>4, <2>5, <2>6, <2>7
<1> DEFINE describing(e) == [IdleTask EXCEPT !.pc = "describe", !.eip = e,
                              !.port = cachedRes[n].port, !.alloc = status[e].alloc]
           releasing(e) == [IdleTask EXCEPT !.pc = "release", !.eip = e]
<1>4. \A e : /\ describing(e).eip = e /\ describing(e).pc = "describe"
             /\ releasing(e).eip = e /\ releasing(e).pc = "release"
  BY DEF IdleTask
<1>5. \/ UNCHANGED <<seen, task>>
      \/ \E e \in MatchedEips(n) :
           /\ Claimable(n, e) /\ seen' = Read({e}, n)
           /\ Continue(n, describing(e)) \/ Continue(n, releasing(e))
  <2> DEFINE describe(e) == Continue(n, describing(e))
             release(e) == Continue(n, releasing(e))
  <2>1. \/ UNCHANGED <<seen, task>>
        \/ \E e \in MatchedEips(n) :
             /\ Claimable(n, e) /\ seen' = Read({e}, n) /\ (describe(e) \/ release(e))
    <3> HIDE DEF describe, release
    <3> QED BY DEF NodeApply, describe, release
  <2> QED BY <2>1
<1> HIDE DEF describing, releasing
<1> QED BY <1>2, <1>3, <1>4, <1>5

\* The claim: the Eip is one that the node chose, if the copy is current.
LEMMA ClaimNodes ==
  ASSUME TypeOK, NodeInv, NEW n \in Resource, NodeClaim(n)
  PROVE  NodeInv'
<1> DEFINE f == task[n].eip
           s == StatusShouldAttach(status[f], n, task[n].port)
           t == [task[n] EXCEPT !.pc = "associate"]
<1>1. /\ \A e \in Eip : status[e] \in EipStatus
      /\ status \in [Eip -> EipStatus]
      /\ seen \in [Eip -> SUBSET Holder]
      /\ task[n] \in Task
  BY DEF TypeOK, ClusterTypeOK, NodeControllerTypeOK
<1>2. UNCHANGED <<res, cachedRes>> /\ task[n].pc = "claim"
  BY DEF NodeClaim, resVars
<1>3. CASE n \notin seen[f]
  <2>1. Yields /\ \A m \in Resource : CopiesAge(m)
    BY <1>1, <1>3, StaleYields DEF NodeClaim, Forget
  <2> QED BY <1>2, <1>3, <2>1, EndNodes DEF NodeClaim
<1>4. CASE n \in seen[f]
  <2>1. Listed(f, n) /\ status[f].present /\ res[n].finalizer /\ f \in Eip
    BY <1>2, <1>4, NodeControllerAssumption
    DEF NodeInv, NodeChoiceInv, NodeTaskInv, NodeApplying, Listed
  <2>2. s.resource = n /\ s.present
    BY <1>1, <2>1 DEF EipStatus, StatusShouldAttach
  <2>3. t.pc = "associate"
    BY <1>1 DEF Task
  <2>4. Store(f, s, {n}) /\ Continue(n, t)
    BY <1>4 DEF NodeClaim
  <2> HIDE DEF s, t, f
  <2>5. /\ status'[f] = s
        /\ \A e \in Eip : e # f => status'[e] = status[e]
        /\ \A m \in Resource : CopiesAge(m)
    BY <1>1, <2>1, <2>4 DEF Store, CopiesAge
  <2>6. task'[n] = t /\ \A m \in Resource : m # n => task'[m] = task[m]
    BY <2>4 DEF Continue, TypeOK, NodeControllerTypeOK
  <2> USE DEF NodeInv
  <2>7. NodesInv' /\ NodeCacheInv'
    BY <1>2 DEF NodesInv, NodeCacheInv
  <2>8. NodeTaskInv'
    BY <1>2, <2>1, <2>3, <2>6 DEF NodeTaskInv, NodeApplying, NodeDetaching, NodeCleaningUp
  <2>9. NodeChoiceInv'
    <3> SUFFICES ASSUME NEW m \in Resource, task'[m].pc \in {"describe", "claim"}
                 PROVE  /\ Listed(task'[m].eip, m)
                        /\ m \in seen'[task'[m].eip] => status'[task'[m].eip].present
      BY DEF NodeChoiceInv, Listed
    <3>1. m # n
      BY <2>3, <2>6
    <3>2. /\ Listed(task[m].eip, m)
          /\ m \in seen[task[m].eip] => status[task[m].eip].present
      BY <2>6, <3>1 DEF NodeChoiceInv
    <3>3. task[m].eip \in Eip
      BY <3>2, NodeControllerAssumption DEF Listed
    <3> QED BY <2>5, <2>6, <3>1, <3>2, <3>3 DEF CopiesAge
  <2>10. NodeClaimsInv'
    <3> SUFFICES ASSUME NEW e \in Eip, NEW m \in Resource, status'[e].resource = m
                 PROVE  /\ status'[e].present
                        /\ Listed(e, m)
                        /\ res'[m].finalizer
                        /\ NodeCleaningUp(m)' => /\ NodeDetaching(m)'
                                                 /\ e \in {x[1] : x \in task'[m].todo}
      BY DEF NodeClaimsInv, Listed
    <3>1. CASE e = f
      BY <1>2, <2>1, <2>2, <2>3, <2>5, <2>6, <3>1 DEF NodeCleaningUp, NodeDetaching
    <3>2. CASE e # f /\ m = n
      BY <1>2, <2>3, <2>5, <2>6, <3>2 DEF NodeClaimsInv, NodeCleaningUp, NodeDetaching
    <3>3. CASE e # f /\ m # n
      BY <1>2, <2>5, <2>6, <3>3 DEF NodeClaimsInv, NodeCleaningUp, NodeDetaching
    <3> QED BY <3>1, <3>2, <3>3
  <2> QED BY <2>7, <2>8, <2>9, <2>10
<1> QED BY <1>3, <1>4

\* The list of cleanup finds every claim of the node.
LEMMA CleanupNodes ==
  ASSUME LabelsKept, TypeOK, AddressInv, NodeInv, NEW n \in Resource, NodeCleanup(n)
  PROVE  NodeInv'
<1> DEFINE held == {e \in MatchedEips(n) : status[e].present /\ status[e].resource = n}
           todo == {<<e, status[e].alloc>> : e \in held}
           t == [IdleTask EXCEPT !.pc = CleanupStep(todo), !.todo = todo]
<1>1. /\ Continue(n, t) /\ seen' = Read(held, n)
      /\ UNCHANGED <<status, res, cachedRes>>
      /\ cachedRes[n].phase = "deleting"
  BY DEF NodeCleanup, NodeReady, resVars
<1>2. /\ t.todo = todo /\ t.pc \in {"cleanup", "label"}
      /\ t.pc = "cleanup" <=> todo # {}
  <2> HIDE DEF todo
  <2> QED BY DEF IdleTask, CleanupStep
<1>3. ASSUME NEW e \in Eip, status[e].resource = n PROVE e \in {x[1] : x \in todo}
  <2>1. status[e].present /\ Listed(e, n)
    BY <1>3 DEF NodeInv, NodeClaimsInv
  <2>2. Exists(e)
    BY <2>1 DEF Exists, AddressInv, PhasesInv, NoStatus
  <2>3. e \in MatchedEips(n)
    BY <1>1, <2>1, <2>2 DEF MatchedEips, Listed, NodeInv, NodeCacheInv
  <2>4. e \in held
    BY <1>3, <2>1, <2>3
  <2>5. <<e, status[e].alloc>> \in todo /\ <<e, status[e].alloc>>[1] = e
    BY <2>4
  <2> HIDE DEF todo
  <2> QED BY <2>5
<1> HIDE DEF t, todo, held
<1>4. task'[n] = t /\ \A m \in Resource : m # n => task'[m] = task[m]
  BY <1>1 DEF Continue, TypeOK, NodeControllerTypeOK
<1>5. \A m \in Resource : m # n => \A f \in Eip : m \in seen'[f] => m \in seen[f]
  BY <1>1 DEF Read
<1> USE DEF NodeInv
<1>6. NodesInv' /\ NodeCacheInv'
  BY <1>1 DEF NodesInv, NodeCacheInv
<1>7. NodeTaskInv'
  BY <1>1, <1>2, <1>4
  DEF NodeTaskInv, NodeCacheInv, NodeApplying, NodeDetaching, NodeCleaningUp
<1>8. NodeChoiceInv'
  <2> SUFFICES ASSUME NEW m \in Resource, task'[m].pc \in {"describe", "claim"}
               PROVE  /\ Listed(task'[m].eip, m)
                      /\ m \in seen'[task'[m].eip] => status'[task'[m].eip].present
    BY DEF NodeChoiceInv, Listed
  <2>1. m # n
    BY <1>2, <1>4
  <2>2. /\ Listed(task[m].eip, m)
        /\ m \in seen[task[m].eip] => status[task[m].eip].present
    BY <1>4, <2>1 DEF NodeChoiceInv
  <2>3. task[m].eip \in Eip
    BY <2>2, NodeControllerAssumption DEF Listed
  <2> QED BY <1>1, <1>4, <1>5, <2>1, <2>2, <2>3
<1>9. NodeClaimsInv'
  <2> SUFFICES ASSUME NEW e \in Eip, NEW m \in Resource, status[e].resource = m
               PROVE  NodeCleaningUp(m)' => /\ NodeDetaching(m)'
                                            /\ e \in {x[1] : x \in task'[m].todo}
    BY <1>1 DEF NodeClaimsInv, Listed
  <2>1. CASE m = n
    BY <1>2, <1>3, <1>4, <2>1 DEF NodeDetaching
  <2>2. CASE m # n
    BY <1>4, <2>2 DEF NodeClaimsInv, NodeCleaningUp, NodeDetaching
  <2> QED BY <2>1, <2>2
<1> QED BY <1>6, <1>7, <1>8, <1>9

\* The watch delivers a node.
LEMMA WatchNodes ==
  ASSUME TypeOK, NodeInv, NEW n \in Resource, NodeWatch(n)
  PROVE  NodeInv'
<1>1. /\ cachedRes'[n] = res[n]
      /\ \A m \in Resource : m # n => cachedRes'[m] = cachedRes[m]
      /\ UNCHANGED <<status, seen, res, task>>
  BY DEF NodeWatch, eipVars, TypeOK, NodeControllerTypeOK
<1> USE DEF NodeInv
<1>2. NodesInv' /\ NodeCacheInv'
  BY <1>1 DEF NodesInv, NodeCacheInv
<1>3. NodeTaskInv'
  BY <1>1 DEF NodeTaskInv, NodeApplying, NodeDetaching, NodeCleaningUp
<1>4. NodeChoiceInv' /\ NodeClaimsInv'
  BY <1>1 DEF NodeChoiceInv, NodeClaimsInv, NodeDetaching, NodeCleaningUp, Listed
<1> QED BY <1>2, <1>3, <1>4

\* The finalizer is put on a node that is alive.
LEMMA AddFinalizerNodes ==
  ASSUME TypeOK, NodeInv, NEW n \in Resource, NodeAddFinalizer(n)
  PROVE  NodeInv'
<1> DEFINE obj == [res[n] EXCEPT !.finalizer = TRUE]
<1>1. /\ PutResource(n, obj) /\ UNCHANGED <<cachedRes, task>>
      /\ task[n].pc = "idle" /\ cachedRes[n].phase = "live"
      /\ res[n].phase = "live"
  BY DEF NodeAddFinalizer, NodeReady
<1>2. obj.phase = "live" /\ obj.finalizer /\ obj.matches = res[n].matches
  BY <1>1 DEF TypeOK, ClusterTypeOK, ResourceObject
<1>3. obj.matches \in Labels[n]
  BY <1>1, <1>2 DEF NodeInv, NodesInv
<1> HIDE DEF obj
<1> QED BY <1>1, <1>2, <1>3, PutNodes

\* The finalizer is taken off a node once it has no claim.
LEMMA RemoveFinalizerNodes ==
  ASSUME TypeOK, NodeInv, NEW n \in Resource, NodeRemoveFinalizer(n)
  PROVE  NodeInv'
<1>1. CASE ~res[n].finalizer
  <2>1. Yields /\ \A m \in Resource : CopiesAge(m)
    BY NodeControllerHarmless DEF Harmless
  <2> QED BY <1>1, <2>1, EndNodes DEF NodeRemoveFinalizer, resVars
<1>2. CASE res[n].finalizer
  <2>1. /\ task[n].pc = "finalize"
        /\ UNCHANGED <<status, seen, cachedRes>>
        /\ \E again : NodeEnd(n, again)
    BY <1>2 DEF NodeRemoveFinalizer, PutResource, eipVars
  <2>2. /\ res[n].phase = "deleting"
        /\ ~(cachedRes[n].phase = "live" /\ cachedRes[n].finalizer)
        /\ \A e \in Eip : status[e].resource # n
    BY <1>2, <2>1
    DEF NodeInv, NodeTaskInv, NodeClaimsInv, NodeDetaching, NodeCleaningUp
  <2>3. PutResource(n, NoResource)
    BY <1>2, <2>2 DEF NodeRemoveFinalizer
  <2>4. /\ res'[n] = NoResource
        /\ \A m \in Resource : m # n => res'[m] = res[m]
    BY <2>3 DEF PutResource, TypeOK, ClusterTypeOK
  <2>5. /\ task'[n].pc = "idle"
        /\ \A m \in Resource : m # n => task'[m] = task[m]
    BY <2>1 DEF NodeEnd, Continue, IdleTask, TypeOK, NodeControllerTypeOK
  <2> USE DEF NodeInv
  <2>6. NodesInv' /\ NodeCacheInv'
    BY <2>1, <2>2, <2>4 DEF NodesInv, NodeCacheInv, NoResource
  <2>7. NodeTaskInv'
    BY <2>1, <2>4, <2>5 DEF NodeTaskInv, NodeApplying, NodeDetaching, NodeCleaningUp
  <2>8. NodeChoiceInv'
    BY <2>1, <2>5 DEF NodeChoiceInv, Listed
  <2>9. NodeClaimsInv'
    BY <2>1, <2>2, <2>4, <2>5 DEF NodeClaimsInv, NodeDetaching, NodeCleaningUp, Listed
  <2> QED BY <2>6, <2>7, <2>8, <2>9
<1> QED BY <1>1, <1>2

\* What users and the kubelet do to nodes, and a restart.
LEMMA EnvironmentNodes ==
  ASSUME TypeOK, NodeInv, Environment \/ Crash
  PROVE  NodeInv'
<1>a. Yields /\ \A m \in Resource : CopiesAge(m)
  BY EnvironmentYields
<1>b. ASSUME NEW n \in Resource, NEW obj, PutResource(n, obj), UNCHANGED <<cachedRes, task>>,
             obj.finalizer = res[n].finalizer,
             obj.phase = "absent" => ~res[n].finalizer,
             obj.phase = "deleting" => res[n].finalizer,
             obj.phase # "absent" => obj.matches \in Labels[n],
             res[n].phase = "deleting" => obj.phase = "deleting"
      PROVE  NodeInv'
  BY <1>b, PutNodes
<1>1. ASSUME NEW n \in Resource, NodeJoins(n) PROVE NodeInv'
  <2>1. PICK p \in Ports[n], es \in Labels[n] :
          PutResource(n, [phase |-> "live", finalizer |-> FALSE, ready |-> FALSE,
                          matches |-> es, port |-> p])
    BY <1>1 DEF NodeJoins, CreateResource
  <2>2. res[n].phase = "absent" /\ res[n].finalizer = FALSE /\ UNCHANGED <<cachedRes, task>>
    BY <1>1
    DEF NodeJoins, CreateResource, ctlVars, nodeCtlVars, NodeInv, NodesInv, TypeOK,
        ClusterTypeOK, ResourceObject
  <2> QED BY <1>b, <2>1, <2>2
<1>2. ASSUME NEW n \in Resource, NodeBecomes(n) PROVE NodeInv'
  <2> DEFINE obj == [res[n] EXCEPT !.ready = ~@]
  <2>1. /\ PutResource(n, obj) /\ res[n].phase # "absent"
        /\ UNCHANGED <<cachedRes, task>>
    BY <1>2 DEF NodeBecomes, ChangeReady, ctlVars, nodeCtlVars
  <2>2. /\ obj.phase = res[n].phase /\ obj.finalizer = res[n].finalizer
        /\ obj.matches = res[n].matches
    BY DEF TypeOK, ClusterTypeOK, ResourceObject
  <2> HIDE DEF obj
  <2> QED BY <1>b, <2>1, <2>2 DEF NodeInv, NodesInv
<1>3. ASSUME NEW n \in Resource, NodeRelabelled(n) PROVE NodeInv'
  <2>1. PICK es \in Labels[n] : PutResource(n, [res[n] EXCEPT !.matches = es])
    BY <1>3 DEF NodeRelabelled, Relabel
  <2> DEFINE obj == [res[n] EXCEPT !.matches = es]
  <2>2. res[n].phase # "absent" /\ UNCHANGED <<cachedRes, task>>
    BY <1>3 DEF NodeRelabelled, Relabel, ctlVars, nodeCtlVars
  <2>3. /\ obj.phase = res[n].phase /\ obj.finalizer = res[n].finalizer
        /\ obj.matches = es
    BY DEF TypeOK, ClusterTypeOK, ResourceObject
  <2>4. PutResource(n, obj)
    BY <2>1
  <2> HIDE DEF obj
  <2> QED BY <1>b, <2>2, <2>3, <2>4 DEF NodeInv, NodesInv
<1>4. ASSUME NEW n \in Resource, NodeLeaves(n) PROVE NodeInv'
  <2> DEFINE obj == IF res[n].finalizer THEN [res[n] EXCEPT !.phase = "deleting"]
                                        ELSE NoResource
  <2>1. PutResource(n, obj) /\ res[n].phase = "live" /\ UNCHANGED <<cachedRes, task>>
    BY <1>4 DEF NodeLeaves, DeleteResource
  <2>2. /\ obj.phase = IF res[n].finalizer THEN "deleting" ELSE "absent"
        /\ obj.finalizer = res[n].finalizer
        /\ res[n].finalizer => obj.matches = res[n].matches
    BY DEF TypeOK, ClusterTypeOK, ResourceObject, NoResource
  <2> HIDE DEF obj
  <2> QED BY <1>b, <2>1, <2>2 DEF NodeInv, NodesInv
<1>5. CASE UNCHANGED <<res, cachedRes, task>>
  BY <1>a, <1>5, QuietNodes
<1>6. ASSUME NEW e \in Eip, UserCreates(e) \/ UserDeletes(e)
      PROVE  UNCHANGED <<res, cachedRes, task>>
  BY <1>6 DEF UserCreates, CreateEip, UserDeletes, DeleteEip, resVars, ctlVars, nodeCtlVars
<1>7. ASSUME NEW p \in Port, InterfaceGone(p)
      PROVE  UNCHANGED <<res, cachedRes, task>>
  BY <1>7 DEF InterfaceGone, PortGone, resVars, ctlVars, nodeCtlVars
<1>8. CASE Crash
  <2>1. /\ cachedRes' = res /\ UNCHANGED <<res, status>>
        /\ \A n \in Resource : task'[n].pc = "idle"
    BY <1>8 DEF Crash, NodeControllerRestart, IdleTask
  <2> USE DEF NodeInv
  <2>2. NodesInv' /\ NodeCacheInv'
    BY <2>1 DEF NodesInv, NodeCacheInv
  <2>3. NodeTaskInv' /\ NodeChoiceInv' /\ NodeClaimsInv'
    BY <2>1
    DEF NodeTaskInv, NodeChoiceInv, NodeClaimsInv, NodeApplying, NodeDetaching,
        NodeCleaningUp, Listed
  <2> QED BY <2>2, <2>3
<1> QED BY <1>1, <1>2, <1>3, <1>4, <1>5, <1>6, <1>7, <1>8 DEF Environment

\* Every step keeps the invariant.
LEMMA NextNodes ==
  ASSUME LabelsKept, TypeOK, AddressInv, NodeInv, [Next]_vars
  PROVE  NodeInv'
<1>1. ASSUME NEW e \in Eip, UNCHANGED nodeCtlVars,
             EipStep(e) \/ EipFault(e) \/ EipResync(e)
      PROVE  NodeInv'
  <2>1. Yields /\ \A n \in Resource : CopiesAge(n)
    BY <1>1, EipControllerYields
  <2>2. UNCHANGED <<cachedRes, task>>
    BY <1>1 DEF nodeCtlVars
  <2>3. UNCHANGED res
    BY <1>1
    DEF EipStep, EipStart, EipProgress, EipFault, EipRefreshFails, EipWatch, EipResync, EipAddFinalizer,
        EipApply, EipAllocate, EipSetStatusCreated, EipListResources, EipDisassociate,
        EipSetStatusDetached, EipRefresh, EipFails, EipCleanup, EipCleanupDisassociate,
        EipCleanupRelease, EipRemoveFinalizer, resVars
  <2> QED BY <2>1, <2>2, <2>3, QuietNodes
<1>2. ASSUME NEW n \in Resource, NodeStep(n, FreeAssocs) \/ NodeFails(n) \/ NodeResync(n)
      PROVE  NodeInv'
  <2>1. \A x : x \in FreeAssocs => x \in AssocId
    BY DEF FreeAssocs
  <2>2. CASE NodeResync(n)
    <3>1. Yields /\ \A m \in Resource : CopiesAge(m)
      BY <2>2, NodeControllerHarmless DEF Harmless
    <3> QED BY <2>2, <3>1, QuietNodes DEF NodeResync, resVars
  <2> QED BY <1>2, <2>1, <2>2, WatchNodes, AddFinalizerNodes, ApplyNodes, CleanupNodes,
             ClaimNodes, ProgressNodes, RemoveFinalizerNodes
          DEF NodeStep, NodeStart, NodeProgress
<1>3. CASE UNCHANGED vars
  BY <1>3
  DEF vars, eipVars, resVars, nodeCtlVars, NodeInv, NodesInv, NodeCacheInv, NodeTaskInv,
      NodeChoiceInv, NodeClaimsInv, NodeApplying, NodeDetaching, NodeCleaningUp, Listed
<1>4. CASE Control \/ Resync \/ CallFails
  BY <1>1, <1>2, <1>4 DEF Control, EipControl, NodeControl, Resync, CallFails, EipFault
<1> QED BY <1>3, <1>4, EnvironmentNodes DEF Next

\* There is no node at first.
LEMMA InitNodes == Init => NodeInv
BY ClusterAssumption
DEF Init, ClusterInit, NodeControllerInit, NodeInv, NodesInv, NodeCacheInv, NodeTaskInv,
       NodeChoiceInv, NodeClaimsInv, NodeApplying, NodeDetaching, NodeCleaningUp, IdleTask,
       NoResource, NoStatus

\* The inductive invariant of nodes and claims, for nodes that keep their labels
\* (LabelsKept speaks of constants only): what the cache of a node may still show,
\* and which claims its cleanup has still to come to (controller/node.rs).
THEOREM NodesSafe ==
  ASSUME LabelsKept
  PROVE  Spec => []NodeInv
<1>1. TypeOK /\ AddressInv /\ NodeInv /\ [Next]_vars => NodeInv'
  BY NextNodes
<1> QED BY InitNodes, TypeCorrect, AddressesSafe, <1>1, PTL DEF Spec

\* For any number of such nodes, reconciled in any order with crashes, failing calls
\* and stale caches, a claim names a node that is there and whose cleanup has still
\* to look at it (controller/node.rs, apply and cleanup).
THEOREM ClaimsOutliveNoNode ==
  ASSUME LabelsKept
  PROVE  Spec => []ClaimsNameNodes
<1>1. NodeInv => ClaimsNameNodes
  BY DEF NodeInv, NodesInv, NodeClaimsInv, ClaimsNameNodes
<1> QED BY NodesSafe, <1>1, PTL

-----------------------------------------------------------------------------
(* Addresses that are not stolen.                                          *)

\* The only slot is free if no node is being reconciled.
LEMMA SlotFree ==
  ASSUME NodeSlotFree, NEW n \in Resource
  PROVE  task[n].pc = "idle"
<1> DEFINE busy == {m \in Resource : task[m].pc # "idle"}
<1>1. IsFiniteSet(busy)
  BY ClusterAssumption, FS_Subset
<1>2. Cardinality(busy) \in Nat
  BY <1>1, FS_CardinalityType
<1>3. Cardinality(busy) < 1
  BY DEF NodeSlotFree, NodeConcurrency
<1>4. Cardinality(busy) = 0
  <2> HIDE DEF busy
  <2> QED BY <1>2, <1>3
<1> QED BY <1>1, <1>4, FS_EmptySet

\* No step gives an address another tag, or an object the uid of an earlier one.
LEMMA NextHistory ==
  ASSUME TypeOK, AddressInv, [Next]_vars
  PROVE  History
<1>1. ASSUME NEW e \in Eip, EipStep(e) \/ EipFault(e) \/ EipResync(e)
      PROVE  History
  BY <1>1, CoreTypes, EipControllerHistory
<1>2. ASSUME NEW n \in Resource, UNCHANGED eipCtlVars,
             NodeStep(n, FreeAssocs) \/ NodeFails(n) \/ NodeResync(n)
      PROVE  History
  BY <1>2, NodeControllerQuiet, QuietHistory DEF Quiet
<1>3. CASE Control \/ Resync \/ CallFails
  BY <1>1, <1>2, <1>3 DEF Control, EipControl, NodeControl, Resync, CallFails, EipFault
<1>4. CASE Crash
  BY <1>4, QuietHistory DEF Crash, awsVars
<1>5. CASE Environment
  <2>1. ASSUME NEW n \in Resource,
               NodeJoins(n) \/ NodeBecomes(n) \/ NodeRelabelled(n) \/ NodeLeaves(n)
        PROVE  UNCHANGED <<eip, usedUid, owner, allocated>>
    BY <2>1 DEF NodeJoins, NodeBecomes, NodeRelabelled, NodeLeaves, CreateResource,
                ChangeReady, Relabel, DeleteResource, PutResource, eipVars, awsVars
  <2>2. ASSUME NEW p \in Port, InterfaceGone(p)
        PROVE  UNCHANGED <<eip, usedUid, owner, allocated>>
    BY <2>2 DEF InterfaceGone, PortGone, eipVars
  <2>3. ASSUME NEW e \in Eip, UserCreates(e) \/ UserDeletes(e) PROVE History
    BY <2>3, CoreTypes, CreationHistory DEF UserCreates, UserDeletes
  <2> QED BY <1>5, <2>1, <2>2, <2>3, QuietHistory DEF Environment
<1>6. CASE UNCHANGED vars
  BY <1>6, QuietHistory DEF vars, eipVars, awsVars
<1> QED BY <1>3, <1>4, <1>5, <1>6 DEF Next

\* A tag goes on naming one Eip only.
LEMMA TagStays ==
  ASSUME AddressInv, History, NEW f \in Eip, NEW a \in AllocId, owner[a] # None,
         \A e \in Eip : eip[e].uid = owner[a] => e = f
  PROVE  /\ owner'[a] # None
         /\ \A e \in Eip : eip'[e].uid = owner'[a] => e = f
<1>1. owner'[a] = owner[a]
  BY DEF History
<1> QED BY <1>1, OldUids

\* Nobody's task is touched.
LEMMA QuietSlot ==
  ASSUME AddressInv, History, SlotInv, Yields, UNCHANGED task
  PROVE  SlotInv'
<1>1. OneNodeAtATime'
  BY DEF SlotInv, OneNodeAtATime
<1>2. ASSUME NEW n \in Resource, task[n].pc \in Attaching
      PROVE  /\ owner'[task[n].alloc] # None
             /\ \A e \in Eip : eip'[e].uid = owner'[task[n].alloc] => e = task[n].eip
  BY <1>2, TagStays DEF SlotInv, AttachingInv
<1>3. \A n \in Resource : task[n].pc = "associate" =>
        status'[task[n].eip].resource \in {None, n}
  BY DEF SlotInv, AttachingInv, Yields, Attaching
<1>4. AttachingInv'
  BY <1>2, <1>3 DEF SlotInv, AttachingInv, Attaching
<1> QED BY <1>1, <1>4 DEF SlotInv

\* The one node that has a task, or the first to get one, goes on.
LEMMA TaskSlot ==
  ASSUME TypeOK, SlotInv, NEW n \in Resource, NEW t, Continue(n, t),
         task[n].pc # "idle" \/ NodeSlotFree,
         t.pc = "idle" => t.port = None,
         t.pc \in Attaching =>
           /\ t.eip \in Eip
           /\ t.alloc \in AllocId
           /\ owner'[t.alloc] # None
           /\ \A e \in Eip : eip'[e].uid = owner'[t.alloc] => e = t.eip,
         t.pc = "associate" => status'[t.eip].resource \in {None, n}
  PROVE  SlotInv'
<1>1. task'[n] = t /\ \A m \in Resource : m # n => task'[m] = task[m]
  BY DEF Continue, TypeOK, NodeControllerTypeOK
<1>2. \A m \in Resource : m # n => task[m].pc = "idle" /\ task[m].port = None
  BY SlotFree DEF SlotInv, OneNodeAtATime, AttachingInv
<1>3. OneNodeAtATime'
  BY <1>1, <1>2 DEF OneNodeAtATime
<1>4. AttachingInv'
  BY <1>1, <1>2 DEF AttachingInv, Attaching
<1> QED BY <1>3, <1>4 DEF SlotInv

\* A reconciliation ends.
LEMMA EndSlot ==
  ASSUME TypeOK, SlotInv, NEW n \in Resource, task[n].pc # "idle",
         NEW again, NodeEnd(n, again)
  PROVE  SlotInv'
<1>1. IdleTask.pc = "idle" /\ IdleTask.port = None
  BY DEF IdleTask
<1>2. "idle" \notin Attaching /\ "idle" # "associate"
  BY DEF Attaching
<1> QED BY <1>1, <1>2, TaskSlot DEF NodeEnd

\* A reconciliation goes on, its address attached, or to be given up.
LEMMA DoneSlot ==
  ASSUME TypeOK, SlotInv, NEW n \in Resource, task[n].pc # "idle", NEW t, Continue(n, t),
         t.pc \in {"record", "cleanup", "disassociate", "detach", "label", "finalize"}
  PROVE  SlotInv'
BY TaskSlot DEF Attaching

\* The first call of apply: an allocation id of the listed status is the tag of
\* the Eip that was listed.
LEMMA ApplySlot ==
  ASSUME TypeOK, AddressInv, SlotInv, NEW n \in Resource, NodeApply(n)
  PROVE  SlotInv'
<1> DEFINE describing(e) == [IdleTask EXCEPT !.pc = "describe", !.eip = e,
                              !.port = cachedRes[n].port, !.alloc = status[e].alloc]
           releasing(e) == [IdleTask EXCEPT !.pc = "release", !.eip = e]
<1>1. /\ NodeSlotFree
      /\ UNCHANGED <<eip, status, owner>>
      /\ \/ UNCHANGED task
         \/ \E e \in MatchedEips(n) :
              \/ status[e].alloc # None /\ Continue(n, describing(e))
              \/ Continue(n, releasing(e))
  <2>1. NodeSlotFree
    BY DEF NodeApply, NodeReady
  <2>2. UNCHANGED <<eip, status, owner>>
    BY DEF NodeApply, awsVars
  <2>3. \/ UNCHANGED task
        \/ \E e \in MatchedEips(n) :
             \/ status[e].alloc # None /\ Continue(n, describing(e))
             \/ Continue(n, releasing(e))
    BY Zenon DEF NodeApply
  <2> QED BY <2>1, <2>2, <2>3
<1>2. \A e : /\ describing(e).pc = "describe"
             /\ describing(e).eip = e
             /\ describing(e).alloc = status[e].alloc
             /\ releasing(e).pc = "release"
  BY DEF IdleTask
<1> HIDE DEF describing, releasing
<1>3. CASE UNCHANGED task
  BY <1>1, <1>3 DEF SlotInv, OneNodeAtATime, AttachingInv
<1>4. ASSUME NEW e \in MatchedEips(n), status[e].alloc # None, Continue(n, describing(e))
      PROVE  SlotInv'
  <2>1. e \in Eip /\ Exists(e)
    BY NodeControllerAssumption DEF MatchedEips
  <2>2. status[e].alloc \in AllocId
    BY <1>4, <2>1 DEF TypeOK, ClusterTypeOK, EipStatus
  <2>3. owner[status[e].alloc] = eip[e].uid /\ eip[e].uid # None
    BY <1>4, <2>1 DEF AddressInv, StatusNamesOwnAddress, PhasesInv, Exists
  <2>4. \A f \in Eip : eip[f].uid = owner[status[e].alloc] => f = e
    BY <2>1, <2>3 DEF AddressInv, UidsInv, Known
  <2> QED BY <1>1, <1>2, <1>4, <2>1, <2>2, <2>3, <2>4, TaskSlot
<1>5. ASSUME NEW e, Continue(n, releasing(e))
      PROVE  SlotInv'
  BY <1>1, <1>2, <1>5, TaskSlot DEF Attaching
<1> QED BY <1>1, <1>3, <1>4, <1>5

\* The first call of cleanup.
LEMMA CleanupSlot ==
  ASSUME TypeOK, SlotInv, NEW n \in Resource, NodeCleanup(n)
  PROVE  SlotInv'
<1> DEFINE held == {e \in MatchedEips(n) : status[e].present /\ status[e].resource = n}
           todo == {<<e, status[e].alloc>> : e \in held}
           t == [IdleTask EXCEPT !.pc = CleanupStep(todo), !.todo = todo]
<1>1. Continue(n, t) /\ NodeSlotFree
  BY DEF NodeCleanup, NodeReady
<1>2. t.pc \in {"cleanup", "label"}
  <2> HIDE DEF todo
  <2> QED BY DEF IdleTask, CleanupStep
<1> HIDE DEF t
<1> QED BY <1>1, <1>2, TaskSlot DEF Attaching

\* The address is described, and the claim written.
LEMMA ClaimSlot ==
  ASSUME TypeOK, AddressInv, History, SlotInv, NEW n \in Resource,
         NodeDescribe(n) \/ NodeClaim(n)
  PROVE  SlotInv'
<1> DEFINE f == task[n].eip
<1>1. /\ task[n] \in Task
      /\ status \in [Eip -> EipStatus]
      /\ task[n].pc \in {"describe", "claim"}
  BY DEF TypeOK, ClusterTypeOK, NodeControllerTypeOK, NodeDescribe, NodeClaim
<1>2. f \in Eip /\ task[n].alloc \in AllocId
  BY <1>1 DEF SlotInv, AttachingInv, Attaching
<1>3. /\ owner'[task[n].alloc] # None
      /\ \A e \in Eip : eip'[e].uid = owner'[task[n].alloc] => e = f
  BY <1>1, <1>2, TagStays DEF SlotInv, AttachingInv, Attaching
<1>4. ASSUME NEW again, NodeEnd(n, again) PROVE SlotInv'
  BY <1>1, <1>4, EndSlot
<1>5. ASSUME NEW pc \in {"claim", "associate"}, Continue(n, [task[n] EXCEPT !.pc = pc]),
             pc = "associate" => status'[f].resource = n
      PROVE  SlotInv'
  <2> DEFINE t == [task[n] EXCEPT !.pc = pc]
  <2>1. t.pc = pc /\ t.eip = f /\ t.alloc = task[n].alloc
    BY <1>1 DEF Task
  <2>2. Continue(n, t)
    BY <1>5
  <2> HIDE DEF t, f
  <2> QED BY <1>1, <1>2, <1>3, <1>5, <2>1, <2>2, TaskSlot
<1>6. CASE NodeDescribe(n)
  BY <1>4, <1>5, <1>6 DEF NodeDescribe
<1>7. CASE NodeClaim(n)
  <2> DEFINE s == StatusShouldAttach(status[f], n, task[n].port)
  <2>1. s.resource = n
    BY <1>1, <1>2 DEF EipStatus, StatusShouldAttach
  <2>2. \/ Store(f, s, {n}) /\ Continue(n, [task[n] EXCEPT !.pc = "associate"])
        \/ \E again : NodeEnd(n, again)
    BY <1>7 DEF NodeClaim
  <2>3. Store(f, s, {n}) => status'[f] = s
    <3> HIDE DEF s, f
    <3> QED BY <1>1, <1>2 DEF Store
  <2> HIDE DEF s
  <2> QED BY <1>4, <1>5, <2>1, <2>2, <2>3
<1> QED BY <1>6, <1>7

\* The rest of a reconciliation.
LEMMA ProgressSlot ==
  ASSUME TypeOK, SlotInv, NEW n \in Resource,
         \/ NodeFails(n) \/ NodeRelease(n) \/ NodeRecord(n)
         \/ \E x \in AssocId : NodeAssociate(n, x)
         \/ NodeCleanupDescribe(n) \/ NodeCleanupDisassociate(n) \/ NodeCleanupDetach(n)
         \/ NodeCleanupLabel(n) \/ NodeRemoveFinalizer(n)
  PROVE  SlotInv'
<1>a. task[n] \in Task
  BY DEF TypeOK, NodeControllerTypeOK
<1>b. task[n].pc # "idle"
  BY DEF NodeFails, NodeRelease, NodeRecord, NodeAssociate, NodeCleanupDescribe,
         NodeCleanupDisassociate, NodeCleanupDetach, NodeCleanupLabel, NodeRemoveFinalizer
<1>c. ASSUME NEW again, NodeEnd(n, again) PROVE SlotInv'
  BY <1>b, <1>c, EndSlot
<1>1. CASE NodeFails(n) \/ NodeRelease(n) \/ NodeRecord(n) \/ NodeRemoveFinalizer(n)
  BY <1>1, <1>c DEF NodeFails, NodeRelease, NodeRecord, NodeRemoveFinalizer
<1>2. ASSUME NEW x \in AssocId, NodeAssociate(n, x) PROVE SlotInv'
  <2> DEFINE t == [IdleTask EXCEPT !.pc = "record", !.eip = task[n].eip, !.assoc = x]
  <2>1. t.pc = "record"
    BY DEF IdleTask
  <2> HIDE DEF t
  <2>2. Continue(n, t) \/ \E again : NodeEnd(n, again)
    BY <1>2 DEF NodeAssociate, t
  <2> QED BY <1>b, <1>c, <2>1, <2>2, DoneSlot
<1>3. CASE NodeCleanupDescribe(n)
  <2>1. \A e, x : \A pc \in {"detach", "disassociate"} :
          [task[n] EXCEPT !.eip = e, !.assoc = x, !.pc = pc].pc = pc
    BY <1>a DEF Task
  <2>2. \/ \E e, x : \E pc \in {"detach", "disassociate"} :
             Continue(n, [task[n] EXCEPT !.eip = e, !.assoc = x, !.pc = pc])
        \/ \E again : NodeEnd(n, again)
    BY <1>3 DEF NodeCleanupDescribe
  <2>3. \/ \E t : Continue(n, t) /\ t.pc \in {"detach", "disassociate"}
        \/ \E again : NodeEnd(n, again)
    BY <2>1, <2>2
  <2> QED BY <1>b, <1>c, <2>3, DoneSlot
<1>4. CASE NodeCleanupDisassociate(n)
  <2>1. [task[n] EXCEPT !.pc = "detach", !.assoc = None].pc = "detach"
    BY <1>a DEF Task
  <2> QED BY <1>4, <1>b, <2>1, DoneSlot DEF NodeCleanupDisassociate
<1>5. CASE NodeCleanupDetach(n)
  <2> DEFINE rest == {s \in task[n].todo : s[1] # task[n].eip}
             t == [IdleTask EXCEPT !.pc = CleanupStep(rest), !.todo = rest]
  <2>1. t.pc \in {"cleanup", "label"}
    <3> HIDE DEF rest
    <3> QED BY DEF IdleTask, CleanupStep
  <2>2. Continue(n, t) \/ \E again : NodeEnd(n, again)
    BY <1>5 DEF NodeCleanupDetach
  <2> HIDE DEF t
  <2> QED BY <1>b, <1>c, <2>1, <2>2, DoneSlot
<1>6. CASE NodeCleanupLabel(n)
  <2>1. [IdleTask EXCEPT !.pc = "finalize"].pc = "finalize"
    BY DEF IdleTask
  <2> QED BY <1>6, <1>b, <2>1, DoneSlot DEF NodeCleanupLabel
<1> QED BY <1>1, <1>2, <1>3, <1>4, <1>5, <1>6

\* Every step keeps the invariant.
LEMMA NextSlot ==
  ASSUME TypeOK, AddressInv, SlotInv, [Next]_vars
  PROVE  SlotInv'
<1>h. History
  BY NextHistory
<1>1. ASSUME NEW e \in Eip, UNCHANGED nodeCtlVars,
             EipStep(e) \/ EipFault(e) \/ EipResync(e)
      PROVE  SlotInv'
  BY <1>1, <1>h, EipControllerYields, QuietSlot DEF nodeCtlVars
<1>2. ASSUME NEW n \in Resource, NodeStep(n, FreeAssocs) \/ NodeFails(n) \/ NodeResync(n)
      PROVE  SlotInv'
  <2>1. \A x : x \in FreeAssocs => x \in AssocId
    BY DEF FreeAssocs
  <2>2. CASE NodeWatch(n) \/ NodeResync(n) \/ NodeAddFinalizer(n)
    <3>1. Yields
      BY <2>2, NodeControllerHarmless DEF Harmless
    <3> QED BY <2>2, <1>h, <3>1, QuietSlot DEF NodeWatch, NodeResync, NodeAddFinalizer
  <2>3. CASE NodeDescribe(n) \/ NodeClaim(n)
    BY <2>3, <1>h, ClaimSlot
  <2> QED BY <1>2, <2>1, <2>2, <2>3, ApplySlot, CleanupSlot, ProgressSlot
          DEF NodeStep, NodeStart, NodeProgress
<1>3. CASE Environment
  <2>1. UNCHANGED task
    BY <1>3 DEF Environment, UserCreates, UserDeletes, NodeJoins, NodeBecomes, NodeRelabelled,
                NodeLeaves, InterfaceGone, ctlVars, nodeCtlVars
  <2> QED BY <1>3, <1>h, <2>1, EnvironmentYields, QuietSlot
<1>4. CASE Crash
  <2>1. \A n \in Resource : task'[n].pc = "idle" /\ task'[n].port = None
    BY <1>4 DEF Crash, NodeControllerRestart, IdleTask
  <2> QED BY <2>1 DEF SlotInv, OneNodeAtATime, AttachingInv, Attaching
<1>5. CASE UNCHANGED vars
  BY <1>5, <1>h, QuietSlot DEF vars, eipVars, nodeCtlVars, Yields
<1>6. CASE Control \/ Resync \/ CallFails
  BY <1>1, <1>2, <1>6 DEF Control, EipControl, NodeControl, Resync, CallFails, EipFault
<1> QED BY <1>3, <1>4, <1>5, <1>6 DEF Next

\* No node has a task at first.
LEMMA InitSlot == Init => SlotInv
BY DEF Init, NodeControllerInit, SlotInv, OneNodeAtATime, AttachingInv, Attaching, IdleTask

\* Only an association puts an address on a port.
Loses == \A a \in AllocId : attached'[a].port \in {attached[a].port, None}

LEMMA DisassociateLoses ==
  ASSUME NEW x, attached' = attached \/ disassociate_eip(x)
  PROVE  Loses
BY DEF Loses, disassociate_eip, NoAttachment

LEMMA PortsTaken ==
  ASSUME [Next]_vars
  PROVE  \/ Loses
         \/ \E n \in Resource, x \in AssocId : NodeAssociate(n, x)
<1>1. ASSUME NEW e \in Eip, EipStep(e) \/ EipFault(e) \/ EipResync(e)
      PROVE  Loses
  <2>1. attached' = attached \/ \E x : disassociate_eip(x)
    BY <1>1
    DEF EipStep, EipStart, EipProgress, EipFault, EipRefreshFails, EipWatch, EipResync, EipAddFinalizer,
        EipApply, EipAllocate, EipSetStatusCreated, EipListResources, EipDisassociate,
        EipSetStatusDetached, EipRefresh, EipFails, EipCleanup, EipCleanupDisassociate,
        EipCleanupRelease, EipRemoveFinalizer, awsVars, allocate_address, release_address
  <2> QED BY <2>1, DisassociateLoses
<1>2. ASSUME NEW n \in Resource, NodeStep(n, FreeAssocs) \/ NodeFails(n) \/ NodeResync(n)
      PROVE  Loses \/ \E x \in AssocId : NodeAssociate(n, x)
  <2>1. CASE FreeAssocs # {} /\ NodeAssociate(n, CHOOSE x \in FreeAssocs : TRUE)
    <3>1. (CHOOSE x \in FreeAssocs : TRUE) \in AssocId
      BY <2>1 DEF FreeAssocs
    <3> QED BY <2>1, <3>1
  <2>2. CASE ~(FreeAssocs # {} /\ NodeAssociate(n, CHOOSE x \in FreeAssocs : TRUE))
    <3>1. attached' = attached \/ \E x : disassociate_eip(x)
      BY <1>2, <2>2
      DEF NodeStep, NodeStart, NodeProgress, NodeWatch, NodeResync, NodeAddFinalizer,
          NodeFails, NodeApply, NodeRelease, NodeDescribe, NodeClaim, NodeRecord,
          NodeCleanup, NodeCleanupDescribe, NodeCleanupDisassociate, NodeCleanupDetach,
          NodeCleanupLabel, NodeRemoveFinalizer, PutResource, awsVars
    <3> QED BY <3>1, DisassociateLoses
  <2> QED BY <2>1, <2>2
<1>3. CASE Control \/ Resync \/ CallFails
  BY <1>1, <1>2, <1>3 DEF Control, EipControl, NodeControl, Resync, CallFails, EipFault
<1>4. CASE Crash \/ UNCHANGED vars
  BY <1>4 DEF Crash, vars, awsVars, Loses
<1>5. ASSUME NEW p \in Port, InterfaceGone(p)
      PROVE  Loses
  BY <1>5 DEF InterfaceGone, PortGone, Loses, NoAttachment
<1>6. CASE Environment /\ ~\E p \in Port : InterfaceGone(p)
  BY <1>6 DEF Environment, UserCreates, CreateEip, UserDeletes, DeleteEip, NodeJoins,
              NodeBecomes, NodeRelabelled, NodeLeaves, CreateResource, ChangeReady, Relabel,
              DeleteResource, PutResource, awsVars, Loses
<1> QED BY <1>3, <1>4, <1>5, <1>6 DEF Next

\* The inductive invariant of the only slot: the node that is reconciled, the Eip it
\* chose and the address it has in hand (main.rs, with_concurrency).
THEOREM SlotSafe == Spec => []SlotInv
<1>1. TypeOK /\ AddressInv /\ SlotInv /\ [Next]_vars => SlotInv'
  BY NextSlot
<1> QED BY InitSlot, TypeCorrect, AddressesSafe, <1>1, PTL DEF Spec

\* For any number of Eips and nodes, with crashes, failing calls and old copies:
\* between the claim of a node and its association the Eip may lose the claim, but
\* no other node gets it (controller/node.rs, apply; main.rs, with_concurrency).
THEOREM NothingStolen == Spec => NoStolenAddress
<1> DEFINE Kept == \A a \in AllocId, n \in Resource, e \in Eip :
                     /\ attached'[a].port # attached[a].port
                     /\ attached'[a].port = task[n].port
                     /\ attached'[a].port # None
                     /\ status[e].alloc = a
                     => status[e].resource \in {None, n}
<1>1. TypeOK /\ AddressInv /\ SlotInv /\ [Next]_vars => Kept
  <2> SUFFICES ASSUME TypeOK, AddressInv, SlotInv, [Next]_vars,
                      NEW a \in AllocId, NEW n \in Resource, NEW e \in Eip,
                      attached'[a].port # attached[a].port,
                      attached'[a].port = task[n].port,
                      attached'[a].port # None,
                      status[e].alloc = a
               PROVE  status[e].resource \in {None, n}
    OBVIOUS
  <2>1. PICK m \in Resource, x \in AssocId : NodeAssociate(m, x)
    BY PortsTaken DEF Loses
  <2>2. task[m].pc = "associate" /\ associate_eip(task[m].alloc, task[m].port, x)
    BY <2>1 DEF NodeAssociate, awsVars
  <2>3. a = task[m].alloc
    BY <2>2 DEF associate_eip, NoAttachment
  <2>4. n = m
    BY <2>2 DEF SlotInv, OneNodeAtATime, AttachingInv
  <2>5. eip[e].uid = owner[a]
    BY ClusterAssumption DEF AddressInv, StatusNamesOwnAddress
  <2>6. e = task[m].eip
    BY <2>2, <2>3, <2>5 DEF SlotInv, AttachingInv, Attaching
  <2> QED BY <2>2, <2>4, <2>6 DEF SlotInv, AttachingInv
<1>2. TypeOK /\ AddressInv /\ SlotInv /\ [Next]_vars => SlotInv'
  BY NextSlot
<1> QED BY InitSlot, TypeCorrect, AddressesSafe, <1>1, <1>2, PTL
        DEF Spec, NoStolenAddress

-----------------------------------------------------------------------------
(* Associations that are known.                                            *)

\* What every step does that associates nothing, claims nothing and records nothing:
\* addresses leave ports, claims are given up, and copies grow old.
Settled ==
  /\ \A a \in AllocId :
       /\ owner'[a] = owner[a] \/ owner[a] = None
       /\ a \in allocated' => a \in allocated \/ owner[a] = None
       /\ attached'[a] = attached[a] \/ attached'[a].port = None
  /\ \A e \in Eip :
       \/ status'[e].resource = None
       \/ /\ eip'[e].uid = eip[e].uid
          /\ status'[e].resource = status[e].resource
          /\ status'[e].port = status[e].port
          /\ status'[e].assoc = status[e].assoc

\* A copy of node n that is still current is a copy of the same object.
SameObjects(n) ==
  \A e \in Eip : n \in seen'[e] => n \in seen[e] /\ eip'[e].uid = eip[e].uid

\* The hand of node n is as full as before, if it is about to record.
RecordsSame(n) ==
  /\ task'[n].pc = "record" <=> task[n].pc = "record"
  /\ task[n].pc = "record" => task'[n].eip = task[n].eip /\ task'[n].assoc = task[n].assoc

LEMMA SettledPorts ==
  ASSUME PortsInv, Settled
  PROVE  PortsInv'
BY ClusterAssumption DEF PortsInv, Settled

LEMMA SettledKnown ==
  ASSUME TypeOK, TypeOK', PortsInv, KnownInv, Settled, \A n \in Resource : RecordsSame(n)
  PROVE  KnownInv'
<1> SUFFICES ASSUME NEW e \in Eip, NEW n \in Resource, NEW a \in allocated',
                    status'[e].resource = n,
                    owner'[a] = eip'[e].uid,
                    attached'[a].port = status'[e].port
             PROVE  attached'[a].assoc = IF task'[n].pc = "record" /\ task'[n].eip = e
                                           THEN task'[n].assoc ELSE status'[e].assoc
  BY DEF KnownInv
<1>1. n # None /\ a \in AllocId
  BY ClusterAssumption DEF TypeOK, ClusterTypeOK
<1>2. /\ eip'[e].uid = eip[e].uid
      /\ status[e].resource = n
      /\ status'[e].port = status[e].port
      /\ status'[e].assoc = status[e].assoc
  BY <1>1 DEF Settled
<1>3. status[e].port # None
  BY <1>1, <1>2, ClusterAssumption DEF PortsInv
<1>4. attached'[a] = attached[a]
  BY <1>1, <1>2, <1>3 DEF Settled
<1>5. owner[a] # None
  BY <1>1, <1>2, <1>3, <1>4 DEF PortsInv
<1>6. a \in allocated /\ owner'[a] = owner[a]
  BY <1>1, <1>5 DEF Settled
<1>7. attached[a].assoc = IF task[n].pc = "record" /\ task[n].eip = e
                            THEN task[n].assoc ELSE status[e].assoc
  BY <1>2, <1>4, <1>6 DEF KnownInv
<1> QED BY <1>2, <1>4, <1>7 DEF RecordsSame

\* The Eip controller settles.
LEMMA EipControllerSettles ==
  ASSUME TypeOK, AddressInv, NEW e \in Eip, EipStep(e) \/ EipFault(e) \/ EipResync(e)
  PROVE  Settled /\ \A n \in Resource : SameObjects(n)
<1> USE DEF eipVars, awsVars
<1>a. /\ status \in [Eip -> EipStatus]
      /\ eip \in [Eip -> EipMeta]
      /\ worker[e].copy \in EipStatus
      /\ seen \in [Eip -> SUBSET Holder]
      /\ owner \in [AllocId -> Uid \cup {None}]
      /\ allocated \subseteq AllocId
  BY DEF TypeOK, ClusterTypeOK, EipControllerTypeOK, Worker
<1>b. e \notin Resource /\ "cache" \notin Resource
  BY ClusterAssumption
<1>s. UNCHANGED <<eip, status, owner, allocated, attached>> => Settled
  BY DEF Settled
<1>c. (\A f \in Eip, n \in Resource : n \in seen'[f] => n \in seen[f]) /\ UNCHANGED eip
      => \A n \in Resource : SameObjects(n)
  BY DEF SameObjects
<1>1. CASE EipWatch(e)
  BY <1>1, <1>b, <1>c, <1>s DEF EipWatch, Read
<1>2. CASE EipApply(e)
  BY <1>2, <1>b, <1>c, <1>s DEF EipApply, Read
<1>3. CASE EipAddFinalizer(e)
  <2> DEFINE obj == [eip[e] EXCEPT !.finalizer = TRUE]
  <2>1. /\ eip' = [eip EXCEPT ![e] = obj]
        /\ seen' = [seen EXCEPT ![e] = {}]
        /\ UNCHANGED <<status, owner, allocated, attached>>
    BY <1>3 DEF EipAddFinalizer
  <2>2. obj.uid = eip[e].uid
    BY <1>a DEF EipMeta
  <2> HIDE DEF obj
  <2> QED BY <1>a, <2>1, <2>2 DEF Settled, SameObjects
<1>4. CASE EipResync(e) \/ EipCleanup(e) \/ \E done : EipRefresh(e, done)
  BY <1>4, <1>c, <1>s DEF EipResync, EipCleanup, EipRefresh
<1>5. CASE EipAllocate(e)
  <2> DEFINE a == CHOOSE b \in UnusedAllocIds : TRUE
  <2>1. /\ owner[a] = None
        /\ allocated' = allocated \cup {a}
        /\ owner' = [owner EXCEPT ![a] = worker[e].uid]
        /\ UNCHANGED <<eip, status, attached, seen>>
    BY <1>5 DEF EipAllocate, allocate_address, UnusedAllocIds
  <2> HIDE DEF a
  <2>2. Settled
    BY <1>a, <2>1 DEF Settled
  <2> QED BY <1>c, <2>1, <2>2
<1>6. CASE EipDisassociate(e) \/ EipCleanupDisassociate(e)
  <2>1. /\ UNCHANGED <<eip, status, owner, allocated, seen>>
        /\ attached' = attached \/ \E x : disassociate_eip(x)
    BY <1>6 DEF EipDisassociate, EipCleanupDisassociate, disassociate_eip
  <2>2. \A a \in AllocId : attached'[a] = attached[a] \/ attached'[a].port = None
    BY <2>1 DEF disassociate_eip, NoAttachment
  <2> QED BY <1>c, <2>1, <2>2 DEF Settled
<1>7. CASE EipCleanupRelease(e)
  <2>1. /\ UNCHANGED <<eip, status, owner, attached, seen>>
        /\ allocated' \subseteq allocated
    BY <1>7 DEF EipCleanupRelease, release_address
  <2> QED BY <1>c, <2>1 DEF Settled
<1>8. CASE EipFails(e)
  BY <1>8, <1>a, <1>c, <1>s DEF EipFails, Forget
<1>9. CASE EipListResources(e)
  BY <1>9, <1>a, <1>c, <1>s DEF EipListResources, Forget
<1>10. CASE EipSetStatusCreated(e) \/ EipSetStatusDetached(e)
  <2>1. PICK s :
          /\ \/ s.resource = None
             \/ /\ s.resource = status[e].resource
                /\ s.port = status[e].port
                /\ s.assoc = status[e].assoc
          /\ \/ \E done : Store(e, s, done)
             \/ UNCHANGED status /\ (seen' = Forget(e) \/ UNCHANGED seen)
          /\ UNCHANGED <<eip, owner, allocated, attached>>
    <3>1. \A a : /\ StatusCreated(status[e], a).resource = status[e].resource
                /\ StatusCreated(status[e], a).port = status[e].port
                /\ StatusCreated(status[e], a).assoc = status[e].assoc
      BY <1>a DEF EipStatus, StatusCreated
    <3>2. StatusDetached(worker[e].copy).resource = None
      BY <1>a DEF EipStatus, StatusDetached
    <3>3. CASE EipSetStatusCreated(e)
      BY <1>a, <3>1, <3>3 DEF EipSetStatusCreated
    <3>4. CASE EipSetStatusDetached(e)
      BY <1>a, <3>2, <3>4 DEF EipSetStatusDetached
    <3> QED BY <1>10, <3>3, <3>4
  <2>2. Settled
    BY <1>a, <2>1 DEF Settled, Store
  <2>3. \A f \in Eip, n \in Resource : n \in seen'[f] => n \in seen[f]
    BY <1>a, <2>1 DEF Store, Forget
  <2> QED BY <1>c, <2>1, <2>2, <2>3
<1>11. CASE EipRemoveFinalizer(e)
  <2> DEFINE obj == IF eip[e].phase = "deleting" THEN NoEip
                    ELSE [eip[e] EXCEPT !.finalizer = FALSE]
  <2>1. /\ \/ UNCHANGED <<eip, status, seen>>
           \/ /\ eip' = [eip EXCEPT ![e] = obj]
              /\ status' = [status EXCEPT ![e] = IF eip[e].phase = "deleting" THEN NoStatus ELSE @]
              /\ seen' = [seen EXCEPT ![e] = {}]
        /\ UNCHANGED <<owner, allocated, attached>>
    BY <1>11 DEF EipRemoveFinalizer
  <2>2. /\ eip[e].phase # "deleting" => obj.uid = eip[e].uid
        /\ NoStatus.resource = None
    BY <1>a DEF EipMeta, NoStatus
  <2> HIDE DEF obj
  <2> QED BY <1>a, <2>1, <2>2 DEF Settled, SameObjects
<1> QED
  BY <1>1, <1>2, <1>3, <1>4, <1>5, <1>6, <1>7, <1>8, <1>9, <1>10, <1>11
  DEF EipStep, EipStart, EipProgress, EipFault, EipRefreshFails

\* So does the environment.
LEMMA EnvironmentSettles ==
  ASSUME TypeOK, AddressInv, Environment
  PROVE  Settled /\ (\A n \in Resource : SameObjects(n)) /\ UNCHANGED <<cachedRes, task>>
<1> USE DEF eipVars, awsVars, ctlVars, nodeCtlVars
<1>a. /\ status \in [Eip -> EipStatus] /\ eip \in [Eip -> EipMeta]
      /\ seen \in [Eip -> SUBSET Holder]
      /\ NoStatus.resource = None
  BY DEF TypeOK, ClusterTypeOK, NoStatus
<1>1. ASSUME NEW e \in Eip, UserCreates(e)
      PROVE  Settled /\ (\A n \in Resource : SameObjects(n)) /\ UNCHANGED <<cachedRes, task>>
  <2>1. /\ \A f \in Eip \ {e} : eip'[f] = eip[f] /\ seen'[f] = seen[f]
        /\ seen'[e] = {}
        /\ UNCHANGED <<status, owner, allocated, attached, cachedRes, task>>
    BY <1>1, <1>a DEF UserCreates, CreateEip
  <2>2. status[e].resource = None
    BY <1>1, <1>a DEF UserCreates, CreateEip, Exists, AddressInv, PhasesInv
  <2> QED BY <2>1, <2>2 DEF Settled, SameObjects
<1>2. ASSUME NEW e \in Eip, UserDeletes(e)
      PROVE  Settled /\ (\A n \in Resource : SameObjects(n)) /\ UNCHANGED <<cachedRes, task>>
  <2> DEFINE obj == IF eip[e].finalizer THEN [eip[e] EXCEPT !.phase = "deleting"]
                                        ELSE NoEip
  <2>1. /\ eip' = [eip EXCEPT ![e] = obj]
        /\ status' = [status EXCEPT ![e] = IF eip[e].finalizer THEN @ ELSE NoStatus]
        /\ seen' = [seen EXCEPT ![e] = {}]
        /\ UNCHANGED <<owner, allocated, attached, cachedRes, task>>
    BY <1>2 DEF UserDeletes, DeleteEip
  <2>2. eip[e].finalizer => obj.uid = eip[e].uid
    BY <1>a DEF EipMeta
  <2> HIDE DEF obj
  <2> QED BY <1>a, <2>1, <2>2 DEF Settled, SameObjects
<1>3. ASSUME NEW n \in Resource,
             NodeJoins(n) \/ NodeBecomes(n) \/ NodeRelabelled(n) \/ NodeLeaves(n)
      PROVE  Settled /\ (\A m \in Resource : SameObjects(m)) /\ UNCHANGED <<cachedRes, task>>
  <2>1. UNCHANGED <<eip, status, seen, owner, allocated, attached, cachedRes, task>>
    BY <1>3 DEF NodeJoins, NodeBecomes, NodeRelabelled, NodeLeaves, CreateResource,
                ChangeReady, Relabel, DeleteResource, PutResource
  <2> QED BY <2>1 DEF Settled, SameObjects
<1>4. ASSUME NEW p \in Port, InterfaceGone(p)
      PROVE  Settled /\ (\A n \in Resource : SameObjects(n)) /\ UNCHANGED <<cachedRes, task>>
  <2>1. /\ UNCHANGED <<eip, status, seen, owner, allocated, cachedRes, task>>
        /\ \A a \in AllocId : attached'[a] = attached[a] \/ attached'[a].port = None
    BY <1>4 DEF InterfaceGone, PortGone, NoAttachment
  <2> QED BY <2>1 DEF Settled, SameObjects
<1> QED BY <1>1, <1>2, <1>3, <1>4 DEF Environment

\* The reconciliation of a node that claims, associates and records nothing settles.
LEMMA NodeControllerSettles ==
  ASSUME TypeOK, NEW n \in Resource,
         \/ NodeWatch(n) \/ NodeResync(n) \/ NodeAddFinalizer(n)
         \/ NodeApply(n) \/ NodeRelease(n) \/ NodeDescribe(n)
         \/ NodeCleanup(n) \/ NodeCleanupDescribe(n) \/ NodeCleanupDisassociate(n)
         \/ NodeCleanupDetach(n) \/ NodeCleanupLabel(n) \/ NodeRemoveFinalizer(n)
  PROVE  Settled /\ UNCHANGED eip
<1> USE DEF eipVars, awsVars
<1>a. /\ status \in [Eip -> EipStatus]
      /\ \A e : e \in Eip => StatusDetached(status[e]).resource = None
  BY StatusYields DEF TypeOK, ClusterTypeOK
<1>1. CASE NodeRelease(n) \/ NodeCleanupDetach(n)
  <2> DEFINE f == task[n].eip
             s == StatusDetached(status[f])
  <2>1. /\ UNCHANGED <<eip, owner, allocated, attached>>
        /\ status' = status \/ status' = [status EXCEPT ![f] = s]
    BY <1>1 DEF NodeRelease, NodeCleanupDetach, Store
  <2>2. f \in Eip => s.resource = None
    BY <1>a
  <2> HIDE DEF f, s
  <2> QED BY <1>a, <2>1, <2>2 DEF Settled
<1>2. CASE NodeCleanupDisassociate(n)
  <2>1. /\ UNCHANGED <<eip, status, owner, allocated>>
        /\ \A a \in AllocId : attached'[a] = attached[a] \/ attached'[a].port = None
    BY <1>2 DEF NodeCleanupDisassociate, disassociate_eip, NoAttachment
  <2> QED BY <2>1 DEF Settled
<1>3. CASE ~(NodeRelease(n) \/ NodeCleanupDetach(n) \/ NodeCleanupDisassociate(n))
  <2>1. UNCHANGED <<eip, status, owner, allocated, attached>>
    BY <1>3 DEF NodeWatch, NodeResync, NodeAddFinalizer, NodeApply, NodeDescribe, NodeCleanup,
                NodeCleanupDescribe, NodeCleanupLabel, NodeRemoveFinalizer, PutResource
  <2> QED BY <2>1 DEF Settled
<1> QED BY <1>1, <1>2, <1>3

-----------------------------------------------------------------------------
\* Where nodes are.
LEMMA PlacesKept ==
  ASSUME PlacesInv,
         \A n \in Resource :
           /\ res'[n] = res[n] \/ (res'[n].phase # "absent" => res'[n].port \in Port)
           /\ cachedRes'[n] \in {cachedRes[n], res[n]}
           /\ task'[n].pc \in Attaching =>
                \/ task[n].pc \in Attaching /\ task'[n].port = task[n].port
                \/ cachedRes[n].phase # "absent" /\ task'[n].port = cachedRes[n].port
  PROVE  PlacesInv'
BY DEF PlacesInv

\* A resource that is written stays where it is.
LEMMA PutPlaces ==
  ASSUME TypeOK, PlacesInv, NEW n \in Resource, NEW obj, PutResource(n, obj),
         obj.phase # "absent" => obj.port \in Port
  PROVE  \A m \in Resource :
           res'[m] = res[m] \/ (res'[m].phase # "absent" => res'[m].port \in Port)
BY DEF PutResource, TypeOK, ClusterTypeOK

LEMMA EnvironmentPlaces ==
  ASSUME TypeOK, AddressInv, PlacesInv, Environment
  PROVE  PlacesInv'
<1>a. UNCHANGED <<cachedRes, task>>
  BY EnvironmentSettles
<1>b. \A n \in Resource : res[n] \in ResourceObject
  BY DEF TypeOK, ClusterTypeOK
<1>1. ASSUME NEW n \in Resource,
             NodeJoins(n) \/ NodeBecomes(n) \/ NodeRelabelled(n) \/ NodeLeaves(n)
      PROVE  \E obj : /\ PutResource(n, obj)
                      /\ obj.phase # "absent" => obj.port \in Port
  <2>1. CASE NodeJoins(n)
    <3>1. PICK p \in Ports[n], es \in Labels[n] :
            PutResource(n, [phase |-> "live", finalizer |-> FALSE, ready |-> FALSE,
                            matches |-> es, port |-> p])
      BY <2>1 DEF NodeJoins, CreateResource
    <3>2. p \in Port
      BY ClusterAssumption
    <3>3. [phase |-> "live", finalizer |-> FALSE, ready |-> FALSE,
           matches |-> es, port |-> p].port \in Port
      BY <3>2
    <3> QED BY <3>1, <3>3
  <2>2. CASE NodeBecomes(n)
    <3>1. /\ PutResource(n, [res[n] EXCEPT !.ready = ~@])
          /\ res[n].phase # "absent"
      BY <2>2 DEF NodeBecomes, ChangeReady
    <3>2. [res[n] EXCEPT !.ready = ~@].port = res[n].port
      BY <1>b DEF ResourceObject
    <3> QED BY <3>1, <3>2 DEF PlacesInv
  <2>3. CASE NodeRelabelled(n)
    <3>1. PICK es : PutResource(n, [res[n] EXCEPT !.matches = es])
      BY <2>3 DEF NodeRelabelled, Relabel
    <3>2. res[n].phase # "absent" /\ [res[n] EXCEPT !.matches = es].port = res[n].port
      BY <1>b, <2>3 DEF ResourceObject, NodeRelabelled, Relabel
    <3> QED BY <3>1, <3>2 DEF PlacesInv
  <2>4. CASE NodeLeaves(n)
    <3> DEFINE obj == IF res[n].finalizer THEN [res[n] EXCEPT !.phase = "deleting"]
                                          ELSE NoResource
    <3>1. PutResource(n, obj) /\ res[n].phase = "live"
      BY <2>4 DEF NodeLeaves, DeleteResource
    <3>2. obj.phase # "absent" => obj.port = res[n].port
      BY <1>b DEF ResourceObject, NoResource
    <3> HIDE DEF obj
    <3> QED BY <3>1, <3>2 DEF PlacesInv
  <2> QED BY <1>1, <2>1, <2>2, <2>3, <2>4
<1>2. \A m \in Resource :
        res'[m] = res[m] \/ (res'[m].phase # "absent" => res'[m].port \in Port)
  <2>1. CASE \E n \in Resource :
               NodeJoins(n) \/ NodeBecomes(n) \/ NodeRelabelled(n) \/ NodeLeaves(n)
    BY <1>1, <2>1, PutPlaces
  <2>2. CASE UNCHANGED res
    BY <2>2
  <2>3. ASSUME NEW e \in Eip, UserCreates(e) \/ UserDeletes(e) PROVE UNCHANGED res
    BY <2>3 DEF UserCreates, CreateEip, UserDeletes, DeleteEip, resVars
  <2>4. ASSUME NEW p \in Port, InterfaceGone(p) PROVE UNCHANGED res
    BY <2>4 DEF InterfaceGone, PortGone, resVars
  <2> QED BY <2>1, <2>2, <2>3, <2>4 DEF Environment
<1> QED BY <1>a, <1>2, PlacesKept

\* The list of apply, and what it makes of the task.
LEMMA ApplyTask ==
  ASSUME TypeOK, NEW n \in Resource, NodeApply(n)
  PROVE  /\ task[n].pc = "idle" /\ NodeSlotFree /\ cachedRes[n].phase # "absent"
         /\ \/ UNCHANGED task
            \/ \E e \in Eip, t \in Task :
                 /\ Exists(e)
                 /\ Continue(n, t)
                 /\ \/ t.pc = "release"
                    \/ /\ t.pc = "describe"
                       /\ t.eip = e
                       /\ t.alloc = status[e].alloc
                       /\ t.alloc # None
                       /\ t.port = cachedRes[n].port
<1> DEFINE describing(e) == [IdleTask EXCEPT !.pc = "describe", !.eip = e,
                              !.port = cachedRes[n].port, !.alloc = status[e].alloc]
           releasing(e) == [IdleTask EXCEPT !.pc = "release", !.eip = e]
<1>1. \/ UNCHANGED task
      \/ \E e \in MatchedEips(n) :
           \/ status[e].alloc # None /\ Continue(n, describing(e))
           \/ Continue(n, releasing(e))
  BY Zenon DEF NodeApply
<1>2. \A e : e \in MatchedEips(n) => e \in Eip /\ Exists(e)
  BY NodeControllerAssumption DEF MatchedEips
<1>3. \A e : /\ describing(e).pc = "describe"
             /\ describing(e).eip = e
             /\ describing(e).alloc = status[e].alloc
             /\ describing(e).port = cachedRes[n].port
             /\ releasing(e).pc = "release"
  BY DEF IdleTask
<1>4. \A e : e \in Eip => describing(e) \in Task /\ releasing(e) \in Task
  BY IdleTaskType DEF Task, IdleTask, TypeOK, ClusterTypeOK, NodeControllerTypeOK, EipStatus,
                      ResourceObject
<1> HIDE DEF describing, releasing
<1>5. task[n].pc = "idle" /\ NodeSlotFree /\ cachedRes[n].phase # "absent"
  BY DEF NodeApply, NodeReady
<1> QED BY <1>1, <1>2, <1>3, <1>4, <1>5

\* The steps after which a node has no address in hand and nothing to record.
Resting == {"idle", "release", "cleanup", "disassociate", "detach", "label", "finalize"}

LEMMA RestingTasks ==
  ASSUME TypeOK, NEW n \in Resource,
         \/ NodeRelease(n) \/ NodeRecord(n) \/ NodeCleanup(n) \/ NodeCleanupDescribe(n)
         \/ NodeCleanupDisassociate(n) \/ NodeCleanupDetach(n) \/ NodeCleanupLabel(n)
         \/ NodeRemoveFinalizer(n)
  PROVE  /\ \E t : Continue(n, t) /\ t.pc \in Resting
         /\ task[n].pc # "idle" \/ NodeSlotFree
         /\ task[n].pc = "record" => NodeRecord(n)
<1>a. task[n] \in Task
  BY DEF TypeOK, NodeControllerTypeOK
<1>b. /\ task[n].pc # "idle" \/ NodeSlotFree
      /\ task[n].pc = "record" => NodeRecord(n)
  BY DEF NodeRelease, NodeRecord, NodeCleanup, NodeReady, NodeCleanupDescribe,
         NodeCleanupDisassociate, NodeCleanupDetach, NodeCleanupLabel, NodeRemoveFinalizer
<1>c. ASSUME NEW again, NodeEnd(n, again) PROVE \E t : Continue(n, t) /\ t.pc \in Resting
  BY <1>c DEF NodeEnd, IdleTask, Resting
<1>1. CASE NodeRelease(n) \/ NodeRecord(n) \/ NodeRemoveFinalizer(n)
  BY <1>1, <1>b, <1>c DEF NodeRelease, NodeRecord, NodeRemoveFinalizer
<1>2. CASE NodeCleanup(n)
  <2> DEFINE todo == {<<e, status[e].alloc>> : e \in
                       {e \in MatchedEips(n) : status[e].present /\ status[e].resource = n}}
             t == [IdleTask EXCEPT !.pc = CleanupStep(todo), !.todo = todo]
  <2>1. Continue(n, t)
    BY <1>2 DEF NodeCleanup
  <2>2. t.pc \in {"cleanup", "label"}
    <3> HIDE DEF todo
    <3> QED BY DEF IdleTask, CleanupStep
  <2> HIDE DEF t
  <2> QED BY <1>b, <2>1, <2>2 DEF Resting
<1>3. CASE NodeCleanupDescribe(n)
  <2>1. \A e, x : \A pc \in {"detach", "disassociate"} :
          [task[n] EXCEPT !.eip = e, !.assoc = x, !.pc = pc].pc = pc
    BY <1>a DEF Task
  <2>2. \/ \E e, x : \E pc \in {"detach", "disassociate"} :
             Continue(n, [task[n] EXCEPT !.eip = e, !.assoc = x, !.pc = pc])
        \/ \E again : NodeEnd(n, again)
    BY <1>3 DEF NodeCleanupDescribe
  <2>3. \/ \E t : Continue(n, t) /\ t.pc \in {"detach", "disassociate"}
        \/ \E again : NodeEnd(n, again)
    BY <2>1, <2>2
  <2> QED BY <1>b, <1>c, <2>3 DEF Resting
<1>4. CASE NodeCleanupDisassociate(n)
  <2>1. [task[n] EXCEPT !.pc = "detach", !.assoc = None].pc = "detach"
    BY <1>a DEF Task
  <2> QED BY <1>4, <1>b, <2>1 DEF NodeCleanupDisassociate, Resting
<1>5. CASE NodeCleanupDetach(n)
  <2> DEFINE rest == {s \in task[n].todo : s[1] # task[n].eip}
             t == [IdleTask EXCEPT !.pc = CleanupStep(rest), !.todo = rest]
  <2>1. t.pc \in {"cleanup", "label"}
    <3> HIDE DEF rest
    <3> QED BY DEF IdleTask, CleanupStep
  <2>2. Continue(n, t) \/ \E again : NodeEnd(n, again)
    BY <1>5 DEF NodeCleanupDetach
  <2> HIDE DEF t
  <2> QED BY <1>b, <1>c, <2>1, <2>2 DEF Resting
<1>6. CASE NodeCleanupLabel(n)
  <2>1. [IdleTask EXCEPT !.pc = "finalize"].pc = "finalize"
    BY DEF IdleTask
  <2> QED BY <1>6, <1>b, <2>1 DEF NodeCleanupLabel, Resting
<1> QED BY <1>1, <1>2, <1>3, <1>4, <1>5, <1>6

\* The tasks of the steps between: the address is described, claimed and associated.
LEMMA DescribeTask ==
  ASSUME TypeOK, NEW n \in Resource, NodeDescribe(n)
  PROVE  \/ \E again : NodeEnd(n, again)
         \/ \E t : /\ Continue(n, t) /\ seen' = seen
                   /\ t.pc = "claim"
                   /\ t.eip = task[n].eip /\ t.port = task[n].port
                   /\ t.alloc = task[n].alloc /\ t.alloc \in allocated
                   /\ attached[t.alloc].port # t.port
<1> DEFINE t == [task[n] EXCEPT !.pc = "claim"]
<1>1. t.pc = "claim" /\ t.eip = task[n].eip /\ t.port = task[n].port /\ t.alloc = task[n].alloc
  BY DEF Task, TypeOK, NodeControllerTypeOK
<1>2. \/ \E again : NodeEnd(n, again)
      \/ /\ Continue(n, t) /\ seen' = seen
         /\ task[n].alloc \in allocated
         /\ attached[task[n].alloc].port # task[n].port
  BY DEF NodeDescribe
<1> HIDE DEF t
<1> QED BY <1>1, <1>2

LEMMA ClaimTask ==
  ASSUME TypeOK, NEW n \in Resource, NodeClaim(n)
  PROVE  \/ status' = status /\ \E again : NodeEnd(n, again)
         \/ \E t, s : /\ n \in seen[task[n].eip]
                      /\ Store(task[n].eip, s, {n})
                      /\ Continue(n, t)
                      /\ t.pc = "associate" /\ t.port = task[n].port
                      /\ task[n].eip \in Eip => s.resource = n /\ s.port = task[n].port
<1> DEFINE t == [task[n] EXCEPT !.pc = "associate"]
           s == StatusShouldAttach(status[task[n].eip], n, task[n].port)
<1>1. t.pc = "associate" /\ t.port = task[n].port
  BY DEF Task, TypeOK, NodeControllerTypeOK
<1>2. task[n].eip \in Eip => s.resource = n /\ s.port = task[n].port
  BY DEF EipStatus, StatusShouldAttach, TypeOK, ClusterTypeOK
<1>3. \/ status' = status /\ \E again : NodeEnd(n, again)
      \/ n \in seen[task[n].eip] /\ Store(task[n].eip, s, {n}) /\ Continue(n, t)
  BY DEF NodeClaim
<1> HIDE DEF t, s
<1> QED BY <1>1, <1>2, <1>3

LEMMA AssociateTask ==
  ASSUME TypeOK, NEW n \in Resource, NEW x, NodeAssociate(n, x)
  PROVE  \/ UNCHANGED <<owner, allocated, attached>> /\ \E again : NodeEnd(n, again)
         \/ \E t : /\ task[n].alloc \in allocated
                   /\ associate_eip(task[n].alloc, task[n].port, x)
                   /\ Continue(n, t)
                   /\ t.pc = "record" /\ t.eip = task[n].eip /\ t.assoc = x
<1> DEFINE t == [IdleTask EXCEPT !.pc = "record", !.eip = task[n].eip, !.assoc = x]
<1>1. t.pc = "record" /\ t.eip = task[n].eip /\ t.assoc = x
  BY DEF IdleTask
<1>2. \/ UNCHANGED <<owner, allocated, attached>> /\ \E again : NodeEnd(n, again)
      \/ /\ task[n].alloc \in allocated
         /\ associate_eip(task[n].alloc, task[n].port, x)
         /\ Continue(n, t)
  BY DEF NodeAssociate, awsVars
<1> HIDE DEF t
<1> QED BY <1>1, <1>2

\* The task of n goes on at the port it had, or ends.
LEMMA TaskPlaces ==
  ASSUME TypeOK, PlacesInv, NEW n \in Resource, NEW t, Continue(n, t),
         t.pc \in Attaching =>
           \/ task[n].pc \in Attaching /\ t.port = task[n].port
           \/ cachedRes[n].phase # "absent" /\ t.port = cachedRes[n].port,
         UNCHANGED cachedRes,
         \A m \in Resource :
           res'[m] = res[m] \/ (res'[m].phase # "absent" => res'[m].port \in Port)
  PROVE  PlacesInv'
<1>1. task'[n] = t /\ \A m \in Resource : m # n => task'[m] = task[m]
  BY DEF Continue, TypeOK, NodeControllerTypeOK
<1> QED BY <1>1, PlacesKept

\* A node step keeps nodes where they are.
LEMMA NodeControllerPlaces ==
  ASSUME TypeOK, PlacesInv, NEW n \in Resource,
         \/ NodeWatch(n) \/ NodeResync(n) \/ NodeAddFinalizer(n)
         \/ NodeApply(n) \/ NodeRelease(n) \/ NodeDescribe(n) \/ NodeClaim(n)
         \/ (\E x \in AssocId : NodeAssociate(n, x)) \/ NodeRecord(n)
         \/ NodeCleanup(n) \/ NodeCleanupDescribe(n) \/ NodeCleanupDisassociate(n)
         \/ NodeCleanupDetach(n) \/ NodeCleanupLabel(n) \/ NodeRemoveFinalizer(n)
  PROVE  PlacesInv'
<1> USE DEF resVars
<1>a. res[n] \in ResourceObject /\ cachedRes \in [Resource -> ResourceObject]
  BY DEF TypeOK, ClusterTypeOK, NodeControllerTypeOK
<1>1. CASE NodeWatch(n) \/ NodeResync(n)
  BY <1>1, <1>a, PlacesKept DEF NodeWatch, NodeResync
<1>2. CASE NodeAddFinalizer(n)
  <2> DEFINE obj == [res[n] EXCEPT !.finalizer = TRUE]
  <2>1. PutResource(n, obj) /\ res[n].phase # "absent" /\ UNCHANGED <<cachedRes, task>>
    BY <1>2 DEF NodeAddFinalizer
  <2>2. obj.port = res[n].port
    BY <1>a DEF ResourceObject
  <2> HIDE DEF obj
  <2>3. \A m \in Resource :
          res'[m] = res[m] \/ (res'[m].phase # "absent" => res'[m].port \in Port)
    BY <2>1, <2>2, PutPlaces DEF PlacesInv
  <2> QED BY <2>1, <2>3, PlacesKept
<1>b. ASSUME NEW again, NodeEnd(n, again), UNCHANGED <<res, cachedRes>> PROVE PlacesInv'
  BY <1>b, TaskPlaces DEF NodeEnd, IdleTask, Attaching
<1>3. CASE NodeApply(n)
  <2>1. UNCHANGED <<res, cachedRes>>
    BY <1>3 DEF NodeApply
  <2>2. CASE UNCHANGED task
    BY <2>1, <2>2, PlacesKept
  <2>3. CASE \E t : /\ Continue(n, t)
                    /\ \/ t.pc = "release"
                       \/ t.port = cachedRes[n].port /\ cachedRes[n].phase # "absent"
    BY <2>1, <2>3, TaskPlaces DEF Attaching
  <2> QED BY <1>3, <2>2, <2>3, ApplyTask
<1>4. CASE NodeDescribe(n)
  <2>1. UNCHANGED <<res, cachedRes>> /\ task[n].pc \in Attaching
    BY <1>4 DEF NodeDescribe, Attaching
  <2>2. (\E again : NodeEnd(n, again)) \/ \E t : Continue(n, t) /\ t.port = task[n].port
    BY <1>4, DescribeTask
  <2>3. ASSUME NEW t, Continue(n, t), t.port = task[n].port PROVE PlacesInv'
    BY <2>1, <2>3, TaskPlaces
  <2> QED BY <1>b, <2>1, <2>2, <2>3
<1>5. CASE NodeClaim(n)
  <2>1. UNCHANGED <<res, cachedRes>> /\ task[n].pc \in Attaching
    BY <1>5 DEF NodeClaim, Attaching
  <2>2. (\E again : NodeEnd(n, again)) \/ \E t : Continue(n, t) /\ t.port = task[n].port
    BY <1>5, ClaimTask
  <2>3. ASSUME NEW t, Continue(n, t), t.port = task[n].port PROVE PlacesInv'
    BY <2>1, <2>3, TaskPlaces
  <2> QED BY <1>b, <2>1, <2>2, <2>3
<1>6. ASSUME NEW x \in AssocId, NodeAssociate(n, x) PROVE PlacesInv'
  <2>1. UNCHANGED <<res, cachedRes>>
    BY <1>6 DEF NodeAssociate
  <2>2. (\E again : NodeEnd(n, again)) \/ \E t : Continue(n, t) /\ t.pc = "record"
    BY <1>6, AssociateTask
  <2>3. ASSUME NEW t, Continue(n, t), t.pc = "record" PROVE PlacesInv'
    BY <2>1, <2>3, TaskPlaces DEF Attaching
  <2> QED BY <1>b, <2>1, <2>2, <2>3
<1>7. CASE \/ NodeRelease(n) \/ NodeRecord(n) \/ NodeCleanup(n) \/ NodeCleanupDescribe(n)
           \/ NodeCleanupDisassociate(n) \/ NodeCleanupDetach(n) \/ NodeCleanupLabel(n)
           \/ NodeRemoveFinalizer(n)
  <2>1. PICK t : Continue(n, t) /\ t.pc \in Resting
    BY <1>7, RestingTasks
  <2>2. UNCHANGED cachedRes
    BY <1>7 DEF NodeRelease, NodeRecord, NodeCleanup, NodeCleanupDescribe,
                NodeCleanupDisassociate, NodeCleanupDetach, NodeCleanupLabel, NodeRemoveFinalizer
  <2>3. CASE NodeRemoveFinalizer(n) /\ res[n].finalizer
    <3> DEFINE obj == IF res[n].phase = "deleting" THEN NoResource
                      ELSE [res[n] EXCEPT !.finalizer = FALSE]
    <3>1. PutResource(n, obj)
      BY <2>3 DEF NodeRemoveFinalizer
    <3>2. obj.phase # "absent" => res[n].phase # "absent" /\ obj.port = res[n].port
      BY <1>a DEF ResourceObject, NoResource
    <3> HIDE DEF obj
    <3>3. \A m \in Resource :
            res'[m] = res[m] \/ (res'[m].phase # "absent" => res'[m].port \in Port)
      BY <3>1, <3>2, PutPlaces DEF PlacesInv
    <3> QED BY <2>1, <2>2, <3>3, TaskPlaces DEF Resting, Attaching
  <2>4. CASE ~(NodeRemoveFinalizer(n) /\ res[n].finalizer)
    <3>1. UNCHANGED res
      BY <1>7, <2>4 DEF NodeRelease, NodeRecord, NodeCleanup, NodeCleanupDescribe,
                        NodeCleanupDisassociate, NodeCleanupDetach, NodeCleanupLabel,
                        NodeRemoveFinalizer
    <3> QED BY <2>1, <2>2, <3>1, TaskPlaces DEF Resting, Attaching
  <2> QED BY <2>3, <2>4
<1> QED BY <1>1, <1>2, <1>3, <1>4, <1>5, <1>6, <1>7

-----------------------------------------------------------------------------
\* What a node has in hand.
Hand(n) ==
  /\ \/ task[n].pc \in {"describe", "claim"} /\ n \in seen[task[n].eip]
     \/ task[n].pc = "associate" /\ status[task[n].eip].resource = n
     => eip[task[n].eip].uid = owner[task[n].alloc]
  /\ task[n].pc = "claim" =>
       \A a \in allocated : owner[a] = owner[task[n].alloc]
                            => attached[a].port # task[n].port
  /\ task[n].pc = "record" =>
       task[n].eip \in Eip /\ status[task[n].eip].resource \in {None, n}

\* A step that leaves every task alone.
LEMMA QuietHands ==
  ASSUME TypeOK, TypeOK', History, SlotInv, AssociationInv, Settled, UNCHANGED task,
         \A n \in Resource : SameObjects(n)
  PROVE  InHandInv'
<1> SUFFICES ASSUME NEW n \in Resource PROVE Hand(n)'
  BY DEF InHandInv, Hand
<1>a. Hand(n) /\ PortsInv /\ PlacesInv
  BY DEF AssociationInv, InHandInv, Hand
<1>b. task[n].pc \in Attaching =>
        /\ task[n].eip \in Eip
        /\ task[n].alloc \in AllocId
        /\ owner'[task[n].alloc] = owner[task[n].alloc]
        /\ owner[task[n].alloc] # None
        /\ task[n].port \in Port
  BY <1>a DEF SlotInv, AttachingInv, PlacesInv, History
<1>1. \/ task[n].pc \in {"describe", "claim"} /\ n \in seen'[task[n].eip]
      \/ task[n].pc = "associate" /\ status'[task[n].eip].resource = n
      => eip'[task[n].eip].uid = owner'[task[n].alloc]
  <2>1. n # None
    BY ClusterAssumption
  <2> QED BY <1>a, <1>b, <2>1 DEF Hand, SameObjects, Settled, Attaching
<1>2. ASSUME task[n].pc = "claim", NEW a \in allocated',
             owner'[a] = owner'[task[n].alloc], attached'[a].port = task[n].port
      PROVE  FALSE
  <2>1. a \in AllocId
    BY DEF TypeOK, ClusterTypeOK
  <2>2. task[n].port \in Port /\ None \notin Port
    BY <1>2, <1>b, ClusterAssumption DEF Attaching
  <2>3. attached'[a] = attached[a]
    BY <1>2, <2>1, <2>2 DEF Settled
  <2>4. owner[a] # None
    BY <1>2, <1>a, <2>1, <2>2, <2>3 DEF PortsInv
  <2>5. a \in allocated /\ owner'[a] = owner[a]
    BY <2>1, <2>4 DEF Settled
  <2>6. owner[a] = owner[task[n].alloc]
    BY <1>2, <1>b, <2>5 DEF Attaching
  <2> QED BY <1>a, <1>2, <2>3, <2>5, <2>6 DEF Hand
<1>3. task[n].pc = "record" =>
        task[n].eip \in Eip /\ status'[task[n].eip].resource \in {None, n}
  BY <1>a DEF Hand, Settled
<1> QED BY <1>1, <1>2, <1>3 DEF Hand

\* Only one hand is full.
LEMMA OneHand ==
  ASSUME TypeOK, SlotInv, NEW n \in Resource, NEW t, Continue(n, t), Hand(n)',
         task[n].pc # "idle" \/ NodeSlotFree
  PROVE  InHandInv'
<1>1. \A m \in Resource : m # n => task'[m].pc = "idle"
  <2>1. \A m \in Resource : m # n => task'[m] = task[m]
    BY DEF Continue, TypeOK, NodeControllerTypeOK
  <2> QED BY <2>1, SlotFree DEF SlotInv, OneNodeAtATime
<1> QED BY <1>1 DEF InHandInv, Hand

\* A reconciliation ends, or rests.
LEMMA EmptyHand ==
  ASSUME TypeOK, SlotInv, NEW n \in Resource, NEW t, Continue(n, t), t.pc \in Resting,
         task[n].pc # "idle" \/ NodeSlotFree
  PROVE  InHandInv'
<1>1. task'[n] = t
  BY DEF Continue, TypeOK, NodeControllerTypeOK
<1>2. Hand(n)'
  BY <1>1 DEF Hand, Resting
<1> QED BY <1>2, OneHand

LEMMA EndHand ==
  ASSUME TypeOK, SlotInv, NEW n \in Resource, NEW again, NodeEnd(n, again),
         task[n].pc # "idle"
  PROVE  InHandInv'
<1>1. IdleTask.pc \in Resting
  BY DEF IdleTask, Resting
<1> QED BY <1>1, EmptyHand DEF NodeEnd

\* The list of apply: an allocation id of the listed status is the one of its object.
LEMMA ApplyHands ==
  ASSUME TypeOK, TypeOK', History, AddressInv, SlotInv, AssociationInv,
         NEW n \in Resource, NodeApply(n)
  PROVE  InHandInv'
<1>1. CASE UNCHANGED task
  <2>1. \A m \in Resource : task[m].pc = "idle"
    BY ApplyTask, SlotFree
  <2> QED BY <1>1, <2>1 DEF InHandInv
<1>2. ASSUME NEW t, Continue(n, t), t.pc = "release"
      PROVE  InHandInv'
  BY <1>2, ApplyTask, EmptyHand DEF Resting
<1>3. ASSUME NEW e \in Eip, NEW t, Continue(n, t), t.pc = "describe",
             t.eip = e, t.alloc = status[e].alloc, t.alloc # None
      PROVE  InHandInv'
  <2>1. task'[n] = t
    BY <1>3 DEF Continue, TypeOK, NodeControllerTypeOK
  <2>2. UNCHANGED <<eip, owner>>
    BY DEF NodeApply, awsVars
  <2>3. eip[e].uid = owner[t.alloc]
    BY <1>3 DEF AddressInv, StatusNamesOwnAddress
  <2>4. Hand(n)'
    BY <1>3, <2>1, <2>2, <2>3 DEF Hand
  <2> QED BY <1>3, <2>4, ApplyTask, OneHand
<1> QED BY <1>1, <1>2, <1>3, ApplyTask

\* The description: the only address of the Eip is not on the port of the node.
LEMMA DescribeHands ==
  ASSUME TypeOK, AddressInv, SlotInv, AssociationInv, NEW n \in Resource, NodeDescribe(n)
  PROVE  InHandInv'
<1>a. task[n].pc = "describe" /\ UNCHANGED <<eip, owner, allocated, attached>>
  BY DEF NodeDescribe, awsVars
<1>1. ASSUME NEW t, Continue(n, t), seen' = seen, t.pc = "claim",
             t.eip = task[n].eip, t.port = task[n].port,
             t.alloc = task[n].alloc, t.alloc \in allocated,
             attached[t.alloc].port # t.port
      PROVE  InHandInv'
  <2>1. task'[n] = t
    BY <1>1 DEF Continue, TypeOK, NodeControllerTypeOK
  <2>2. n \in seen[t.eip] => eip[t.eip].uid = owner[t.alloc]
    BY <1>1, <1>a DEF AssociationInv, InHandInv
  <2>3. \A a \in allocated : owner[a] = owner[t.alloc] => attached[a].port # t.port
    BY <1>1 DEF AddressInv, OneAddressPerEip
  <2>4. Hand(n)'
    BY <1>1, <1>a, <2>1, <2>2, <2>3 DEF Hand
  <2> QED BY <1>1, <1>a, <2>4, OneHand
<1>2. ASSUME NEW again, NodeEnd(n, again) PROVE InHandInv'
  BY <1>2, <1>a, EndHand
<1> QED BY <1>1, <1>2, DescribeTask

\* The claim: the copy was current, so the address is the one of the object that is
\* claimed.
LEMMA ClaimHands ==
  ASSUME TypeOK, SlotInv, AssociationInv, NEW n \in Resource, NodeClaim(n)
  PROVE  InHandInv'
<1>a. task[n].pc = "claim" /\ UNCHANGED <<eip, owner>> /\ task[n] \in Task
  BY DEF NodeClaim, awsVars, TypeOK, NodeControllerTypeOK
<1>1. ASSUME Continue(n, [task[n] EXCEPT !.pc = "associate"]), n \in seen[task[n].eip]
      PROVE  InHandInv'
  <2> DEFINE t == [task[n] EXCEPT !.pc = "associate"]
  <2>1. t.pc = "associate" /\ t.eip = task[n].eip /\ t.alloc = task[n].alloc
    BY <1>a DEF Task
  <2>2. Continue(n, t)
    BY <1>1
  <2> HIDE DEF t
  <2>3. task'[n] = t
    BY <2>2 DEF Continue, TypeOK, NodeControllerTypeOK
  <2>4. eip[t.eip].uid = owner[t.alloc]
    BY <1>1, <1>a, <2>1 DEF AssociationInv, InHandInv
  <2>5. Hand(n)'
    BY <1>a, <2>1, <2>3, <2>4 DEF Hand
  <2> QED BY <1>a, <2>2, <2>5, OneHand
<1>2. ASSUME NEW again, NodeEnd(n, again) PROVE InHandInv'
  BY <1>2, <1>a, EndHand
<1> QED BY <1>1, <1>2 DEF NodeClaim

\* The node whose association is to be recorded still is the only one.
LEMMA AssociateHands ==
  ASSUME TypeOK, SlotInv, NEW n \in Resource, NEW x, NodeAssociate(n, x)
  PROVE  InHandInv'
<1>a. task[n].pc = "associate" /\ UNCHANGED status
  BY DEF NodeAssociate, eipVars
<1>1. ASSUME NEW t, Continue(n, t), t.pc = "record", t.eip = task[n].eip
      PROVE  InHandInv'
  <2>1. task'[n] = t
    BY <1>1 DEF Continue, TypeOK, NodeControllerTypeOK
  <2>2. t.eip \in Eip /\ status[t.eip].resource \in {None, n}
    BY <1>1, <1>a DEF SlotInv, AttachingInv, Attaching
  <2>3. Hand(n)'
    BY <1>1, <1>a, <2>1, <2>2 DEF Hand
  <2> QED BY <1>1, <1>a, <2>3, OneHand
<1> QED BY <1>1, <1>a, AssociateTask, EndHand

-----------------------------------------------------------------------------
\* The claim: the address of the Eip is not on the port that is claimed.
LEMMA ClaimKnown ==
  ASSUME TypeOK, TypeOK', SlotInv, AssociationInv, NEW n \in Resource, NodeClaim(n)
  PROVE  PortsInv' /\ KnownInv'
<1> DEFINE f == task[n].eip
<1>a. /\ task[n].pc = "claim" /\ f \in Eip
      /\ UNCHANGED <<eip, owner, allocated, attached>>
      /\ PortsInv /\ PlacesInv /\ InHandInv /\ KnownInv
      /\ status \in [Eip -> EipStatus]
  BY DEF NodeClaim, awsVars, SlotInv, AttachingInv, Attaching, AssociationInv, TypeOK,
         ClusterTypeOK
<1>b. task' \in [Resource -> Task] /\ task \in [Resource -> Task]
  BY DEF TypeOK, NodeControllerTypeOK
<1>1. ASSUME NEW again, NodeEnd(n, again), status' = status PROVE PortsInv' /\ KnownInv'
  <2>1. \A m \in Resource : m # n => task'[m] = task[m]
    BY <1>1, <1>b DEF NodeEnd, Continue
  <2>2. task'[n].pc = "idle"
    BY <1>1, <1>b DEF NodeEnd, Continue, IdleTask
  <2>3. \A m \in Resource : RecordsSame(m)
    BY <1>a, <2>1, <2>2 DEF RecordsSame
  <2>4. Settled
    BY <1>a, <1>1 DEF Settled
  <2> QED BY <1>a, <2>3, <2>4, SettledPorts, SettledKnown
<1>2. ASSUME NEW t, NEW s, n \in seen[f], Store(f, s, {n}), Continue(n, t),
             t.pc = "associate", t.port = task[n].port,
             s.resource = n, s.port = task[n].port
      PROVE  PortsInv' /\ KnownInv'
  <2>1. /\ task'[n].pc = "associate"
        /\ \A m \in Resource : m # n => task'[m] = task[m]
    BY <1>2, <1>b DEF Continue
  <2>2. status'[f] = s /\ \A e \in Eip : e # f => status'[e] = status[e]
    BY <1>2, <1>a DEF Store
  <2>3. s.port \in Port
    BY <1>2, <1>a DEF PlacesInv, Attaching
  <2>4. PortsInv'
    BY <1>a, <2>2, <2>3 DEF PortsInv
  <2>5. ASSUME NEW e \in Eip, NEW m \in Resource, NEW a \in allocated',
               status'[e].resource = m,
               owner'[a] = eip'[e].uid,
               attached'[a].port = status'[e].port
        PROVE  attached'[a].assoc = IF task'[m].pc = "record" /\ task'[m].eip = e
                                      THEN task'[m].assoc ELSE status'[e].assoc
    <3>1. e # f
      <4>1. eip[f].uid = owner[task[n].alloc]
        BY <1>a, <1>2 DEF InHandInv
      <4>2. \A b \in allocated : owner[b] = owner[task[n].alloc]
                                 => attached[b].port # task[n].port
        BY <1>a DEF InHandInv
      <4> QED BY <1>a, <1>2, <2>2, <2>5, <4>1, <4>2
    <3>2. attached[a].assoc = IF task[m].pc = "record" /\ task[m].eip = e
                                THEN task[m].assoc ELSE status[e].assoc
      BY <1>a, <2>2, <2>5, <3>1 DEF KnownInv
    <3> QED BY <1>a, <2>1, <2>2, <3>1, <3>2
  <2> QED BY <2>4, <2>5 DEF KnownInv
<1> QED BY <1>1, <1>2, <1>a, ClaimTask

\* The association: it is in the hand of the node, if the claim still stands.
LEMMA AssociateKnown ==
  ASSUME TypeOK, TypeOK', AddressInv, SlotInv, AssociationInv,
         NEW n \in Resource, NEW x, NodeAssociate(n, x)
  PROVE  PortsInv' /\ KnownInv'
<1> DEFINE f == task[n].eip
           al == task[n].alloc
<1>a. /\ task[n].pc = "associate" /\ f \in Eip /\ al \in AllocId
      /\ UNCHANGED <<eip, status>>
      /\ PortsInv /\ PlacesInv /\ InHandInv /\ KnownInv
      /\ status[f].resource \in {None, n}
      /\ owner[al] # None
      /\ \A e \in Eip : eip[e].uid = owner[al] => e = f
      /\ task[n].port \in Port
  BY DEF NodeAssociate, eipVars, SlotInv, AttachingInv, Attaching, AssociationInv, PlacesInv
<1>b. /\ task' \in [Resource -> Task] /\ task \in [Resource -> Task]
      /\ allocated \subseteq AllocId
  BY DEF TypeOK, ClusterTypeOK, NodeControllerTypeOK
<1>1. ASSUME NEW again, NodeEnd(n, again), UNCHANGED <<owner, allocated, attached>>
      PROVE  PortsInv' /\ KnownInv'
  <2>1. \A m \in Resource : m # n => task'[m] = task[m]
    BY <1>1, <1>b DEF NodeEnd, Continue
  <2>2. task'[n].pc = "idle"
    BY <1>1, <1>b DEF NodeEnd, Continue, IdleTask
  <2>3. \A m \in Resource : RecordsSame(m)
    BY <1>a, <2>1, <2>2 DEF RecordsSame
  <2>4. Settled
    BY <1>a, <1>1 DEF Settled
  <2> QED BY <1>a, <2>3, <2>4, SettledPorts, SettledKnown
<1>2. ASSUME NEW t, al \in allocated, associate_eip(al, task[n].port, x), Continue(n, t),
             t.pc = "record", t.eip = f, t.assoc = x
      PROVE  PortsInv' /\ KnownInv'
  <2>1. /\ task'[n] = t
        /\ \A m \in Resource : m # n => task'[m] = task[m] /\ task[m].pc = "idle"
    BY <1>2, <1>a, <1>b DEF Continue, SlotInv, OneNodeAtATime
  <2>2. /\ UNCHANGED <<owner, allocated>>
        /\ attached'[al].port = task[n].port /\ attached'[al].assoc = x
        /\ \A b \in AllocId : b # al => \/ attached'[b].port = None
                                       \/ /\ attached'[b] = attached[b]
                                          /\ attached[b].port # task[n].port
    BY <1>2, <1>a DEF associate_eip, NoAttachment
  <2>3. PortsInv'
    BY <1>a, <2>2 DEF PortsInv
  <2>4. ASSUME NEW e \in Eip, NEW m \in Resource, NEW a \in allocated',
               status'[e].resource = m,
               owner'[a] = eip'[e].uid,
               attached'[a].port = status'[e].port
        PROVE  attached'[a].assoc = IF task'[m].pc = "record" /\ task'[m].eip = e
                                      THEN task'[m].assoc ELSE status'[e].assoc
    <3>1. /\ status[e].resource = m /\ owner[a] = eip[e].uid
          /\ a \in AllocId /\ a \in allocated
          /\ m # None
      BY <1>a, <1>b, <2>2, <2>4, ClusterAssumption
    <3>2. status[e].port \in Port /\ status[e].port # None
      BY <1>a, <3>1, ClusterAssumption DEF PortsInv
    <3>3. CASE a = al
      <4>1. e = f
        BY <1>a, <3>1, <3>3
      <4>2. m = n
        BY <1>a, <3>1, <4>1
      <4> QED BY <1>2, <2>1, <2>2, <3>3, <4>1, <4>2
    <3>4. CASE a # al
      <4>1. attached'[a] = attached[a]
        BY <1>a, <2>2, <2>4, <3>1, <3>2, <3>4
      <4>2. attached[a].assoc = IF task[m].pc = "record" /\ task[m].eip = e
                                  THEN task[m].assoc ELSE status[e].assoc
        BY <1>a, <2>4, <3>1, <4>1 DEF KnownInv
      <4>3. attached[a].assoc = status[e].assoc
        BY <1>a, <2>1, <4>2
      <4>4. ~(m = n /\ e = f)
        <5>1. SUFFICES ASSUME m = n, e = f PROVE FALSE
          OBVIOUS
        <5>2. eip[f].uid = owner[al]
          BY <1>a, <3>1, <5>1 DEF InHandInv
        <5> QED BY <1>2, <3>1, <3>4, <5>1, <5>2 DEF AddressInv, OneAddressPerEip
      <4> QED BY <1>a, <1>2, <2>1, <4>1, <4>3, <4>4
    <3> QED BY <3>3, <3>4
  <2> QED BY <2>3, <2>4 DEF KnownInv
<1> QED BY <1>1, <1>2, AssociateTask

\* The record: what was in the hand of the node is in the status.
LEMMA RecordKnown ==
  ASSUME TypeOK, TypeOK', AddressInv, SlotInv, AssociationInv,
         NEW n \in Resource, NodeRecord(n)
  PROVE  PortsInv' /\ KnownInv'
<1> DEFINE f == task[n].eip
           s == StatusAssociationId(status[f], task[n].assoc)
<1>a. /\ task[n].pc = "record" /\ f \in Eip
      /\ UNCHANGED <<eip, owner, allocated, attached>>
      /\ PortsInv /\ InHandInv /\ KnownInv
      /\ status[f].resource \in {None, n}
      /\ status \in [Eip -> EipStatus]
  BY DEF NodeRecord, awsVars, AssociationInv, InHandInv, TypeOK, ClusterTypeOK
<1>1. /\ task'[n].pc = "idle"
      /\ \A m \in Resource : m # n => task'[m] = task[m] /\ task[m].pc = "idle"
  BY <1>a DEF NodeRecord, NodeEnd, Continue, IdleTask, SlotInv, OneNodeAtATime, TypeOK,
              NodeControllerTypeOK
<1>2. s.resource = status[f].resource /\ s.port = status[f].port /\ s.assoc = task[n].assoc
  BY <1>a DEF EipStatus, StatusAssociationId
<1>3. (status' = status /\ ~Exists(f)) \/ status' = [status EXCEPT ![f] = s]
  BY DEF NodeRecord, Store
<1> HIDE DEF s
<1>4. \A e \in Eip : status'[e].resource = status[e].resource /\ status'[e].port = status[e].port
  BY <1>a, <1>2, <1>3
<1>5. PortsInv'
  BY <1>a, <1>4 DEF PortsInv
<1>6. ASSUME NEW e \in Eip, NEW m \in Resource, NEW a \in allocated',
             status'[e].resource = m,
             owner'[a] = eip'[e].uid,
             attached'[a].port = status'[e].port
      PROVE  attached'[a].assoc = IF task'[m].pc = "record" /\ task'[m].eip = e
                                    THEN task'[m].assoc ELSE status'[e].assoc
  <2>1. attached[a].assoc = IF task[m].pc = "record" /\ task[m].eip = e
                              THEN task[m].assoc ELSE status[e].assoc
    BY <1>a, <1>4, <1>6 DEF KnownInv
  <2>2. task'[m].pc = "idle"
    BY <1>1
  <2>3. CASE e # f
    BY <1>1, <1>3, <1>a, <1>6, <2>1, <2>2, <2>3
  <2>4. CASE e = f
    <3>1. m = n /\ m # None
      BY <1>a, <1>4, <1>6, <2>4, ClusterAssumption
    <3>2. Exists(f)
      BY <1>a, <1>4, <1>6, <2>4, <3>1 DEF AddressInv, PhasesInv, Exists, NoStatus
    <3> QED BY <1>a, <1>2, <1>3, <1>6, <2>1, <2>2, <2>4, <3>1, <3>2
  <2> QED BY <2>3, <2>4
<1> QED BY <1>5, <1>6 DEF KnownInv

-----------------------------------------------------------------------------
\* A step that settles and leaves the tasks alone.
LEMMA QuietAssociations ==
  ASSUME TypeOK, TypeOK', History, SlotInv, AssociationInv, Settled, UNCHANGED task,
         PlacesInv', \A n \in Resource : SameObjects(n)
  PROVE  AssociationInv'
<1>1. \A n \in Resource : RecordsSame(n)
  BY DEF RecordsSame
<1> QED BY <1>1, QuietHands, SettledPorts, SettledKnown DEF AssociationInv

\* A step that settles, the task of n among them, with nothing to record.
LEMMA TaskAssociations ==
  ASSUME TypeOK, TypeOK', AssociationInv, Settled, NEW n \in Resource, NEW t, Continue(n, t),
         task[n].pc # "record", t.pc # "record"
  PROVE  PortsInv' /\ KnownInv'
<1>1. task'[n] = t /\ \A m \in Resource : m # n => task'[m] = task[m]
  BY DEF Continue, TypeOK, NodeControllerTypeOK
<1>2. \A m \in Resource : RecordsSame(m)
  BY <1>1 DEF RecordsSame
<1> QED BY <1>2, SettledPorts, SettledKnown DEF AssociationInv

\* Every step of the reconciliation of a node, no call failing.
LEMMA NodeControllerAssociations ==
  ASSUME TypeOK, TypeOK', History, AddressInv, SlotInv, AssociationInv, NEW n \in Resource,
         NodeStep(n, FreeAssocs) \/ NodeResync(n)
  PROVE  AssociationInv'
<1>a. FreeAssocs # {} => (CHOOSE x \in FreeAssocs : TRUE) \in AssocId
  BY DEF FreeAssocs
<1>b. PlacesInv
  BY DEF AssociationInv
<1>1. CASE NodeWatch(n) \/ NodeResync(n) \/ NodeAddFinalizer(n)
  <2>1. Settled /\ UNCHANGED eip
    BY <1>1, NodeControllerSettles
  <2>2. UNCHANGED <<task, seen>>
    BY <1>1 DEF NodeWatch, NodeResync, NodeAddFinalizer, PutResource, eipVars
  <2>3. \A m \in Resource : SameObjects(m)
    BY <2>1, <2>2 DEF SameObjects
  <2>4. PlacesInv'
    BY <1>1, <1>b, NodeControllerPlaces
  <2> QED BY <2>1, <2>2, <2>3, <2>4, QuietAssociations
<1>2. CASE NodeApply(n)
  <2>1. Settled /\ UNCHANGED eip
    BY <1>2, NodeControllerSettles
  <2>2. PlacesInv' /\ InHandInv'
    BY <1>2, <1>b, NodeControllerPlaces, ApplyHands
  <2>3. CASE UNCHANGED task
    <3>1. \A m \in Resource : RecordsSame(m)
      BY <2>3 DEF RecordsSame
    <3> QED BY <2>1, <2>2, <3>1, SettledPorts, SettledKnown DEF AssociationInv
  <2>4. ASSUME NEW t, Continue(n, t), t.pc \in {"release", "describe"}, task[n].pc = "idle"
        PROVE  AssociationInv'
    <3>1. PortsInv' /\ KnownInv'
      BY <2>1, <2>4, TaskAssociations
    <3> QED BY <2>2, <3>1 DEF AssociationInv
  <2> QED BY <1>2, <2>3, <2>4, ApplyTask
<1>3. CASE NodeDescribe(n)
  <2>1. Settled /\ UNCHANGED eip
    BY <1>3, NodeControllerSettles
  <2>2. PlacesInv' /\ InHandInv'
    BY <1>3, <1>b, NodeControllerPlaces, DescribeHands
  <2>3. ASSUME NEW t, Continue(n, t), t.pc \in {"claim", "idle"}
        PROVE  AssociationInv'
    <3>1. PortsInv' /\ KnownInv'
      BY <1>3, <2>1, <2>3, TaskAssociations DEF NodeDescribe
    <3> QED BY <2>2, <3>1 DEF AssociationInv
  <2>4. IdleTask.pc = "idle"
    BY DEF IdleTask
  <2>5. \E t : Continue(n, t) /\ t.pc \in {"claim", "idle"}
    BY <1>3, <2>4, DescribeTask DEF NodeEnd
  <2> QED BY <2>3, <2>5
<1>4. CASE NodeClaim(n)
  BY <1>4, <1>b, NodeControllerPlaces, ClaimHands, ClaimKnown DEF AssociationInv
<1>5. ASSUME NEW x \in AssocId, NodeAssociate(n, x)
      PROVE  AssociationInv'
  BY <1>5, <1>b, NodeControllerPlaces, AssociateHands, AssociateKnown DEF AssociationInv
<1>c. ASSUME \/ NodeRelease(n) \/ NodeRecord(n) \/ NodeCleanup(n) \/ NodeCleanupDescribe(n)
             \/ NodeCleanupDisassociate(n) \/ NodeCleanupDetach(n) \/ NodeCleanupLabel(n)
             \/ NodeRemoveFinalizer(n)
      PROVE  PlacesInv' /\ InHandInv'
  <2>1. PICK t : Continue(n, t) /\ t.pc \in Resting
    BY <1>c, RestingTasks
  <2>2. InHandInv'
    BY <1>c, <2>1, RestingTasks, EmptyHand
  <2> QED BY <1>c, <1>b, <2>2, NodeControllerPlaces
<1>6. CASE NodeRecord(n)
  BY <1>6, <1>c, RecordKnown DEF AssociationInv
<1>7. CASE \/ NodeRelease(n) \/ NodeCleanup(n) \/ NodeCleanupDescribe(n)
           \/ NodeCleanupDisassociate(n) \/ NodeCleanupDetach(n) \/ NodeCleanupLabel(n)
           \/ NodeRemoveFinalizer(n)
  <2>1. Settled
    BY <1>7, NodeControllerSettles
  <2>2. PICK t : Continue(n, t) /\ t.pc \in Resting
    BY <1>7, RestingTasks
  <2>3. task[n].pc # "record"
    BY <1>7 DEF NodeRelease, NodeCleanup, NodeReady, NodeCleanupDescribe,
                NodeCleanupDisassociate, NodeCleanupDetach, NodeCleanupLabel,
                NodeRemoveFinalizer
  <2>4. PortsInv' /\ KnownInv'
    BY <2>1, <2>2, <2>3, TaskAssociations DEF Resting
  <2> QED BY <1>7, <1>c, <2>4 DEF AssociationInv
<1> QED
  BY <1>a, <1>1, <1>2, <1>3, <1>4, <1>5, <1>6, <1>7 DEF NodeStep, NodeStart, NodeProgress

\* Every step keeps the invariant, if no call of the node controller fails and the
\* operator does not crash.
LEMMA NextAssociations ==
  ASSUME TypeOK, TypeOK', AddressInv, SlotInv, AssociationInv, [Next]_vars,
         Failing \cap Resource = {}, ~Crashing
  PROVE  AssociationInv'
<1>h. History
  BY NextHistory
<1>b. PlacesInv
  BY DEF AssociationInv
<1>1. ASSUME NEW e \in Eip, UNCHANGED nodeCtlVars,
             EipStep(e) \/ EipFault(e) \/ EipResync(e)
      PROVE  AssociationInv'
  <2>1. UNCHANGED <<res, cachedRes, task>>
    BY <1>1
    DEF nodeCtlVars, EipStep, EipStart, EipProgress, EipFault, EipRefreshFails, EipWatch, EipResync,
        EipAddFinalizer, EipApply, EipAllocate, EipSetStatusCreated, EipListResources,
        EipDisassociate, EipSetStatusDetached, EipRefresh, EipFails, EipCleanup,
        EipCleanupDisassociate, EipCleanupRelease, EipRemoveFinalizer, resVars
  <2>2. PlacesInv'
    BY <1>b, <2>1, PlacesKept
  <2> QED BY <1>h, <1>1, <2>1, <2>2, EipControllerSettles, QuietAssociations
<1>2. ASSUME NEW n \in Resource, NodeStep(n, FreeAssocs) \/ NodeResync(n)
      PROVE  AssociationInv'
  BY <1>h, <1>2, NodeControllerAssociations
<1>3. CASE Environment
  BY <1>h, <1>b, <1>3, EnvironmentSettles, EnvironmentPlaces, QuietAssociations
<1>4. CASE UNCHANGED vars
  <2>1. UNCHANGED <<eip, status, seen, res, cachedRes, task, owner, allocated, attached>>
    BY <1>4 DEF vars, eipVars, resVars, awsVars, nodeCtlVars
  <2>2. PlacesInv'
    BY <1>b, <2>1, PlacesKept
  <2> QED BY <1>h, <2>1, <2>2, QuietAssociations DEF Settled, SameObjects
<1>5. CASE Control \/ Resync \/ CallFails
  BY <1>1, <1>2, <1>5 DEF Control, EipControl, NodeControl, Resync, CallFails, EipFault
<1>6. ~Crash
  BY DEF Crash
<1> QED BY <1>3, <1>4, <1>5, <1>6 DEF Next

\* Nothing is claimed at first.
LEMMA InitAssociations == Init => AssociationInv
<1> SUFFICES ASSUME Init PROVE AssociationInv
  OBVIOUS
<1>1. /\ \A e \in Eip : status[e] = NoStatus
      /\ \A n \in Resource : /\ res[n] = NoResource /\ cachedRes[n] = NoResource
                             /\ task[n] = IdleTask
      /\ \A a \in AllocId : attached[a] = NoAttachment
      /\ allocated = {}
  BY DEF Init, ClusterInit, NodeControllerInit
<1> QED
  BY <1>1 DEF AssociationInv, PortsInv, PlacesInv, InHandInv, KnownInv, Attaching, NoStatus,
              NoResource, IdleTask, NoAttachment

\* The inductive invariant of associations: where nodes are, what the node that is
\* reconciled has in hand, and who knows the association of a claimed address.
THEOREM AssociationsKnown ==
  ASSUME Failing \cap Resource = {}, ~Crashing
  PROVE  Spec => []AssociationInv
<1>1. /\ TypeOK /\ TypeOK' /\ AddressInv /\ SlotInv /\ AssociationInv /\ [Next]_vars
      => AssociationInv'
  BY NextAssociations
<1> QED BY InitAssociations, TypeCorrect, AddressesSafe, SlotSafe, <1>1, PTL DEF Spec

\* For any number of Eips and nodes: as long as no call of the node controller fails
\* and the operator does not crash, the status of an Eip that a node has claimed knows
\* the association of its address, which the Eip controller will undo
\* (controller/node.rs, apply; controller/eip.rs, apply).
THEOREM ClaimsKnowAssociations ==
  ASSUME Failing \cap Resource = {}, ~Crashing
  PROVE  Spec => []ClaimKnowsAssociation
<1>1. AssociationInv => ClaimKnowsAssociation
  BY DEF AssociationInv, KnownInv, ClaimKnowsAssociation
<1> QED BY AssociationsKnown, <1>1, PTL
=============================================================================
