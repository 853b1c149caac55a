--------------------------- MODULE EipController ---------------------------
(***************************************************************************)
(* The Eip controller (controller/eip.rs) inside the reconciler of the     *)
(* k8s-controller library.  A worker reconciles one Eip at a time per Eip  *)
(* name; it is given the object as the watch cache holds it, which may be  *)
(* behind the API server.  Every action is one API call together with the  *)
(* local computation up to the next call, so that the steps of the other   *)
(* controllers and of the users fall between any two calls.                *)
(*                                                                         *)
(* The first call of apply and of cleanup is made in the step that takes   *)
(* the Eip off the queue: a delay between the two is the same as a cache   *)
(* that is a little older.                                                 *)
(***************************************************************************)
EXTENDS Cluster

VARIABLES
  cachedEip,     \* the metadata of the Eips in the watch cache
  cachedStatus,  \* their status in the watch cache
  eipQueue,      \* Eips to be reconciled
  worker         \* worker[e]: the reconciliation of e in progress

eipCtlVars == <<cachedEip, cachedStatus, eipQueue, worker>>

\* copy is the status of the object being reconciled, alloc the address in
\* hand, matched the resources found and todo the addresses still to be
\* released, each with the association id that was read with it.
Worker == [pc : {"idle", "allocate", "created", "list", "disassociate",
                 "detach", "refresh", "release", "finalize"},
           uid : Uid \cup {None}, copy : EipStatus, alloc : AllocId \cup {None},
           matched : SUBSET Resource,
           todo : SUBSET (AllocId \X (AssocId \cup {None}))]
IdleWorker == [pc |-> "idle", uid |-> None, copy |-> NoStatus, alloc |-> None,
               matched |-> {}, todo |-> {}]

EipControllerInit ==
  /\ cachedEip = [e \in Eip |-> NoEip]
  /\ cachedStatus = [e \in Eip |-> NoStatus]
  /\ eipQueue = {}
  /\ worker = [e \in Eip |-> IdleWorker]

EipControllerTypeOK ==
  /\ cachedEip \in [Eip -> EipMeta]
  /\ cachedStatus \in [Eip -> EipStatus]
  /\ eipQueue \in SUBSET Eip
  /\ worker \in [Eip -> Worker]

-----------------------------------------------------------------------------
(* The reconciler around the controller.                                   *)

\* The watch delivers the stored version and asks for a reconciliation.
EipWatch(e) ==
  /\ "cache" \notin seen[e]
  /\ cachedEip' = [cachedEip EXCEPT ![e] = eip[e]]
  /\ cachedStatus' = [cachedStatus EXCEPT ![e] = status[e]]
  /\ seen' = Read({e}, "cache")
  /\ eipQueue' = IF Exists(e) THEN eipQueue \cup {e} ELSE eipQueue \ {e}
  /\ UNCHANGED <<eip, status, usedUid, resVars, awsVars, worker>>

\* An object is reconciled again some time after a success.
EipResync(e) ==
  /\ cachedEip[e].phase # "absent"
  /\ e \notin eipQueue
  /\ eipQueue' = eipQueue \cup {e}
  /\ UNCHANGED <<eipVars, resVars, awsVars, cachedEip, cachedStatus, worker>>

\* Mutant: the finalizer is not waited for.
EipReadyUnguarded(e, phase, finalizer) ==
  /\ worker[e].pc = "idle"
  /\ e \in eipQueue
  /\ cachedEip[e].phase = phase
  /\ finalizer \in BOOLEAN

EipReady(e, phase, finalizer) ==
  /\ worker[e].pc = "idle"
  /\ e \in eipQueue
  /\ cachedEip[e].phase = phase
  /\ cachedEip[e].finalizer = finalizer

\* Before the first apply the reconciler puts its finalizer on the object; the
\* API server refuses it on an object that is being deleted.
EipAddFinalizer(e) ==
  /\ EipReady(e, "live", FALSE)
  /\ eip[e].phase = "live"
  /\ ~eip[e].finalizer
  /\ eip' = [eip EXCEPT ![e].finalizer = TRUE]
  /\ seen' = [seen EXCEPT ![e] = {}]
  /\ eipQueue' = eipQueue \ {e}
  /\ UNCHANGED <<status, usedUid, resVars, awsVars, cachedEip, cachedStatus, worker>>

Goto(e, w) == worker' = [worker EXCEPT ![e] = w]

\* The reconciliation of e ends, with an error if it is to be tried again.
EipEnd(e, error) ==
  /\ Goto(e, IdleWorker)
  /\ eipQueue' = IF error THEN eipQueue \cup {e} ELSE eipQueue

\* Any call may fail; what it and the calls before it did stays done.
EipFails(e) ==
  /\ worker[e].pc # "idle"
  /\ EipEnd(e, TRUE)
  /\ seen' = Forget(e)
  /\ UNCHANGED <<eip, status, usedUid, resVars, awsVars, cachedEip, cachedStatus>>

-----------------------------------------------------------------------------
(* apply                                                                   *)

\* Describe the addresses tagged with the uid.  More than one is an error
\* (MultipleEipsTaggedForPod), tried again for ever without a change.
EipApply(e) ==
  LET u == cachedEip[e].uid
      found == describe_addresses_with_tag_value(u)
      start == [IdleWorker EXCEPT !.uid = u, !.copy = cachedStatus[e]]
  IN /\ EipReady(e, "live", TRUE)
     /\ \/ /\ found = {}
           /\ Goto(e, [start EXCEPT !.pc = "allocate"])
        \/ \E a \in found :
             /\ found = {a}
             /\ Goto(e, [start EXCEPT !.pc = "created", !.alloc = a])
     /\ eipQueue' = eipQueue \ {e}
     /\ seen' = IF "cache" \in seen[e] THEN Read({e}, e) ELSE seen
     /\ UNCHANGED <<eip, status, usedUid, resVars, awsVars, cachedEip, cachedStatus>>

EipAllocate(e) ==
  LET a == CHOOSE b \in UnusedAllocIds : TRUE
  IN /\ worker[e].pc = "allocate"
     /\ UnusedAllocIds # {}
     /\ allocate_address(a, worker[e].uid)
     /\ Goto(e, [worker[e] EXCEPT !.pc = "created", !.alloc = a])
     /\ UNCHANGED <<eipVars, resVars, cachedEip, cachedStatus, eipQueue>>

\* A merge patch by name: it carries no resourceVersion.
EipSetStatusCreated(e) ==
  /\ worker[e].pc = "created"
  /\ IF Exists(e)
       THEN /\ Store(e, StatusCreated(status[e], worker[e].alloc), {})
            /\ Goto(e, [worker[e] EXCEPT !.pc = "list", !.alloc = None])
            /\ UNCHANGED eipQueue
       ELSE EipEnd(e, TRUE) /\ seen' = Forget(e) /\ UNCHANGED status
  /\ UNCHANGED <<eip, usedUid, resVars, awsVars, cachedEip, cachedStatus>>

\* Mutant: without a claim there is nothing to do.
EipListResourcesOnlyChecks(e) ==
  LET w == worker[e]
      found == {r \in Resource : res[r].phase # "absent" /\ e \in res[r].matches}
  IN /\ w.pc = "list"
     /\ IF w.copy.resource \in found \cup {None}
          THEN Goto(e, IdleWorker) /\ seen' = Forget(e)
          ELSE /\ Goto(e, [w EXCEPT !.matched = found,
                             !.pc = IF w.copy.assoc = None THEN "detach" ELSE "disassociate"])
               /\ UNCHANGED seen
     /\ UNCHANGED <<eip, status, usedUid, resVars, awsVars, cachedEip, cachedStatus, eipQueue>>

\* Mutant: the resource has to exist, not to match.
EipListResourcesExisting(e) ==
  LET w == worker[e]
      found == {r \in Resource : res[r].phase # "absent"}
      next == [w EXCEPT !.matched = found]
  IN /\ w.pc = "list"
     /\ CASE w.copy.resource = None ->
               /\ Goto(e, [next EXCEPT !.pc = "refresh", !.copy = NoStatus])
               /\ seen' = Forget(e)
          [] w.copy.resource \in found ->
               Goto(e, IdleWorker) /\ seen' = Forget(e)
          [] OTHER ->
               /\ Goto(e, [next EXCEPT !.pc = IF w.copy.assoc = None
                                                THEN "detach" ELSE "disassociate"])
               /\ UNCHANGED seen
     /\ UNCHANGED <<eip, status, usedUid, resVars, awsVars, cachedEip, cachedStatus, eipQueue>>

\* List the matching resources and compare with the copy of the status.
EipListResources(e) ==
  LET w == worker[e]
      found == {r \in Resource : res[r].phase # "absent" /\ e \in res[r].matches}
      next == [w EXCEPT !.matched = found]
  IN /\ w.pc = "list"
     /\ CASE w.copy.resource = None ->
               /\ Goto(e, [next EXCEPT !.pc = "refresh", !.copy = NoStatus])
               /\ seen' = Forget(e)
          [] w.copy.resource \in found ->
               Goto(e, IdleWorker) /\ seen' = Forget(e)
          [] OTHER ->
               /\ Goto(e, [next EXCEPT !.pc = IF w.copy.assoc = None
                                                THEN "detach" ELSE "disassociate"])
               /\ UNCHANGED seen
     /\ UNCHANGED <<eip, status, usedUid, resVars, awsVars, cachedEip, cachedStatus, eipQueue>>

EipDisassociate(e) ==
  /\ worker[e].pc = "disassociate"
  /\ disassociate_eip(worker[e].copy.assoc)
  /\ Goto(e, [worker[e] EXCEPT !.pc = "detach"])
  /\ UNCHANGED <<eipVars, resVars, cachedEip, cachedStatus, eipQueue>>

\* replace_status of the copy: a conflict unless the copy is the stored version.
EipSetStatusDetached(e) ==
  /\ worker[e].pc = "detach"
  /\ IF e \in seen[e]
       THEN /\ Store(e, StatusDetached(worker[e].copy), {e})
            /\ Goto(e, [worker[e] EXCEPT !.pc = "refresh", !.copy = NoStatus])
            /\ UNCHANGED eipQueue
       ELSE EipEnd(e, TRUE) /\ seen' = Forget(e) /\ UNCHANGED status
  /\ UNCHANGED <<eip, usedUid, resVars, awsVars, cachedEip, cachedStatus>>

\* A label patch makes a new version of every matching resource in done, so
\* that its own controller looks at it; a patch that fails is only logged.
EipRefresh(e, done) ==
  /\ worker[e].pc = "refresh"
  /\ done \subseteq worker[e].matched
  /\ resSynced' = resSynced \ {r \in done : res[r].phase # "absent"}
  /\ EipEnd(e, FALSE)
  /\ UNCHANGED <<eipVars, res, awsVars, cachedEip, cachedStatus>>

-----------------------------------------------------------------------------
(* cleanup                                                                 *)

\* Mutant: cleanup is run for an object that is not being deleted.
EipCleanupAnyPhase(e) ==
  LET u == cachedEip[e].uid
      found == {<<a, attached[a].assoc>> : a \in describe_addresses_with_tag_value(u)}
  IN /\ EipReady(e, cachedEip[e].phase, TRUE)
     /\ Goto(e, [IdleWorker EXCEPT !.uid = u, !.todo = found,
                   !.pc = IF found = {} THEN "finalize" ELSE "release"])
     /\ eipQueue' = eipQueue \ {e}
     /\ UNCHANGED <<eipVars, resVars, awsVars, cachedEip, cachedStatus>>

\* Mutant: the addresses are released without being disassociated.
EipCleanupOnlyReleases(e) ==
  LET u == cachedEip[e].uid
      found == describe_addresses_with_tag_value(u) \X {None}
  IN /\ EipReady(e, "deleting", TRUE)
     /\ Goto(e, [IdleWorker EXCEPT !.uid = u, !.todo = found,
                   !.pc = IF found = {} THEN "finalize" ELSE "release"])
     /\ eipQueue' = eipQueue \ {e}
     /\ UNCHANGED <<eipVars, resVars, awsVars, cachedEip, cachedStatus>>

EipCleanup(e) ==
  LET u == cachedEip[e].uid
      found == {<<a, attached[a].assoc>> : a \in describe_addresses_with_tag_value(u)}
  IN /\ EipReady(e, "deleting", TRUE)
     /\ Goto(e, [IdleWorker EXCEPT !.uid = u, !.todo = found,
                   !.pc = IF found = {} THEN "finalize" ELSE "release"])
     /\ eipQueue' = eipQueue \ {e}
     /\ UNCHANGED <<eipVars, resVars, awsVars, cachedEip, cachedStatus>>

\* disassociate_and_release_address, first call: only if the address was
\* associated when it was described.
EipCleanupDisassociate(e) ==
  /\ worker[e].pc = "release"
  /\ \E t \in worker[e].todo :
       /\ t[2] # None
       /\ disassociate_eip(t[2])
       /\ Goto(e, [worker[e] EXCEPT !.todo = (@ \ {t}) \cup {<<t[1], None>>}])
  /\ UNCHANGED <<eipVars, resVars, cachedEip, cachedStatus, eipQueue>>

\* Mutant: an address that cannot be released is passed over.
EipCleanupReleaseIgnored(e) ==
  /\ worker[e].pc = "release"
  /\ \E t \in worker[e].todo :
       LET rest == worker[e].todo \ {t}
       IN /\ t[2] = None
          /\ IF Releasable(t[1]) THEN release_address(t[1]) ELSE UNCHANGED awsVars
          /\ Goto(e, [worker[e] EXCEPT !.todo = rest,
                        !.pc = IF rest = {} THEN "finalize" ELSE "release"])
  /\ UNCHANGED <<eipVars, resVars, cachedEip, cachedStatus, eipQueue>>

\* Second call: an error if the address is associated again or gone.
EipCleanupRelease(e) ==
  /\ worker[e].pc = "release"
  /\ \E t \in worker[e].todo :
       LET rest == worker[e].todo \ {t}
       IN /\ t[2] = None
          /\ IF Releasable(t[1])
               THEN /\ release_address(t[1])
                    /\ Goto(e, [worker[e] EXCEPT !.todo = rest,
                          !.pc = IF rest = {} THEN "finalize" ELSE "release"])
                    /\ UNCHANGED eipQueue
               ELSE EipEnd(e, TRUE) /\ UNCHANGED awsVars
  /\ UNCHANGED <<eipVars, resVars, cachedEip, cachedStatus>>

\* The reconciler takes its finalizer off whatever object has the name now.
EipRemoveFinalizer(e) ==
  LET gone == eip[e].phase = "deleting"
  IN /\ worker[e].pc = "finalize"
     /\ IF eip[e].finalizer
          THEN /\ eip' = [eip EXCEPT ![e] = IF gone THEN NoEip
                                            ELSE [@ EXCEPT !.finalizer = FALSE]]
               /\ status' = [status EXCEPT ![e] = IF gone THEN NoStatus ELSE @]
               /\ seen' = [seen EXCEPT ![e] = {}]
               /\ EipEnd(e, FALSE)
          ELSE EipEnd(e, TRUE) /\ UNCHANGED <<eip, status, seen>>
     /\ UNCHANGED <<usedUid, resVars, awsVars, cachedEip, cachedStatus>>

-----------------------------------------------------------------------------
\* The steps of a reconciliation that has started, no call failing.
EipProgress(e) ==
  \/ EipAllocate(e)
  \/ EipSetStatusCreated(e)
  \/ EipListResources(e)
  \/ EipDisassociate(e)
  \/ EipSetStatusDetached(e)
  \/ EipRefresh(e, worker[e].matched)
  \/ EipCleanupDisassociate(e)
  \/ EipCleanupRelease(e)
  \/ EipRemoveFinalizer(e)

EipStart(e) ==
  \/ EipAddFinalizer(e)
  \/ EipApply(e)
  \/ EipCleanup(e)

EipStep(e) == EipWatch(e) \/ EipStart(e) \/ EipProgress(e)

\* Some of the label patches fail, and nobody tries them again.
EipRefreshFails(e) == \E done \in SUBSET worker[e].matched : EipRefresh(e, done)

EipFault(e) == EipFails(e) \/ EipRefreshFails(e)

\* An operator that starts lists every Eip and reconciles each.
EipControllerRestart ==
  /\ cachedEip' = eip
  /\ cachedStatus' = status
  /\ eipQueue' = {e \in Eip : Exists(e)}
  /\ worker' = [e \in Eip |-> IdleWorker]

\* Everything that remembers an association id here.
EipControllerAssocs ==
  UNION {{status[e].assoc, cachedStatus[e].assoc, worker[e].copy.assoc}
         \cup {t[2] : t \in worker[e].todo} : e \in Eip}
=============================================================================
