---------------------------- MODULE PodController ---------------------------
(***************************************************************************)
(* The pod controller (controller/pod.rs) inside the reconciler of the     *)
(* k8s-controller library.  A pod that runs claims the one Eip that names  *)
(* it, associates the address and is annotated for external-dns; a pod     *)
(* that is deleted gives its claim up.  A pod may ask for an Eip of its    *)
(* own name, which is created and deleted with it.  Every action is one    *)
(* API call together with the local computation up to the next call;       *)
(* calls that only read and decide nothing (the node, its instance and its *)
(* interfaces) are part of the action before them.                         *)
(*                                                                         *)
(* A pod is a resource whose field matches is the set of the Eips that     *)
(* name it, and ready says that it is scheduled and has an IP address.     *)
(***************************************************************************)
EXTENDS Cluster

CONSTANT AutoEip  \* AutoEip[r]: the Eip of the name of pod r if r carries the
                  \* autocreate label, else None

\* An Eip names one pod, and has the name of one pod at most.
ASSUME PodControllerAssumption ==
  /\ AutoEip \in [Resource -> Eip \cup {None}]
  /\ \A r, q \in Resource : r # q =>
       /\ AutoEip[r] = None \/ AutoEip[r] # AutoEip[q]
       /\ \A es \in Labels[r], fs \in Labels[q] : es \cap fs = {}

VARIABLES
  cachedPod,  \* the pods in the watch cache
  podQueue,   \* pods to be reconciled
  podTask,    \* podTask[r]: the reconciliation of r in progress
  dnsTarget   \* the address in the external-dns annotation of a pod

podCtlVars == <<cachedPod, podQueue, podTask, dnsTarget>>

\* eip is the Eip in hand, port the address of the pod, alloc and assoc the ids
\* in hand, onPort whether the address was on the port when it was described,
\* todo the Eips cleanup has still to detach.
PodTask == [pc : {"idle", "list", "describe", "claim", "associate", "record",
                  "annotate", "cleanup", "disassociate", "detach", "delete",
                  "finalize"},
            eip : Eip \cup {None}, port : Port \cup {None},
            alloc : AllocId \cup {None}, assoc : AssocId \cup {None},
            onPort : BOOLEAN, todo : SUBSET (Eip \X (AllocId \cup {None}))]
IdlePod == [pc |-> "idle", eip |-> None, port |-> None, alloc |-> None,
            assoc |-> None, onPort |-> FALSE, todo |-> {}]

PodControllerInit ==
  /\ cachedPod = [r \in Resource |-> NoResource]
  /\ podQueue = {}
  /\ podTask = [r \in Resource |-> IdlePod]
  /\ dnsTarget = [r \in Resource |-> None]

PodControllerTypeOK ==
  /\ cachedPod \in [Resource -> ResourceObject]
  /\ podQueue \in SUBSET Resource
  /\ podTask \in [Resource -> PodTask]
  /\ dnsTarget \in [Resource -> AllocId \cup {None}]

-----------------------------------------------------------------------------
(* The reconciler around the controller: several pods at a time.           *)

PodWatch(r) ==
  /\ r \notin resSynced
  /\ cachedPod' = [cachedPod EXCEPT ![r] = res[r]]
  /\ resSynced' = resSynced \cup {r}
  /\ podQueue' = IF res[r].phase = "absent" THEN podQueue \ {r} ELSE podQueue \cup {r}
  /\ UNCHANGED <<eipVars, res, awsVars, podTask, dnsTarget>>

PodResync(r) ==
  /\ cachedPod[r].phase # "absent"
  /\ r \notin podQueue
  /\ podQueue' = podQueue \cup {r}
  /\ UNCHANGED <<eipVars, resVars, awsVars, cachedPod, podTask, dnsTarget>>

PodReady(r, phase, finalizer) ==
  /\ podTask[r].pc = "idle"
  /\ r \in podQueue
  /\ cachedPod[r].phase = phase
  /\ cachedPod[r].finalizer = finalizer

PodAddFinalizer(r) ==
  /\ PodReady(r, "live", FALSE)
  /\ res[r].phase = "live"
  /\ ~res[r].finalizer
  /\ PutResource(r, [res[r] EXCEPT !.finalizer = TRUE])
  /\ podQueue' = podQueue \ {r}
  /\ UNCHANGED <<cachedPod, podTask, dnsTarget>>

Proceed(r, t) == podTask' = [podTask EXCEPT ![r] = t]

\* The reconciliation of r ends, with an error or a requeue if it is to be
\* tried again.
PodEnd(r, again) ==
  /\ Proceed(r, IdlePod)
  /\ podQueue' = IF again THEN podQueue \cup {r} ELSE podQueue

\* Any call may fail; what it and the calls before it did stays done.
PodFails(r) ==
  /\ podTask[r].pc # "idle"
  /\ PodEnd(r, TRUE)
  /\ seen' = Forget(r)
  /\ UNCHANGED <<eip, status, usedUid, resVars, awsVars, cachedPod, dnsTarget>>

-----------------------------------------------------------------------------
(* apply                                                                   *)

\* Mutant: the Eip is only looked after until the pod runs.
create_for_pod_once(r) ==
  IF AutoEip[r] # None /\ ~Exists(AutoEip[r]) /\ ~cachedPod[r].ready
    THEN CreateEip(AutoEip[r])
    ELSE UNCHANGED <<eipVars, resVars, awsVars>>

\* create_for_pod is a server-side apply: it makes the Eip if there is none of
\* that name, and changes nothing otherwise, even if the Eip is being deleted.  The
\* manager of fields it enters in an Eip of a user is left out: a version more.
create_for_pod(r) ==
  IF AutoEip[r] # None /\ ~Exists(AutoEip[r])
    THEN CreateEip(AutoEip[r])
    ELSE UNCHANGED <<eipVars, resVars, awsVars>>

\* A pod that is not scheduled or has no address yet is tried again.
PodApply(r) ==
  /\ PodReady(r, "live", TRUE)
  /\ create_for_pod(r)
  /\ IF cachedPod[r].ready
       THEN /\ Proceed(r, [IdlePod EXCEPT !.pc = "list", !.port = cachedPod[r].port])
            /\ podQueue' = podQueue \ {r}
       ELSE UNCHANGED <<podTask, podQueue>>
  /\ UNCHANGED <<cachedPod, dnsTarget>>

\* The Eips of the namespace that name r.
EipsNaming(r) == {e \in Eip : Exists(e) /\ e \in res[r].matches}

\* No Eip is a success without a retry.  Two of them, or one with no allocation
\* id in its status, are an error.
PodList(r) ==
  LET found == EipsNaming(r)
      usable == {e \in found : found = {e} /\ status[e].alloc # None}
  IN /\ podTask[r].pc = "list"
     /\ \/ /\ usable = {}
           /\ PodEnd(r, found # {})
           /\ UNCHANGED seen
        \/ \E e \in usable :
             /\ Proceed(r, [podTask[r] EXCEPT !.pc = "describe", !.eip = e,
                                              !.alloc = status[e].alloc])
             /\ seen' = Read({e}, r)
             /\ UNCHANGED podQueue
     /\ UNCHANGED <<eip, status, usedUid, resVars, awsVars, cachedPod, dnsTarget>>

\* Mutant: the status is only written after the address is associated.
PodDescribeAttachesFirst(r) ==
  LET t == podTask[r]
  IN /\ t.pc = "describe"
     /\ IF t.alloc \in allocated
          THEN Proceed(r, [t EXCEPT !.pc = "associate"]) /\ UNCHANGED <<seen, podQueue>>
          ELSE PodEnd(r, TRUE) /\ seen' = Forget(r)
     /\ UNCHANGED <<eip, status, usedUid, resVars, awsVars, cachedPod, dnsTarget>>

\* Mutant: the status is taken to say where the address is.
PodDescribeTrustsStatus(r) ==
  LET t == podTask[r]
  IN /\ t.pc = "describe"
     /\ IF t.alloc \in allocated
          THEN /\ Proceed(r, [t EXCEPT !.pc = "claim",
                                       !.onPort = status[t.eip].resource = r])
               /\ UNCHANGED <<seen, podQueue>>
          ELSE PodEnd(r, TRUE) /\ seen' = Forget(r)
     /\ UNCHANGED <<eip, status, usedUid, resVars, awsVars, cachedPod, dnsTarget>>

\* An unknown allocation id is an error.
PodDescribe(r) ==
  LET t == podTask[r]
  IN /\ t.pc = "describe"
     /\ IF t.alloc \in allocated
          THEN /\ Proceed(r, [t EXCEPT !.pc = "claim",
                                       !.onPort = attached[t.alloc].port = t.port])
               /\ UNCHANGED <<seen, podQueue>>
          ELSE PodEnd(r, TRUE) /\ seen' = Forget(r)
     /\ UNCHANGED <<eip, status, usedUid, resVars, awsVars, cachedPod, dnsTarget>>

\* replace_status of the listed copy, also when the address is on the port
\* already; a conflict is an error.
PodClaim(r) ==
  LET t == podTask[r]
  IN /\ t.pc = "claim"
     /\ IF r \in seen[t.eip]
          THEN /\ Store(t.eip, StatusShouldAttach(status[t.eip], r, t.port), {r})
               /\ Proceed(r, [t EXCEPT !.pc = IF t.onPort THEN "annotate" ELSE "associate"])
               /\ UNCHANGED podQueue
          ELSE PodEnd(r, TRUE) /\ seen' = Forget(r) /\ UNCHANGED status
     /\ UNCHANGED <<eip, usedUid, resVars, awsVars, cachedPod, dnsTarget>>

\* x is the association id AWS answers with.
PodAssociate(r, x) ==
  LET t == podTask[r]
  IN /\ t.pc = "associate"
     /\ IF t.alloc \in allocated
          THEN /\ associate_eip(t.alloc, t.port, x)
               /\ Proceed(r, [t EXCEPT !.pc = "record", !.assoc = x])
               /\ UNCHANGED podQueue
          ELSE PodEnd(r, TRUE) /\ UNCHANGED awsVars
     /\ UNCHANGED <<eipVars, resVars, cachedPod, dnsTarget>>

\* set_status_association_id, a merge patch by name.
PodRecord(r) ==
  LET t == podTask[r]
  IN /\ t.pc = "record"
     /\ IF Exists(t.eip)
          THEN /\ Store(t.eip, StatusAssociationId(status[t.eip], t.assoc), {})
               /\ Proceed(r, [t EXCEPT !.pc = "annotate", !.assoc = None])
               /\ UNCHANGED podQueue
          ELSE PodEnd(r, TRUE) /\ UNCHANGED <<status, seen>>
     /\ UNCHANGED <<eip, usedUid, resVars, awsVars, cachedPod, dnsTarget>>

\* add_dns_target_annotation: a new annotation is a new version of the pod.
PodAnnotate(r) ==
  /\ podTask[r].pc = "annotate"
  /\ dnsTarget' = [dnsTarget EXCEPT ![r] = podTask[r].alloc]
  /\ resSynced' = IF dnsTarget'[r] = dnsTarget[r] THEN resSynced ELSE resSynced \ {r}
  /\ PodEnd(r, FALSE)
  /\ UNCHANGED <<eipVars, res, awsVars, cachedPod>>

-----------------------------------------------------------------------------
(* cleanup                                                                 *)

\* The call that follows when no Eip is left to detach.
PodCleanupNext(r, todo) ==
  IF todo # {} THEN "cleanup" ELSE IF AutoEip[r] = None THEN "finalize" ELSE "delete"

\* List the Eips whose status names r, whatever their selector.
PodCleanup(r) ==
  LET held == {e \in Eip : Exists(e) /\ status[e].resource = r}
      todo == {<<e, status[e].alloc>> : e \in held}
  IN /\ PodReady(r, "deleting", TRUE)
     /\ podQueue' = podQueue \ {r}
     /\ seen' = Read(held, r)
     /\ Proceed(r, [IdlePod EXCEPT !.pc = PodCleanupNext(r, todo), !.todo = todo])
     /\ UNCHANGED <<eip, status, usedUid, resVars, awsVars, cachedPod, dnsTarget>>

PodCleanupDescribe(r) ==
  /\ podTask[r].pc = "cleanup"
  /\ \E t \in podTask[r].todo :
       IF t[2] \in allocated
         THEN /\ Proceed(r, [podTask[r] EXCEPT !.eip = t[1], !.assoc = attached[t[2]].assoc,
                   !.pc = IF attached[t[2]].assoc = None THEN "detach" ELSE "disassociate"])
              /\ UNCHANGED <<seen, podQueue>>
         ELSE PodEnd(r, TRUE) /\ seen' = Forget(r)
  /\ UNCHANGED <<eip, status, usedUid, resVars, awsVars, cachedPod, dnsTarget>>

PodCleanupDisassociate(r) ==
  /\ podTask[r].pc = "disassociate"
  /\ disassociate_eip(podTask[r].assoc)
  /\ Proceed(r, [podTask[r] EXCEPT !.pc = "detach", !.assoc = None])
  /\ UNCHANGED <<eipVars, resVars, cachedPod, podQueue, dnsTarget>>

\* Mutant: a conflict is passed over.
PodCleanupDetachIgnored(r) ==
  LET t == podTask[r]
      rest == {s \in t.todo : s[1] # t.eip}
  IN /\ t.pc = "detach"
     /\ IF r \in seen[t.eip] THEN Store(t.eip, StatusDetached(status[t.eip]), {})
                             ELSE UNCHANGED <<status, seen>>
     /\ Proceed(r, [IdlePod EXCEPT !.pc = PodCleanupNext(r, rest), !.todo = rest])
     /\ UNCHANGED <<eip, usedUid, resVars, awsVars, cachedPod, podQueue, dnsTarget>>

\* set_status_detached: a conflict is an error.
PodCleanupDetach(r) ==
  LET t == podTask[r]
      rest == {s \in t.todo : s[1] # t.eip}
  IN /\ t.pc = "detach"
     /\ IF r \in seen[t.eip]
          THEN /\ Store(t.eip, StatusDetached(status[t.eip]), {})
               /\ Proceed(r, [IdlePod EXCEPT !.pc = PodCleanupNext(r, rest), !.todo = rest])
               /\ UNCHANGED podQueue
          ELSE PodEnd(r, TRUE) /\ seen' = Forget(r) /\ UNCHANGED status
     /\ UNCHANGED <<eip, usedUid, resVars, awsVars, cachedPod, dnsTarget>>

\* Mutant: the Eip of a pod is left to the user.
PodDeleteEipNot(r) ==
  /\ podTask[r].pc = "delete"
  /\ Proceed(r, [podTask[r] EXCEPT !.pc = "finalize"])
  /\ UNCHANGED <<eipVars, resVars, awsVars, cachedPod, podQueue, dnsTarget>>

\* eip::delete, by name: an Eip that is gone or going already is no error.
PodDeleteEip(r) ==
  /\ podTask[r].pc = "delete"
  /\ IF eip[AutoEip[r]].phase = "live" THEN DeleteEip(AutoEip[r])
                                       ELSE UNCHANGED <<eipVars, resVars, awsVars>>
  /\ Proceed(r, [podTask[r] EXCEPT !.pc = "finalize"])
  /\ UNCHANGED <<cachedPod, podQueue, dnsTarget>>

\* The reconciler takes its finalizer off.
PodRemoveFinalizer(r) ==
  LET gone == res[r].phase = "deleting"
  IN /\ podTask[r].pc = "finalize"
     /\ IF res[r].finalizer
          THEN /\ PutResource(r, IF gone THEN NoResource
                                 ELSE [res[r] EXCEPT !.finalizer = FALSE])
               /\ dnsTarget' = [dnsTarget EXCEPT ![r] = IF gone THEN None ELSE @]
          ELSE UNCHANGED <<eipVars, resVars, awsVars, dnsTarget>>
     /\ PodEnd(r, ~res[r].finalizer)
     /\ UNCHANGED cachedPod

-----------------------------------------------------------------------------
\* The steps of a reconciliation that has started, no call failing; pool is
\* the set of association ids that are free.
PodProgress(r, pool) ==
  \/ PodList(r)
  \/ PodDescribe(r)
  \/ PodClaim(r)
  \/ podTask[r].pc = "associate" /\ pool # {} /\ PodAssociate(r, CHOOSE x \in pool : TRUE)
  \/ PodRecord(r)
  \/ PodAnnotate(r)
  \/ PodCleanupDescribe(r)
  \/ PodCleanupDisassociate(r)
  \/ PodCleanupDetach(r)
  \/ PodDeleteEip(r)
  \/ PodRemoveFinalizer(r)

PodStart(r) ==
  \/ PodAddFinalizer(r)
  \/ PodApply(r)
  \/ PodCleanup(r)

PodStep(r, pool) == PodWatch(r) \/ PodStart(r) \/ PodProgress(r, pool)

\* An operator that starts lists every pod and reconciles each.
PodControllerRestart ==
  /\ cachedPod' = res
  /\ podQueue' = {r \in Resource : res[r].phase # "absent"}
  /\ podTask' = [r \in Resource |-> IdlePod]

\* The association ids remembered here.
PodControllerAssocs == {podTask[r].assoc : r \in Resource}
=============================================================================
