----------------------------- MODULE PodOperator ----------------------------
(***************************************************************************)
(* The Eip controller and the pod controller of one operator process at    *)
(* work on the same Eips (main.rs, run), with the users, the scheduler and *)
(* the stateful sets that create a pod again under its name around them.   *)
(* The constants below bound what the environment does.                    *)
(***************************************************************************)
EXTENDS EipAddresses, PodController

CONSTANTS
  UserEips, \* the Eips users create
  Mortal,   \* the Eips users may delete and the pods that may be deleted
  Resynced, \* the Eips and pods that are reconciled again with no event
  Failing,  \* the Eips and pods whose reconciliation may meet a failing call
  PatchFailing, \* the Eips whose patches of a label may fail
  Crashing  \* whether the operator may crash and be started again

vars == <<eipVars, resVars, awsVars, eipCtlVars, podCtlVars>>
ctlVars == <<eipCtlVars, podCtlVars>>

Init ==
  /\ ClusterInit
  /\ EipControllerInit
  /\ PodControllerInit

TypeOK ==
  /\ ClusterTypeOK
  /\ EipControllerTypeOK
  /\ PodControllerTypeOK

\* AWS makes a new association id each time; one that nobody remembers will do.
FreeAssocs ==
  AssocId \ ({attached[a].assoc : a \in AllocId}
             \cup EipControllerAssocs \cup PodControllerAssocs)

-----------------------------------------------------------------------------
(* The controllers.                                                        *)

EipControl(e) == EipStep(e) /\ UNCHANGED podCtlVars
PodControl(r) == PodStep(r, FreeAssocs) /\ UNCHANGED eipCtlVars

Control ==
  \/ \E e \in Eip : EipControl(e)
  \/ \E r \in Resource : PodControl(r)

\* The reconciliation again of every object after 40 to 60 minutes.
Resync ==
  \/ \E e \in Eip \cap Resynced : EipResync(e) /\ UNCHANGED podCtlVars
  \/ \E r \in Resource \cap Resynced : PodResync(r) /\ UNCHANGED eipCtlVars

CallFails ==
  \/ \E e \in Eip \cap Failing : EipFails(e) /\ UNCHANGED podCtlVars
  \/ \E e \in Eip \cap PatchFailing : EipRefreshFails(e) /\ UNCHANGED podCtlVars
  \/ \E r \in Resource \cap Failing : PodFails(r) /\ UNCHANGED eipCtlVars

\* A controller that panics takes the whole process with it; what it had not
\* written anywhere is lost, and the next one starts from a list.
Crash ==
  /\ Crashing
  /\ EipControllerRestart
  /\ PodControllerRestart
  /\ resSynced' = Resource
  /\ seen' = [e \in Eip |-> {"cache"}]
  /\ UNCHANGED <<eip, status, usedUid, res, awsVars, dnsTarget>>

-----------------------------------------------------------------------------
(* The environment.                                                        *)

UserCreates(e) ==
  /\ e \in UserEips
  /\ CreateEip(e)
  /\ UNCHANGED ctlVars

UserDeletes(e) ==
  /\ e \in Mortal
  /\ DeleteEip(e)
  /\ UNCHANGED ctlVars

PodCreated(r) == CreateResource(r) /\ UNCHANGED ctlVars

\* The pod is scheduled and gets its address, once in its life.
PodStarts(r) ==
  /\ ~res[r].ready
  /\ ChangeReady(r)
  /\ UNCHANGED ctlVars

PodDeleted(r) ==
  /\ r \in Mortal
  /\ DeleteResource(r)
  /\ dnsTarget' = [dnsTarget EXCEPT ![r] = IF res[r].finalizer THEN @ ELSE None]
  /\ UNCHANGED <<eipCtlVars, cachedPod, podQueue, podTask>>

\* The network interface of a pod that is being deleted goes before the pod.
InterfaceGone(r) ==
  /\ res[r].phase = "deleting"
  /\ \E a \in allocated : attached[a].port = res[r].port
  /\ attached' = [a \in AllocId |-> IF attached[a].port = res[r].port
                                      THEN NoAttachment ELSE attached[a]]
  /\ UNCHANGED <<eipVars, resVars, owner, allocated, ctlVars>>

Environment ==
  \/ \E e \in Eip : UserCreates(e) \/ UserDeletes(e)
  \/ \E r \in Resource : PodCreated(r) \/ PodStarts(r) \/ PodDeleted(r) \/ InterfaceGone(r)

-----------------------------------------------------------------------------
Next == Control \/ Resync \/ CallFails \/ Crash \/ Environment

Spec == Init /\ [][Next]_vars

\* Every reconciliation goes on until it ends (a call returns or fails), every
\* watch event arrives, and every queued object is taken up.
Fairness ==
  /\ \A e \in Eip :
       /\ WF_vars(EipWatch(e) /\ UNCHANGED podCtlVars)
       /\ WF_vars(EipStart(e) /\ UNCHANGED podCtlVars)
       /\ WF_vars(EipProgress(e) /\ UNCHANGED podCtlVars)
  /\ \A r \in Resource :
       /\ WF_vars(PodWatch(r) /\ UNCHANGED eipCtlVars)
       /\ WF_vars(PodStart(r) /\ UNCHANGED eipCtlVars)
       /\ WF_vars(PodProgress(r, FreeAssocs) /\ UNCHANGED eipCtlVars)

\* Driven by events alone.
FairSpec == Spec /\ Fairness

\* The reconciliation of every object from time to time.
Resyncing ==
  /\ \A e \in Eip \cap Resynced : WF_vars(EipResync(e) /\ UNCHANGED podCtlVars)
  /\ \A r \in Resource \cap Resynced : WF_vars(PodResync(r) /\ UNCHANGED eipCtlVars)

-----------------------------------------------------------------------------
(* Safety.                                                                 *)

\* An address that is associated is claimed, in the status of its own Eip, by
\* the pod whose port it is on, and that pod will run cleanup before it goes:
\* whatever crashes or fails, cleanup finds every association there is
\* (controller/pod.rs, the status is set before the address is associated).
AttachmentIsClaimed ==
  \A a \in allocated : attached[a].port # None =>
    \E e \in Eip, r \in Resource :
      /\ eip[e].uid = owner[a]
      /\ status[e].resource = r
      /\ res[r].finalizer
      /\ res[r].port = attached[a].port

\* No claim outlives the pod: a pod of a stateful set that comes back under the
\* same name, with another port, starts without one (controller/pod.rs, cleanup).
ClaimsNamePods ==
  \A e \in Eip, r \in Resource :
    status[e].resource = r => res[r].finalizer /\ res[r].port = status[e].port

\* The Eip that was created for a pod is never left alive without the pod, so
\* that no address is paid for that nobody asked for (controller/pod.rs).
AutoEipGoesWithPod ==
  \A r \in Resource :
    AutoEip[r] \in Eip \ UserEips /\ eip[AutoEip[r]].phase = "live" => res[r].finalizer

-----------------------------------------------------------------------------
(* Why that is so: the parts of an inductive invariant.                    *)

PodAttaching(r) == podTask[r].pc \in {"describe", "claim", "associate"}
PodApplying(r) == PodAttaching(r) \/ podTask[r].pc \in {"list", "record", "annotate"}
PodDetaching(r) == podTask[r].pc \in {"cleanup", "disassociate", "detach"}
PodCleaningUp(r) == PodDetaching(r) \/ podTask[r].pc \in {"delete", "finalize"}

\* What the phase of pod r says of it.
PhaseInv(r) ==
  /\ res[r].phase = "absent" => res[r] = NoResource
  /\ res[r].phase = "deleting" => res[r].finalizer
  /\ res[r].phase # "absent" => res[r].matches \in Labels[r]

\* How far the watch cache may be behind: a pod that is seen alive and guarded
\* still is guarded, and is the same pod; one that is seen deleting still is, or its
\* successor is not guarded yet.
PodCacheInv(r) ==
  /\ cachedPod[r].phase = "live" /\ cachedPod[r].finalizer
     => res[r].finalizer /\ res[r].port = cachedPod[r].port
  /\ cachedPod[r].phase = "deleting" => res[r].phase = "deleting" \/ ~res[r].finalizer

\* While apply runs its pod is guarded and keeps its port; while cleanup runs no
\* successor is guarded.
PodTaskInv(r) ==
  /\ PodApplying(r) => res[r].finalizer /\ podTask[r].port = res[r].port
  /\ PodCleaningUp(r) =>
       /\ ~(cachedPod[r].phase = "live" /\ cachedPod[r].finalizer)
       /\ res[r].phase = "deleting" \/ ~res[r].finalizer

\* The address in hand is one of the Eip in hand, which names the pod; when it is
\* about to be associated, and is still there, the claim is in place.
ChoiceInv(r) ==
  LET t == podTask[r]
  IN  PodAttaching(r) =>
        /\ t.eip \in res[r].matches
        /\ t.alloc # None
        /\ owner[t.alloc] \in usedUid
        /\ \A f \in Eip : eip[f].uid = owner[t.alloc] => f = t.eip
        /\ t.pc = "associate" /\ t.alloc \in allocated =>
             status[t.eip].resource = r /\ status[t.eip].port = t.port

\* A claim is one that cleanup will find, or has found and not come to yet.
ClaimsInv(r) ==
  \A e \in Eip : status[e].resource = r =>
    /\ res[r].finalizer
    /\ res[r].port = status[e].port
    /\ e \in res[r].matches
    /\ PodCleaningUp(r) => PodDetaching(r) /\ e \in {t[1] : t \in podTask[r].todo}

\* What cleanup knows of an Eip whose version it still has: which address to take
\* from the pod, and, once that is done, that it is on no port.
DetachInv(r) ==
  LET t == podTask[r]
  IN  PodDetaching(r) =>
        /\ \A s \in t.todo : r \in seen[s[1]] =>
             status[s[1]].alloc = s[2] /\ status[s[1]].resource = r
        /\ t.pc # "cleanup" =>
             /\ t.eip \in {s[1] : s \in t.todo}
             /\ r \in seen[t.eip] =>
                  \A a \in allocated :
                    owner[a] = eip[t.eip].uid /\ attached[a].port # None
                    => t.pc = "disassociate" /\ attached[a].assoc = t.assoc

\* The Eip of a pod is going before the pod is let go.
AutoInv(r) ==
  AutoEip[r] \in Eip \ UserEips /\ eip[AutoEip[r]].phase = "live"
  => res[r].finalizer /\ podTask[r].pc # "finalize"

OnePodInv(r) ==
  /\ PhaseInv(r)
  /\ PodCacheInv(r)
  /\ PodTaskInv(r)
  /\ ChoiceInv(r)
  /\ ClaimsInv(r)
  /\ DetachInv(r)
  /\ AutoInv(r)

\* The Eip controller takes no claim from a pod: it only tries to with a copy that
\* is not the stored version.
WorkerPodInv ==
  \A e \in Eip : worker[e].pc \in {"disassociate", "detach"} => e \notin seen[e]

\* An address on a port is claimed by the status of its Eip.
AttachedInv ==
  \A a \in AllocId : attached[a].port # None =>
    /\ a \in allocated
    /\ attached[a].assoc # None
    /\ \E e \in Eip : /\ eip[e].uid = owner[a]
                      /\ status[e].resource # None
                      /\ status[e].port = attached[a].port

PodInv ==
  /\ \A r \in Resource : OnePodInv(r)
  /\ WorkerPodInv
  /\ AttachedInv

-----------------------------------------------------------------------------
(* Liveness.                                                               *)

Running(r) == res[r].phase = "live" /\ res[r].ready

\* The address of Eip e is on the port of pod r, and the annotation says so.
Served(e, r) ==
  \E a \in allocated :
    owner[a] = eip[e].uid /\ attached[a].port = res[r].port /\ dnsTarget[r] = a

\* Eip e is the only one that names pod r.
OnlyEip(e, r) == eip[e].phase = "live" /\ EipsNaming(r) = {e}

\* From some time on no call fails and the operator stays up.  A refusal, such as a
\* conflict, ends a reconciliation as a failing call does and may go on, and so may
\* the queueing of everything there is: those are steps of Control and Resync too.
CallsSucceed == <>[][CallFails \/ Crash => Control \/ Resync]_vars

\* A running pod gets the address of the one Eip that names it, and is annotated
\* with it, by events and retries alone, also if the operator crashed between the
\* claim and the association (controller/pod.rs, apply).
EventuallyServed ==
  CallsSucceed =>
    \A e \in Eip, r \in Resource :
      <>[](Running(r) /\ OnlyEip(e, r)) => <>[]Served(e, r)

\* Nobody is at work on pod r or Eip e, and no event of theirs is on its way.
AtRest(e, r) ==
  /\ eipQueue = {} /\ worker[e].pc = "idle" /\ "cache" \in seen[e]
  /\ podQueue = {} /\ podTask[r].pc = "idle" /\ r \in resSynced

\* There is no rest before a running pod has the address of its Eip, whichever of the
\* two came first, whatever failed or crashed: a pod that finds no Eip gives up
\* without a retry, and only the label patch of the Eip controller, once the address
\* is there, wakes it (controller/eip.rs, apply; controller/pod.rs: the Eip "should
\* ask this pod to re-reconcile").  It does not hold if that patch may fail.
RestsOnlyWhenServed ==
  \A e \in Eip, r \in Resource :
    AtRest(e, r) /\ Running(r) /\ OnlyEip(e, r) => Served(e, r)

\* The 40 minutes are enough for every reconciliation that is due to end.
ResyncIsRare ==
  <>[][Resync => /\ eipQueue = {} /\ podQueue = {}
                 /\ \A e \in Eip : worker[e].pc = "idle"
                 /\ \A r \in Resource : podTask[r].pc = "idle"]_vars

\* A running pod that asks for an Eip has one in the end, also if the Eip of its
\* predecessor was still being deleted when it came, and the pod took that one
\* (controller/pod.rs, apply).  No event tells the pod of its end: it is the
\* reconciliation after 40 to 60 minutes that makes the new one.
EventuallyAutocreated ==
  CallsSucceed /\ Resyncing /\ ResyncIsRare =>
    \A r \in Resource :
      /\ AutoEip[r] # None
      /\ <>[](Running(r) /\ res[r].matches = {AutoEip[r]})
      /\ <>[][~UserDeletes(AutoEip[r])]_vars
      => <>[](Uid \ usedUid # {} => Served(AutoEip[r], r))

\* A pod that is deleted goes away, and so does every deleted Eip, unless pods
\* are made to claim it for ever (controller/pod.rs and eip.rs, cleanup).
EventuallyGone ==
  /\ CallsSucceed
  /\ <>[][~Resync /\ \A r \in Resource : ~PodStarts(r)]_vars
  =>
    /\ \A r \in Resource : []<>(res[r].phase # "deleting")
    /\ \A e \in Eip : []<>(eip[e].phase # "deleting")
=============================================================================
