---------------------------- MODULE NodeOperator ---------------------------
(***************************************************************************)
(* The Eip controller and the node controller of one operator process at   *)
(* work on the same Eips (main.rs, run), with the users and the cluster    *)
(* around them.  The constants below bound what the environment does.      *)
(***************************************************************************)
EXTENDS EipAddresses, NodeController

CONSTANTS
  Mortal,   \* the Eips and nodes that may be deleted
  Flaky,    \* the nodes whose Ready condition may change after the first time
  Resynced, \* the Eips and nodes that are reconciled again with no event
  Failing,  \* the Eips and nodes whose reconciliation may meet a failing call
  PatchFailing, \* the Eips whose patches of a label may fail
  Crashing  \* whether the operator may crash and be started again

vars == <<eipVars, resVars, awsVars, eipCtlVars, nodeCtlVars>>
ctlVars == <<eipCtlVars, nodeCtlVars>>

Init ==
  /\ ClusterInit
  /\ EipControllerInit
  /\ NodeControllerInit

TypeOK ==
  /\ ClusterTypeOK
  /\ EipControllerTypeOK
  /\ NodeControllerTypeOK

\* AWS makes a new association id each time; one that nobody remembers will do.
FreeAssocs ==
  AssocId \ ({attached[a].assoc : a \in AllocId}
             \cup EipControllerAssocs \cup NodeControllerAssocs)

-----------------------------------------------------------------------------
(* The controllers.                                                        *)

EipControl(e) == EipStep(e) /\ UNCHANGED nodeCtlVars
NodeControl(n) == NodeStep(n, FreeAssocs) /\ UNCHANGED eipCtlVars

Control ==
  \/ \E e \in Eip : EipControl(e)
  \/ \E n \in Resource : NodeControl(n)

\* The reconciliation again of every object after 40 to 60 minutes.
Resync ==
  \/ \E e \in Eip \cap Resynced : EipResync(e) /\ UNCHANGED nodeCtlVars
  \/ \E n \in Resource \cap Resynced : NodeResync(n) /\ UNCHANGED eipCtlVars

CallFails ==
  \/ \E e \in Eip \cap Failing : EipFails(e) /\ UNCHANGED nodeCtlVars
  \/ \E e \in Eip \cap PatchFailing : EipRefreshFails(e) /\ UNCHANGED nodeCtlVars
  \/ \E n \in Resource \cap Failing : NodeFails(n) /\ UNCHANGED eipCtlVars

\* A controller that panics takes the whole process with it; what it had not
\* written anywhere is lost, and the next one starts from a list.
Crash ==
  /\ Crashing
  /\ EipControllerRestart
  /\ NodeControllerRestart
  /\ resSynced' = Resource
  /\ seen' = [e \in Eip |-> {"cache"}]
  /\ UNCHANGED <<eip, status, usedUid, res, awsVars, egress>>

-----------------------------------------------------------------------------
(* The environment.                                                        *)

UserCreates(e) == CreateEip(e) /\ UNCHANGED ctlVars

UserDeletes(e) ==
  /\ e \in Mortal
  /\ DeleteEip(e)
  /\ UNCHANGED ctlVars

NodeJoins(n) == CreateResource(n) /\ UNCHANGED ctlVars

\* A node becomes ready once after it joins, or again and again.
NodeBecomes(n) ==
  /\ n \in Flaky \/ ~res[n].ready
  /\ ChangeReady(n)
  /\ UNCHANGED ctlVars

NodeRelabelled(n) == Relabel(n) /\ UNCHANGED ctlVars

NodeLeaves(n) ==
  /\ n \in Mortal
  /\ DeleteResource(n)
  /\ egress' = [egress EXCEPT ![n] = IF res[n].finalizer THEN @ ELSE "none"]
  /\ UNCHANGED <<eipCtlVars, cachedRes, resQueue, task>>

InterfaceGone(p) == PortGone(p) /\ UNCHANGED ctlVars

Environment ==
  \/ \E e \in Eip : UserCreates(e) \/ UserDeletes(e)
  \/ \E n \in Resource : NodeJoins(n) \/ NodeBecomes(n) \/ NodeRelabelled(n)
                         \/ NodeLeaves(n)
  \/ \E p \in Port : InterfaceGone(p)

-----------------------------------------------------------------------------
Next == Control \/ Resync \/ CallFails \/ Crash \/ Environment

Spec == Init /\ [][Next]_vars

\* Every reconciliation goes on until it ends (a call returns or fails), every
\* watch event arrives, and every queued object is taken up.  A queued node
\* waits for the only slot, again and again, and is not passed over for ever.
Fairness ==
  /\ \A e \in Eip :
       /\ WF_vars(EipWatch(e) /\ UNCHANGED nodeCtlVars)
       /\ WF_vars(EipStart(e) /\ UNCHANGED nodeCtlVars)
       /\ WF_vars(EipProgress(e) /\ UNCHANGED nodeCtlVars)
  /\ \A n \in Resource :
       /\ WF_vars(NodeWatch(n) /\ UNCHANGED eipCtlVars)
       /\ SF_vars(NodeStart(n) /\ UNCHANGED eipCtlVars)
       /\ WF_vars(NodeProgress(n, FreeAssocs) /\ UNCHANGED eipCtlVars)

\* Driven by events alone.
FairSpec == Spec /\ Fairness

\* The reconciliation of every object from time to time.
Resyncing ==
  /\ \A e \in Eip \cap Resynced : WF_vars(EipResync(e) /\ UNCHANGED nodeCtlVars)
  /\ \A n \in Resource \cap Resynced : WF_vars(NodeResync(n) /\ UNCHANGED eipCtlVars)

\* Driven also by that.
ResyncSpec == FairSpec /\ Resyncing
-----------------------------------------------------------------------------
(* Safety.                                                                 *)

\* A claim always names a node that exists and will run cleanup before it goes
\* (controller/node.rs, apply and cleanup), if nodes keep their labels.
ClaimsNameNodes ==
  \A e \in Eip, n \in Resource :
    status[e].resource = n => res[n].phase # "absent" /\ res[n].finalizer

\* Why that is so: the parts of an inductive invariant, for nodes whose labels
\* are chosen once.
LabelsKept == \A n \in Resource : \A es, fs \in Labels[n] : es = fs

\* Cleanup of node n will look at Eip e.
Listed(e, n) == e \in NodeNamespaceEips /\ \A es \in Labels[n] : e \in es

\* What the phase of a node says of it.
NodesInv ==
  \A n \in Resource :
    /\ res[n].phase = "absent" => ~res[n].finalizer
    /\ res[n].phase = "deleting" => res[n].finalizer
    /\ res[n].phase # "absent" => res[n].matches \in Labels[n]

\* How far the watch cache may be behind: a node that is seen alive and guarded
\* still is guarded; one that is seen deleting still is, or its successor is not
\* guarded yet.
NodeCacheInv ==
  \A n \in Resource :
    /\ cachedRes[n].phase # "absent" => cachedRes[n].matches \in Labels[n]
    /\ cachedRes[n].phase = "live" /\ cachedRes[n].finalizer => res[n].finalizer
    /\ cachedRes[n].phase = "deleting" => res[n].phase = "deleting" \/ ~res[n].finalizer

NodeApplying(n) == task[n].pc \in {"release", "describe", "claim", "associate", "record"}
NodeDetaching(n) == task[n].pc \in {"cleanup", "disassociate", "detach"}
NodeCleaningUp(n) == NodeDetaching(n) \/ task[n].pc \in {"label", "finalize"}

\* While apply runs its node is guarded; while cleanup runs no successor is.
NodeTaskInv ==
  \A n \in Resource :
    /\ NodeApplying(n) => res[n].finalizer
    /\ NodeCleaningUp(n) =>
         /\ ~(cachedRes[n].phase = "live" /\ cachedRes[n].finalizer)
         /\ res[n].phase = "deleting" \/ ~res[n].finalizer

\* An Eip that a node is about to claim is one its cleanup will look at.
NodeChoiceInv ==
  \A n \in Resource : task[n].pc \in {"describe", "claim"} =>
    /\ Listed(task[n].eip, n)
    /\ n \in seen[task[n].eip] => status[task[n].eip].present

\* A claim is one that cleanup will find, or has found and not come to yet.
NodeClaimsInv ==
  \A e \in Eip, n \in Resource : status[e].resource = n =>
    /\ status[e].present
    /\ Listed(e, n)
    /\ res[n].finalizer
    /\ NodeCleaningUp(n) => NodeDetaching(n) /\ e \in {t[1] : t \in task[n].todo}

NodeInv ==
  /\ NodesInv
  /\ NodeCacheInv
  /\ NodeTaskInv
  /\ NodeChoiceInv
  /\ NodeClaimsInv

\* A claim is given up before another node takes it, and nothing else is done to
\* claims (eip.rs, set_status_should_attach): the egress task relies on it.
Lock == INSTANCE ClaimLock WITH claim <- [e \in Eip |-> status[e].resource]
KeepsClaimLock == Lock!Spec

\* An address moves to the port of a node only while no other node has the claim.
NoStolenAddress ==
  [][\A a \in AllocId, n \in Resource, e \in Eip :
       /\ attached'[a].port # attached[a].port
       /\ attached'[a].port = task[n].port
       /\ attached'[a].port # None
       /\ status[e].alloc = a
       => status[e].resource \in {None, n}]_vars

\* Why that is so: one node is reconciled at a time; the address it is about to
\* associate is tagged for the Eip it chose and for no other; and from its claim on
\* no other node has that Eip.
Attaching == {"describe", "claim", "associate"}

OneNodeAtATime ==
  \A m, n \in Resource : task[m].pc # "idle" /\ task[n].pc # "idle" => m = n

AttachingInv ==
  \A n \in Resource :
    /\ task[n].pc = "idle" => task[n].port = None
    /\ task[n].pc \in Attaching =>
         /\ task[n].eip \in Eip
         /\ task[n].alloc \in AllocId
         /\ owner[task[n].alloc] # None
         /\ \A e \in Eip : eip[e].uid = owner[task[n].alloc] => e = task[n].eip
    /\ task[n].pc = "associate" => status[task[n].eip].resource \in {None, n}

SlotInv == OneNodeAtATime /\ AttachingInv

\* As long as no call fails, the status of an Eip a node has claimed knows the
\* association AWS made, once the node is done: it is the one the Eip controller
\* will undo (controller/node.rs, apply; controller/eip.rs, apply).
ClaimKnowsAssociation ==
  \A e \in Eip, n \in Resource, a \in allocated :
    /\ status[e].resource = n
    /\ task[n].pc = "idle"
    /\ owner[a] = eip[e].uid
    /\ attached[a].port = status[e].port
    => status[e].assoc = attached[a].assoc

\* Why that is so, if the reconciliation of a node is never cut short.  What has no
\* tag is on no port, and a claim names one.
PortsInv ==
  /\ \A a \in AllocId : owner[a] = None => attached[a].port = None
  /\ \A e \in Eip : status[e].resource # None => status[e].port \in Port

\* So does a node, and whoever read it.
PlacesInv ==
  \A n \in Resource :
    /\ res[n].phase # "absent" => res[n].port \in Port
    /\ cachedRes[n].phase # "absent" => cachedRes[n].port \in Port
    /\ task[n].pc \in Attaching => task[n].port \in Port

\* A node has the address of its Eip in hand if its copy is current, or its claim still
\* stands; when it claims, that is not on its port; when it records, no other node has
\* the Eip.
InHandInv ==
  \A n \in Resource :
    /\ \/ task[n].pc \in {"describe", "claim"} /\ n \in seen[task[n].eip]
       \/ task[n].pc = "associate" /\ status[task[n].eip].resource = n
       => eip[task[n].eip].uid = owner[task[n].alloc]
    /\ task[n].pc = "claim" =>
         \A a \in allocated : owner[a] = owner[task[n].alloc]
                              => attached[a].port # task[n].port
    /\ task[n].pc = "record" =>
         task[n].eip \in Eip /\ status[task[n].eip].resource \in {None, n}

\* The association of an address on the port of the claim is in the status, or in
\* the hand of the node that is about to record it.
KnownInv ==
  \A e \in Eip, n \in Resource, a \in allocated :
    /\ status[e].resource = n
    /\ owner[a] = eip[e].uid
    /\ attached[a].port = status[e].port
    => attached[a].assoc = IF task[n].pc = "record" /\ task[n].eip = e
                             THEN task[n].assoc ELSE status[e].assoc

AssociationInv == PortsInv /\ PlacesInv /\ InHandInv /\ KnownInv

-----------------------------------------------------------------------------
(* Liveness.                                                               *)

\* The address of Eip e is on the port of node n.
On(e, n) ==
  \E a \in allocated : owner[a] = eip[e].uid /\ attached[a].port = res[n].port

Candidate(e, n) ==
  /\ res[n].phase = "live"
  /\ res[n].ready
  /\ e \in res[n].matches

\* Node n is the only one that Eip e can be attached to.
OnlyCandidate(e, n) ==
  /\ eip[e].phase = "live"
  /\ \A m \in Resource : Candidate(e, m) <=> m = n

\* Every node that is there matches Eip e.
Matched(e) == \A n \in Resource : res[n].phase # "absent" => e \in res[n].matches

\* From some time on no call fails.  A refusal, such as a conflict, ends a
\* reconciliation in the same way and may go on: it is a step of Control too.
CallsSucceed == <>[][CallFails => Control]_vars

\* By events alone, if no patch of a label fails, the address ends up on the only node that can carry it, from
\* whichever node had it before, as long as nodes keep the labels the Eip asks for
\* (controller/eip.rs, the refresh label; controller/node.rs, apply).
EventuallyAttached ==
  CallsSucceed =>
    \A e \in Eip, n \in Resource :
      []Matched(e) /\ <>[]OnlyCandidate(e, n) => <>[]On(e, n)

\* Also if nothing told the node that it can have the Eip, since the patch of its
\* label failed, which is only logged (controller/eip.rs, apply), if its own calls
\* failed, or if its claim and its labels were lost before: the reconciliation of
\* every object from time to time gets the address there.
EventuallyRecovered ==
  CallsSucceed /\ Resyncing =>
    \A e \in Eip, n \in Resource : <>[]OnlyCandidate(e, n) => <>[]On(e, n)

\* A deleted Eip goes away, unless nodes are made to claim it for ever
\* (controller/eip.rs, cleanup, against controller/node.rs, apply).
EventuallyReleased ==
  /\ CallsSucceed
  /\ <>[][~Resync /\ \A n \in Resource : ~NodeBecomes(n) /\ ~NodeRelabelled(n)]_vars
  => \A e \in Eip : []<>(eip[e].phase # "deleting")

\* The claim of a node that the Eip does not match any more is dropped
\* (controller/eip.rs, apply).
StaleClaimDropped ==
  CallsSucceed /\ Resyncing =>
    \A e \in Eip, n \in Resource :
      <>[](eip[e].phase = "live" /\ e \notin res[n].matches)
      => <>[](status[e].resource # n)

\* The address leaves a node that the Eip does not match any more.
EventuallyDetached ==
  \A e \in Eip, n \in Resource :
    <>[](eip[e].phase = "live" /\ res[n].phase = "live" /\ e \notin res[n].matches)
    => <>[]~On(e, n)
=============================================================================
