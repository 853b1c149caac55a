--------------------------- MODULE NodeController --------------------------
(***************************************************************************)
(* The node controller (controller/node.rs) inside the reconciler of the   *)
(* k8s-controller library: a node that is ready claims an Eip its labels   *)
(* match by writing its name into the status of the Eip, then associates   *)
(* the address; a node that is not ready, or that is being deleted, gives  *)
(* its claim up.  Every action is one API call together with the local     *)
(* computation up to the next call.                                        *)
(*                                                                         *)
(* The node is the copy in the watch cache; the Eips are listed from the   *)
(* API server, in the first call of apply and of cleanup, and a status is  *)
(* replaced only if the listed copy is still the stored version.           *)
(***************************************************************************)
EXTENDS Cluster, Naturals

CONSTANTS
  Rank,              \* the place of an Eip in a list: lists are ordered by name
  NodeNamespaceEips  \* the Eips of the one namespace the controller lists

ASSUME NodeControllerAssumption ==
  /\ Rank \in [Eip -> Nat]
  /\ \A e, f \in Eip : Rank[e] = Rank[f] => e = f
  /\ NodeNamespaceEips \subseteq Eip

VARIABLES
  cachedRes,  \* the nodes in the watch cache
  resQueue,   \* nodes to be reconciled
  task,       \* task[n]: the reconciliation of n in progress
  egress      \* the egress gateway status label of a node

nodeCtlVars == <<cachedRes, resQueue, task, egress>>

\* eip is the Eip in hand, port the address of the node, alloc and assoc the
\* ids in hand and todo the Eips cleanup has still to release.
Task == [pc : {"idle", "release", "describe", "claim", "associate", "record",
               "cleanup", "disassociate", "detach", "label", "finalize"},
         eip : Eip \cup {None}, port : Port \cup {None},
         alloc : AllocId \cup {None}, assoc : AssocId \cup {None},
         todo : SUBSET (Eip \X (AllocId \cup {None}))]
IdleTask == [pc |-> "idle", eip |-> None, port |-> None, alloc |-> None,
             assoc |-> None, todo |-> {}]

NodeControllerInit ==
  /\ cachedRes = [n \in Resource |-> NoResource]
  /\ resQueue = {}
  /\ task = [n \in Resource |-> IdleTask]
  /\ egress = [n \in Resource |-> "none"]

NodeControllerTypeOK ==
  /\ cachedRes \in [Resource -> ResourceObject]
  /\ resQueue \in SUBSET Resource
  /\ task \in [Resource -> Task]
  /\ egress \in [Resource -> {"none", "false", "true"}]

-----------------------------------------------------------------------------
(* The reconciler around the controller.                                   *)

\* Mutant: two nodes are reconciled at the same time.
NodeConcurrencyTwo == 2

\* with_concurrency(1): how many nodes are reconciled at the same time.
NodeConcurrency == 1

NodeSlotFree ==
  Cardinality({n \in Resource : task[n].pc # "idle"}) < NodeConcurrency

NodeWatch(n) ==
  /\ n \notin resSynced
  /\ cachedRes' = [cachedRes EXCEPT ![n] = res[n]]
  /\ resSynced' = resSynced \cup {n}
  /\ resQueue' = IF res[n].phase = "absent" THEN resQueue \ {n} ELSE resQueue \cup {n}
  /\ UNCHANGED <<eipVars, res, awsVars, task, egress>>

NodeResync(n) ==
  /\ cachedRes[n].phase # "absent"
  /\ n \notin resQueue
  /\ resQueue' = resQueue \cup {n}
  /\ UNCHANGED <<eipVars, resVars, awsVars, cachedRes, task, egress>>

NodeReady(n, phase, finalizer) ==
  /\ task[n].pc = "idle"
  /\ n \in resQueue
  /\ NodeSlotFree
  /\ cachedRes[n].phase = phase
  /\ cachedRes[n].finalizer = finalizer

NodeAddFinalizer(n) ==
  /\ NodeReady(n, "live", FALSE)
  /\ res[n].phase = "live"
  /\ ~res[n].finalizer
  /\ PutResource(n, [res[n] EXCEPT !.finalizer = TRUE])
  /\ resQueue' = resQueue \ {n}
  /\ UNCHANGED <<cachedRes, task, egress>>

Continue(n, t) == task' = [task EXCEPT ![n] = t]

\* The reconciliation of n ends, with an error or a requeue if it is to be
\* tried again.
NodeEnd(n, again) ==
  /\ Continue(n, IdleTask)
  /\ resQueue' = IF again THEN resQueue \cup {n} ELSE resQueue

\* Any call may fail; what it and the calls before it did stays done.
NodeFails(n) ==
  /\ task[n].pc # "idle"
  /\ NodeEnd(n, TRUE)
  /\ seen' = Forget(n)
  /\ UNCHANGED <<eip, status, usedUid, resVars, awsVars, cachedRes, egress>>

\* The Eips of the list that the labels of n satisfy.
MatchedEips(n) == {e \in NodeNamespaceEips : Exists(e) /\ e \in cachedRes[n].matches}

IsFirst(e, es) == \A f \in es : Rank[e] <= Rank[f]

-----------------------------------------------------------------------------
(* apply                                                                   *)

\* Mutant: an Eip with a status may be claimed whoever holds it.
ClaimableAny(n, e) == status[e].present /\ n \in Resource

\* What n may claim: an Eip with a status that names no resource or n itself.
Claimable(n, e) == status[e].present /\ status[e].resource \in {None, n}

\* List the Eips and take the first one n may claim.  No match at all, and an
\* Eip whose status has no allocation id, are errors that change nothing.
NodeApply(n) ==
  LET open == {e \in MatchedEips(n) : Claimable(n, e)}
  IN /\ NodeReady(n, "live", TRUE)
     /\ MatchedEips(n) # {}
     /\ resQueue' = resQueue \ {n}
     /\ \/ open = {} /\ UNCHANGED <<seen, task>>
        \/ \E e \in open :
             /\ IsFirst(e, open)
             /\ seen' = Read({e}, n)
             /\ \/ /\ cachedRes[n].ready
                   /\ status[e].alloc # None
                   /\ Continue(n, [IdleTask EXCEPT !.pc = "describe", !.eip = e,
                                     !.port = cachedRes[n].port, !.alloc = status[e].alloc])
                \/ /\ ~cachedRes[n].ready
                   /\ Continue(n, [IdleTask EXCEPT !.pc = "release", !.eip = e])
     /\ UNCHANGED <<eip, status, usedUid, resVars, awsVars, cachedRes, egress>>

\* set_status_detached for a node that is not ready.
NodeRelease(n) ==
  LET e == task[n].eip
      current == n \in seen[e]
  IN /\ task[n].pc = "release"
     /\ IF current THEN Store(e, StatusDetached(status[e]), {n})
                   ELSE seen' = Forget(n) /\ UNCHANGED status
     /\ NodeEnd(n, ~current)
     /\ UNCHANGED <<eip, usedUid, resVars, awsVars, cachedRes, egress>>

\* Mutant: an Eip whose status names n already is taken to be attached.
NodeDescribeTrustsStatus(n) ==
  LET t == task[n]
      found == t.alloc \in allocated
  IN /\ t.pc = "describe"
     /\ IF found /\ status[t.eip].resource # n
          THEN Continue(n, [t EXCEPT !.pc = "claim"]) /\ UNCHANGED <<seen, resQueue>>
          ELSE NodeEnd(n, ~found) /\ seen' = Forget(n)
     /\ UNCHANGED <<eip, status, usedUid, resVars, awsVars, cachedRes, egress>>

\* An unknown allocation id is an error.  An address that is already on the
\* port of n is left alone, and so is the status of its Eip.
NodeDescribe(n) ==
  LET t == task[n]
      found == t.alloc \in allocated
  IN /\ t.pc = "describe"
     /\ IF found /\ attached[t.alloc].port # t.port
          THEN Continue(n, [t EXCEPT !.pc = "claim"]) /\ UNCHANGED <<seen, resQueue>>
          ELSE NodeEnd(n, ~found) /\ seen' = Forget(n)
     /\ UNCHANGED <<eip, status, usedUid, resVars, awsVars, cachedRes, egress>>

\* replace_status of the listed copy: after a conflict try again in 3 seconds.
NodeClaim(n) ==
  LET t == task[n]
  IN /\ t.pc = "claim"
     /\ IF n \in seen[t.eip]
          THEN /\ Store(t.eip, StatusShouldAttach(status[t.eip], n, t.port), {n})
               /\ Continue(n, [t EXCEPT !.pc = "associate"])
               /\ UNCHANGED resQueue
          ELSE NodeEnd(n, TRUE) /\ seen' = Forget(n) /\ UNCHANGED status
     /\ UNCHANGED <<eip, usedUid, resVars, awsVars, cachedRes, egress>>

\* x is the association id AWS answers with.
NodeAssociate(n, x) ==
  LET t == task[n]
  IN /\ t.pc = "associate"
     /\ IF t.alloc \in allocated
          THEN /\ associate_eip(t.alloc, t.port, x)
               /\ Continue(n, [IdleTask EXCEPT !.pc = "record", !.eip = t.eip, !.assoc = x])
               /\ UNCHANGED resQueue
          ELSE NodeEnd(n, TRUE) /\ UNCHANGED awsVars
     /\ UNCHANGED <<eipVars, resVars, cachedRes, egress>>

\* Mutant: the association id is written with a replace of the listed copy.
NodeRecordReplaces(n) ==
  LET t == task[n]
      current == n \in seen[t.eip]
  IN /\ t.pc = "record"
     /\ IF current THEN Store(t.eip, StatusAssociationId(status[t.eip], t.assoc), {n})
                   ELSE seen' = Forget(n) /\ UNCHANGED status
     /\ NodeEnd(n, ~current)
     /\ UNCHANGED <<eip, usedUid, resVars, awsVars, cachedRes, egress>>

\* set_status_association_id, a merge patch by name.
NodeRecord(n) ==
  LET t == task[n]
  IN /\ t.pc = "record"
     /\ IF Exists(t.eip)
          THEN Store(t.eip, StatusAssociationId(status[t.eip], t.assoc), {})
          ELSE UNCHANGED <<status, seen>>
     /\ NodeEnd(n, ~Exists(t.eip))
     /\ UNCHANGED <<eip, usedUid, resVars, awsVars, cachedRes, egress>>

-----------------------------------------------------------------------------
(* cleanup                                                                 *)

CleanupStep(todo) == IF todo = {} THEN "label" ELSE "cleanup"

\* List the Eips that name n.
NodeCleanup(n) ==
  LET held == {e \in MatchedEips(n) : status[e].present /\ status[e].resource = n}
      todo == {<<e, status[e].alloc>> : e \in held}
  IN /\ NodeReady(n, "deleting", TRUE)
     /\ resQueue' = resQueue \ {n}
     /\ seen' = Read(held, n)
     /\ Continue(n, [IdleTask EXCEPT !.pc = CleanupStep(todo), !.todo = todo])
     /\ UNCHANGED <<eip, status, usedUid, resVars, awsVars, cachedRes, egress>>

\* Describe the address of the next Eip: no allocation id or an unknown one is
\* an error.
NodeCleanupDescribe(n) ==
  /\ task[n].pc = "cleanup"
  /\ \E t \in task[n].todo :
       /\ IsFirst(t[1], {s[1] : s \in task[n].todo})
       /\ IF t[2] \in allocated
            THEN /\ Continue(n, [task[n] EXCEPT !.eip = t[1], !.assoc = attached[t[2]].assoc,
                      !.pc = IF attached[t[2]].assoc = None THEN "detach" ELSE "disassociate"])
                 /\ UNCHANGED <<seen, resQueue>>
            ELSE NodeEnd(n, TRUE) /\ seen' = Forget(n)
  /\ UNCHANGED <<eip, status, usedUid, resVars, awsVars, cachedRes, egress>>

NodeCleanupDisassociate(n) ==
  /\ task[n].pc = "disassociate"
  /\ disassociate_eip(task[n].assoc)
  /\ Continue(n, [task[n] EXCEPT !.pc = "detach", !.assoc = None])
  /\ UNCHANGED <<eipVars, resVars, cachedRes, resQueue, egress>>

\* Mutant: a conflict is passed over.
NodeCleanupDetachIgnored(n) ==
  LET t == task[n]
      rest == {s \in t.todo : s[1] # t.eip}
  IN /\ t.pc = "detach"
     /\ IF n \in seen[t.eip] THEN Store(t.eip, StatusDetached(status[t.eip]), {})
                             ELSE UNCHANGED <<status, seen>>
     /\ Continue(n, [IdleTask EXCEPT !.pc = CleanupStep(rest), !.todo = rest])
     /\ UNCHANGED <<eip, usedUid, resVars, awsVars, cachedRes, resQueue, egress>>

\* set_status_detached: a conflict is an error.
NodeCleanupDetach(n) ==
  LET t == task[n]
      rest == {s \in t.todo : s[1] # t.eip}
  IN /\ t.pc = "detach"
     /\ IF n \in seen[t.eip]
          THEN /\ Store(t.eip, StatusDetached(status[t.eip]), {})
               /\ Continue(n, [IdleTask EXCEPT !.pc = CleanupStep(rest), !.todo = rest])
               /\ UNCHANGED resQueue
          ELSE NodeEnd(n, TRUE) /\ seen' = Forget(n) /\ UNCHANGED status
     /\ UNCHANGED <<eip, usedUid, resVars, awsVars, cachedRes, egress>>

\* add_gateway_status_label "false".
NodeCleanupLabel(n) ==
  /\ task[n].pc = "label"
  /\ egress' = [egress EXCEPT ![n] = "false"]
  /\ resSynced' = IF egress[n] = "false" THEN resSynced ELSE resSynced \ {n}
  /\ Continue(n, [IdleTask EXCEPT !.pc = "finalize"])
  /\ seen' = Forget(n)
  /\ UNCHANGED <<eip, status, usedUid, res, awsVars, cachedRes, resQueue>>

\* The reconciler takes its finalizer off.
NodeRemoveFinalizer(n) ==
  LET gone == res[n].phase = "deleting"
  IN /\ task[n].pc = "finalize"
     /\ IF res[n].finalizer
          THEN /\ PutResource(n, IF gone THEN NoResource
                                 ELSE [res[n] EXCEPT !.finalizer = FALSE])
               /\ egress' = [egress EXCEPT ![n] = IF gone THEN "none" ELSE @]
          ELSE UNCHANGED <<eipVars, resVars, awsVars, egress>>
     /\ NodeEnd(n, ~res[n].finalizer)
     /\ UNCHANGED cachedRes

-----------------------------------------------------------------------------
\* The steps of a reconciliation that has started, no call failing; pool is
\* the set of association ids that are free.
NodeProgress(n, pool) ==
  \/ NodeRelease(n)
  \/ NodeDescribe(n)
  \/ NodeClaim(n)
  \/ task[n].pc = "associate" /\ pool # {} /\ NodeAssociate(n, CHOOSE x \in pool : TRUE)
  \/ NodeRecord(n)
  \/ NodeCleanupDescribe(n)
  \/ NodeCleanupDisassociate(n)
  \/ NodeCleanupDetach(n)
  \/ NodeCleanupLabel(n)
  \/ NodeRemoveFinalizer(n)

NodeStart(n) ==
  \/ NodeAddFinalizer(n)
  \/ NodeApply(n)
  \/ NodeCleanup(n)

NodeStep(n, pool) == NodeWatch(n) \/ NodeStart(n) \/ NodeProgress(n, pool)

\* An operator that starts lists every node and reconciles each.
NodeControllerRestart ==
  /\ cachedRes' = res
  /\ resQueue' = {n \in Resource : res[n].phase # "absent"}
  /\ task' = [n \in Resource |-> IdleTask]

\* The association ids remembered here.
NodeControllerAssocs == {task[n].assoc : n \in Resource}
=============================================================================
