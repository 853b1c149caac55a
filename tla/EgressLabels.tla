---------------------------- MODULE EgressLabels ----------------------------
(***************************************************************************)
(* The egress task of the operator (main.rs, run; egress.rs): it watches   *)
(* the Eips and labels the node that has the claim as the gateway that is  *)
(* ready, and every other node the selector of the Eip matches as not.     *)
(*                                                                         *)
(* The claims are made by the node controller; all this module uses of it  *)
(* is that it keeps ClaimLock, as NodeOperator does.  Every node here      *)
(* satisfies the selector of every Eip.  An event carries the Eip as it    *)
(* was written, of which the task reads the resource id only.              *)
(***************************************************************************)
EXTENDS Integers, Sequences

CONSTANTS
  Eip, Node, None,
  MaxEvents,   \* bound on the events that wait to be handled
  Flaky,       \* nodes whose Ready condition may change after the first time
  Leaving,     \* nodes that may be deleted
  Failing,     \* whether a label write may fail
  WatchBreaks, \* whether the watch may meet an error
  Crashing     \* whether the operator may crash and be started again

ASSUME EgressAssumption == None \notin Node

VARIABLES
  claim,    \* the resource id in the status of an Eip
  phase,    \* whether a node is there
  ready,    \* the Ready condition of a node
  label,    \* the egress label of a node
  watching, \* whether the watch loop still runs
  events,   \* the resource ids of the events that were not handled yet
  job       \* the event being handled

vars == <<claim, phase, ready, label, watching, events, job>>
nodeVars == <<phase, ready>>

\* gateway is the node to be labelled "true", off the nodes to be labelled
\* "false" after it.
Job == [pc : {"idle", "on", "off"}, gateway : Node \cup {None}, off : SUBSET Node]
IdleJob == [pc |-> "idle", gateway |-> None, off |-> {}]

Lock == INSTANCE ClaimLock WITH Resource <- Node

TypeOK ==
  /\ claim \in [Eip -> Node \cup {None}]
  /\ phase \in [Node -> {"absent", "live", "deleting"}]
  /\ ready \in [Node -> BOOLEAN]
  /\ label \in [Node -> {"none", "true", "false"}]
  /\ watching \in BOOLEAN
  /\ events \in Seq(Node \cup {None})
  /\ job \in Job

Init ==
  /\ Lock!Init
  /\ phase = [n \in Node |-> "absent"]
  /\ ready = [n \in Node |-> FALSE]
  /\ label = [n \in Node |-> "none"]
  /\ watching = TRUE
  /\ events = <<>>
  /\ job = IdleJob

-----------------------------------------------------------------------------
(* The egress task.                                                        *)

Present(n) == phase[n] # "absent"

\* Mutant: only the nodes that are ready.
MatchedNodesReady == {n \in Node : Present(n) /\ ready[n]}
MatchedNodes == {n \in Node : Present(n)}

\* Mutant: the nodes in the order of the list.
JobInListOrder(h) ==
  IF h \in MatchedNodes /\ ready[h]
    THEN [pc |-> IF MatchedNodes = {h} THEN "on" ELSE "off", gateway |-> h,
          off |-> MatchedNodes \ {h}]
    ELSE IdleJob

\* Mutant: a node that has the label already is left alone.
JobForUnlabelled(h) ==
  IF h \in MatchedNodes /\ ready[h] /\ label[h] # "true"
    THEN [pc |-> "on", gateway |-> h, off |-> MatchedNodes \ {h}]
    ELSE IdleJob

\* Without a resource id, with one that names no node that matches, or with a
\* node that is not ready, there is nothing to do.
JobFor(h) ==
  IF h \in MatchedNodes /\ ready[h]
    THEN [pc |-> "on", gateway |-> h, off |-> MatchedNodes \ {h}]
    ELSE IdleJob

\* label_egress_nodes lists the nodes when it is called, for an event that may
\* be older.
HandleEvent ==
  /\ watching
  /\ job = IdleJob
  /\ events # <<>>
  /\ job' = JobFor(Head(events))
  /\ events' = Tail(events)
  /\ UNCHANGED <<claim, nodeVars, label, watching>>

\* add_gateway_status_label: the role of the operator may not create nodes, so
\* that the apply patch of a node that is gone is an error, which ends the job.
add_gateway_status_label(n, s, rest) ==
  /\ IF Present(n)
       THEN label' = [label EXCEPT ![n] = s] /\ job' = rest
       ELSE job' = IdleJob /\ UNCHANGED label
  /\ UNCHANGED <<claim, nodeVars, watching, events>>

\* Mutant: the label is the status of the condition as it is written there.
LabelGatewayVerbatim ==
  /\ job.pc = "on"
  /\ add_gateway_status_label(job.gateway, "True",
       IF job.off = {} THEN IdleJob ELSE [job EXCEPT !.pc = "off"])

LabelGateway ==
  /\ job.pc = "on"
  /\ add_gateway_status_label(job.gateway, "true",
       IF job.off = {} THEN IdleJob ELSE [job EXCEPT !.pc = "off"])

LabelOther ==
  /\ job.pc = "off"
  /\ \E n \in job.off :
       LET rest == job.off \ {n}
       IN add_gateway_status_label(n, "false",
            IF rest = {} THEN IdleJob ELSE [job EXCEPT !.off = rest])

\* An error is logged and the event is not tried again.
LabelFails ==
  /\ Failing
  /\ job.pc # "idle"
  /\ job' = IdleJob
  /\ UNCHANGED <<claim, nodeVars, label, watching, events>>

\* The first error of the watch ends the loop for ever; the process goes on.
WatchError ==
  /\ WatchBreaks
  /\ watching
  /\ job = IdleJob
  /\ watching' = FALSE
  /\ events' = <<>>
  /\ UNCHANGED <<claim, nodeVars, label, job>>

\* The next process starts a watch, which brings the Eips there are as InitApply
\* events; they are ignored.
Restart ==
  /\ Crashing
  /\ watching' = TRUE
  /\ events' = <<>>
  /\ job' = IdleJob
  /\ UNCHANGED <<claim, nodeVars, label>>

EgressTask == HandleEvent \/ LabelGateway \/ LabelOther

-----------------------------------------------------------------------------
(* The claims and the nodes.                                               *)

\* A write to an Eip with resource id h is an event of the watch.
Written(h) ==
  /\ Len(events) < MaxEvents
  /\ events' = IF watching THEN Append(events, h) ELSE events
  /\ UNCHANGED <<nodeVars, label, watching, job>>

\* A node that is ready, or was when its controller last looked, claims e; it may
\* be being deleted by then.
NodeClaims(e, n) ==
  /\ Present(n)
  /\ ready[n] \/ n \in Flaky
  /\ Lock!Take(e, n)
  /\ Written(n)

ClaimYielded(e) == Lock!Yield(e) /\ Written(None)

\* Another field of the status is written, such as the association id.
StatusWritten(e) == UNCHANGED claim /\ Written(claim[e])

\* The Delete event carries the Eip as it last was.
EipDeleted(e) == Lock!Yield(e) /\ Written(claim[e])

NodeChanges(n, p, r, l) ==
  /\ phase' = [phase EXCEPT ![n] = p]
  /\ ready' = [ready EXCEPT ![n] = r]
  /\ label' = [label EXCEPT ![n] = l]
  /\ UNCHANGED <<claim, watching, events, job>>

\* A name is not used again while a job that knows the old node goes on.
NodeJoins(n) ==
  /\ phase[n] = "absent"
  /\ n # job.gateway
  /\ NodeChanges(n, "live", FALSE, "none")

NodeBecomes(n) ==
  /\ phase[n] # "absent"
  /\ n \in Flaky \/ ~ready[n]
  /\ NodeChanges(n, phase[n], ~ready[n], label[n])

NodeDeleted(n) ==
  /\ n \in Leaving
  /\ phase[n] = "live"
  /\ NodeChanges(n, "deleting", ready[n], label[n])

\* Once cleanup of the node controller has released the claims of the node, it
\* writes the label; then the node goes.
NodeCleanupLabel(n) ==
  /\ phase[n] = "deleting"
  /\ \A e \in Eip : claim[e] # n
  /\ NodeChanges(n, phase[n], ready[n], "false")

NodeLeaves(n) ==
  /\ phase[n] = "deleting"
  /\ \A e \in Eip : claim[e] # n
  /\ label[n] = "false"
  /\ NodeChanges(n, "absent", FALSE, "none")

Environment ==
  \/ \E e \in Eip : \/ \E n \in Node : NodeClaims(e, n)
                    \/ ClaimYielded(e)
                    \/ StatusWritten(e)
                    \/ EipDeleted(e)
  \/ \E n \in Node : \/ NodeJoins(n) \/ NodeBecomes(n) \/ NodeDeleted(n)
                     \/ NodeCleanupLabel(n) \/ NodeLeaves(n)

Next == EgressTask \/ LabelFails \/ WatchError \/ Restart \/ Environment

Spec == Init /\ [][Next]_vars

\* Events are handled one after the other, and every call returns or fails.
FairSpec == Spec /\ WF_vars(EgressTask)

-----------------------------------------------------------------------------
(* Properties.                                                             *)

Gateways == {n \in Node : label[n] = "true"}

\* Traffic is dropped when a label goes away from "true" (egress.rs), so the task
\* takes it off a node only while the node that follows is a gateway already,
\* unless that node is itself being deleted: whatever fails or crashes halfway.
HandoverKeepsGateway ==
  [][\A n \in Gateways :
       EgressTask /\ label'[n] # "true" =>
         \/ \E m \in Gateways : m # n
         \/ phase[job.gateway] # "live"]_vars

\* A job gets to its last label, or ends before.
JobDone ==
  \/ LabelGateway /\ job.off = {}
  \/ LabelOther /\ \E n \in Node : job.off = {n}
JobCut == job # IdleJob /\ job' = IdleJob /\ ~JobDone

\* A job that gets to its last label leaves its node as the only gateway (egress.rs,
\* "mark all other nodes"), though the list of nodes it works through is old by then,
\* and whatever earlier jobs left undone.
OneGatewayAfterJob ==
  [][JobDone => Gateways' \subseteq {job.gateway}]_vars

\* Between two events two nodes are gateways only if a job was cut short and none has
\* got to its end since: nothing else leaves a second one, whatever claims and nodes
\* come and go, wherever the process is started again (egress.rs, label_egress_nodes).
TwoGatewaysOnlyIfCut ==
  [][job' = IdleJob /\ ~JobCut =>
       \A n, m \in Gateways' : n # m => job = IdleJob /\ {n, m} \subseteq Gateways]_vars

Disturbed == LabelFails \/ WatchError \/ Restart \/ \E n \in Node : NodeDeleted(n)

\* Whatever was left undone, labels written halfway or events lost in a restart, is
\* put right by the next events of an Eip whose node keeps it (egress.rs,
\* label_egress_nodes), as long as the watch lasts.  The end of a job that had
\* nothing to change looks like a disturbance, and is a step of EgressTask.
LabelsHealed ==
  <>[][Disturbed => EgressTask]_vars /\ <>[]watching =>
    \A e \in Eip, n \in Node :
      /\ <>[](claim[e] = n /\ phase[n] = "live" /\ ready[n])
      /\ <>[](\A f \in Eip \ {e} : claim[f] = None)
      /\ []<>(events # <<>> /\ Head(events) = n)
      => <>[](Gateways = {n})

\* A node that keeps the claim and is ready becomes the gateway, and the only one
\* (egress.rs, label_egress_nodes), by the event of the claim alone.
EventuallyGateway ==
  <>[][Restart => EgressTask]_vars =>
    \A e \in Eip, n \in Node :
      <>[](claim[e] = n /\ phase[n] = "live" /\ ready[n]) => <>[](Gateways = {n})
=============================================================================
