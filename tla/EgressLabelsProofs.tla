-------------------------- MODULE EgressLabelsProofs -------------------------
(***************************************************************************)
(* Proofs about EgressLabels, for any number of Eips and nodes: a handover *)
(* of the gateway leaves no gap, and one that gets to its end leaves one   *)
(* gateway.                                                                *)
(***************************************************************************)
EXTENDS EgressLabels, TLAPS

\* What a job knows.  Its gateway is labelled once it turns the others off.
JobInv ==
  /\ \A n \in Node : label[n] # "none" => Present(n)
  /\ job.pc = "idle" => job = IdleJob
  /\ job.pc # "idle" => job.gateway \in Node \ job.off
  /\ job.pc = "off" /\ phase[job.gateway] = "live" => label[job.gateway] = "true"

LEMMA InitEgress == Init => TypeOK /\ JobInv
BY EgressAssumption DEF Init, Lock!Init, TypeOK, JobInv, Job, IdleJob, Present

\* The steps of the task and the ends of a job or a watch.
LEMMA TaskTypes ==
  ASSUME TypeOK, JobInv, EgressTask \/ LabelFails \/ WatchError \/ Restart
  PROVE  TypeOK' /\ JobInv'
<1> USE EgressAssumption DEF TypeOK, JobInv, Job, IdleJob, nodeVars, Present
<1>1. CASE HandleEvent
  <2>1. /\ Head(events) \in Node \cup {None}
        /\ Tail(events) \in Seq(Node \cup {None})
    BY <1>1 DEF HandleEvent
  <2> QED BY <1>1, <2>1 DEF HandleEvent, JobFor, MatchedNodes
<1>2. CASE LabelGateway
  <2>1. CASE Present(job.gateway) /\ job.off # {}
    BY <1>2, <2>1 DEF LabelGateway, add_gateway_status_label
  <2>2. CASE ~(Present(job.gateway) /\ job.off # {})
    BY <1>2, <2>2 DEF LabelGateway, add_gateway_status_label
  <2> QED BY <2>1, <2>2
<1>3. CASE LabelOther
  BY <1>3 DEF LabelOther, add_gateway_status_label
<1>4. CASE LabelFails \/ WatchError \/ Restart
  <2>1. /\ job' = IdleJob
        /\ UNCHANGED <<claim, nodeVars, label>>
        /\ watching' \in BOOLEAN
        /\ events' \in {events, <<>>}
    BY <1>4 DEF LabelFails, WatchError, Restart
  <2>2. events' \in Seq(Node \cup {None})
    <3>1. <<>> \in Seq(Node \cup {None})
      OBVIOUS
    <3>2. events \in Seq(Node \cup {None})
      OBVIOUS
    <3>3. events' = events \/ events' = <<>>
      BY <2>1
    <3> QED BY <3>1, <3>2, <3>3
  <2>3. TypeOK'
    BY <2>1, <2>2
  <2>4. JobInv'
    BY <2>1
  <2> QED BY <2>3, <2>4
<1> QED BY <1>1, <1>2, <1>3, <1>4 DEF EgressTask

LEMMA WrittenTypes ==
  ASSUME TypeOK, JobInv, NEW h \in Node \cup {None}, Written(h),
         claim' \in [Eip -> Node \cup {None}]
  PROVE  TypeOK' /\ JobInv'
BY DEF TypeOK, JobInv, Job, IdleJob, nodeVars, Present, Written

LEMMA EnvironmentTypes ==
  ASSUME TypeOK, JobInv, Environment
  PROVE  TypeOK' /\ JobInv'
<1>1. ASSUME NEW e \in Eip, NEW n \in Node, NodeClaims(e, n)
      PROVE  TypeOK' /\ JobInv'
  BY <1>1, WrittenTypes DEF NodeClaims, Lock!Take, TypeOK
<1>2. ASSUME NEW e \in Eip, ClaimYielded(e) \/ EipDeleted(e)
      PROVE  TypeOK' /\ JobInv'
  BY <1>2, WrittenTypes DEF ClaimYielded, EipDeleted, Lock!Yield, TypeOK
<1>3. ASSUME NEW e \in Eip, StatusWritten(e)
      PROVE  TypeOK' /\ JobInv'
  BY <1>3, WrittenTypes DEF StatusWritten, TypeOK
<1>4. ASSUME NEW n \in Node, NEW p \in {"absent", "live", "deleting"}, NEW r \in BOOLEAN,
             NEW l \in {"none", "true", "false"}, NodeChanges(n, p, r, l),
             l # "none" => p # "absent",
             n = job.gateway /\ p = "live" => phase[n] = "live" /\ l = label[n]
      PROVE  TypeOK' /\ JobInv'
  <2> USE DEF NodeChanges, TypeOK
  <2>1. TypeOK'
    BY <1>4
  <2>2. \A m \in Node : label'[m] # "none" => phase'[m] # "absent"
    BY <1>4 DEF JobInv, Present
  <2>3. job.pc = "off" /\ phase'[job.gateway] = "live" => label'[job.gateway] = "true"
    BY <1>4 DEF JobInv
  <2> QED BY <1>4, <2>1, <2>2, <2>3 DEF JobInv, IdleJob, Present
<1>5. ASSUME NEW n \in Node,
             NodeJoins(n) \/ NodeBecomes(n) \/ NodeDeleted(n) \/ NodeCleanupLabel(n)
             \/ NodeLeaves(n)
      PROVE  TypeOK' /\ JobInv'
  <2>1. /\ phase[n] \in {"absent", "live", "deleting"}
        /\ ready[n] \in BOOLEAN
        /\ label[n] \in {"none", "true", "false"}
        /\ label[n] # "none" => phase[n] # "absent"
    BY DEF TypeOK, JobInv, Present
  <2> QED BY <1>4, <1>5, <2>1
          DEF NodeJoins, NodeBecomes, NodeDeleted, NodeCleanupLabel, NodeLeaves
<1> QED BY <1>1, <1>2, <1>3, <1>5 DEF Environment

LEMMA NextEgress ==
  ASSUME TypeOK, JobInv, [Next]_vars
  PROVE  TypeOK' /\ JobInv'
<1>1. CASE UNCHANGED vars
  BY <1>1 DEF vars, nodeVars, TypeOK, JobInv, Present
<1> QED BY <1>1, TaskTypes, EnvironmentTypes DEF Next

\* The task takes a label off a node only if another node is a gateway.
LEMMA StepKeepsGateway ==
  ASSUME TypeOK, JobInv, NEW n \in Gateways, EgressTask, label'[n] # "true"
  PROVE  \/ \E m \in Gateways : m # n
         \/ phase[job.gateway] # "live"
<1>1. CASE HandleEvent
  BY <1>1 DEF HandleEvent, Gateways
<1>2. CASE LabelGateway
  BY <1>2 DEF LabelGateway, add_gateway_status_label, Gateways, TypeOK
<1>3. CASE LabelOther
  <2>1. n \in job.off /\ job.pc = "off"
    BY <1>3 DEF LabelOther, add_gateway_status_label, Gateways, TypeOK
  <2> QED BY <2>1 DEF JobInv, Gateways
<1> QED BY <1>1, <1>2, <1>3 DEF EgressTask

\* Every variable keeps its type, for any number of Eips, nodes and events.
THEOREM EgressTypeCorrect == Spec => []TypeOK
<1>1. TypeOK /\ JobInv /\ [Next]_vars => TypeOK' /\ JobInv'
  BY NextEgress
<1> QED BY InitEgress, <1>1, PTL DEF Spec

\* Traffic always has a gateway while it is handed over, whatever fails, crashes
\* or leaves (egress.rs, label_egress_nodes: "true" is written before "false").
THEOREM GatewayHandedOver == Spec => HandoverKeepsGateway
<1>1. TypeOK /\ JobInv /\ [Next]_vars => TypeOK' /\ JobInv'
  BY NextEgress
<1>2. TypeOK /\ JobInv /\ [Next]_vars =>
        [\A n \in Gateways :
           EgressTask /\ label'[n] # "true" =>
             \/ \E m \in Gateways : m # n
             \/ phase[job.gateway] # "live"]_vars
  BY StepKeepsGateway
<1> QED BY InitEgress, <1>1, <1>2, PTL DEF Spec, HandoverKeepsGateway

-----------------------------------------------------------------------------
(* One gateway, once a job has got to its last label.                      *)

\* Every gateway but the new one is on the list of those to be turned off.
OthersListed == job.pc # "idle" => Gateways \subseteq {job.gateway} \cup job.off

LEMMA TaskListsOthers ==
  ASSUME TypeOK, JobInv, OthersListed, EgressTask \/ LabelFails \/ WatchError \/ Restart
  PROVE  OthersListed'
<1> USE DEF TypeOK, JobInv, OthersListed, Job, IdleJob, Gateways, Present
<1>1. CASE HandleEvent
  BY <1>1 DEF HandleEvent, JobFor, MatchedNodes
<1>2. CASE LabelGateway
  BY <1>2 DEF LabelGateway, add_gateway_status_label
<1>3. CASE LabelOther
  BY <1>3 DEF LabelOther, add_gateway_status_label
<1>4. CASE LabelFails \/ WatchError \/ Restart
  BY <1>4 DEF LabelFails, WatchError, Restart
<1> QED BY <1>1, <1>2, <1>3, <1>4 DEF EgressTask

\* Nobody else makes a node a gateway.
LEMMA EnvironmentListsOthers ==
  ASSUME TypeOK, OthersListed, Environment
  PROVE  OthersListed'
<1> USE DEF TypeOK, OthersListed, Gateways
<1>1. CASE UNCHANGED <<label, job>>
  BY <1>1
<1>2. ASSUME NEW n \in Node,
             NodeJoins(n) \/ NodeBecomes(n) \/ NodeDeleted(n) \/ NodeCleanupLabel(n)
             \/ NodeLeaves(n)
      PROVE  OthersListed'
  <2>1. Gateways' \subseteq Gateways /\ UNCHANGED job
    BY <1>2
    DEF NodeJoins, NodeBecomes, NodeDeleted, NodeCleanupLabel, NodeLeaves, NodeChanges
  <2> QED BY <2>1
<1> QED
  BY <1>1, <1>2
  DEF Environment, NodeClaims, ClaimYielded, StatusWritten, EipDeleted, Written

LEMMA NextListsOthers ==
  ASSUME TypeOK, JobInv, OthersListed, [Next]_vars
  PROVE  OthersListed'
<1>1. CASE UNCHANGED vars
  BY <1>1 DEF vars, OthersListed, Gateways
<1> QED BY <1>1, TaskListsOthers, EnvironmentListsOthers DEF Next

\* The last label leaves the node of the job alone.
LEMMA LastLabel ==
  ASSUME TypeOK, JobInv, OthersListed, JobDone
  PROVE  Gateways' \subseteq {job.gateway}
<1> USE DEF TypeOK, JobInv, OthersListed, Job, Gateways, Present
<1>1. CASE LabelGateway /\ job.off = {}
  BY <1>1 DEF LabelGateway, add_gateway_status_label
<1>2. ASSUME NEW n \in Node, LabelOther, job.off = {n}
      PROVE  Gateways' \subseteq {job.gateway}
  <2>1. label'[n] # "true" /\ \A m \in Node \ {n} : label'[m] = label[m]
    BY <1>2 DEF LabelOther, add_gateway_status_label
  <2> QED BY <1>2, <2>1 DEF LabelOther
<1> QED BY <1>1, <1>2 DEF JobDone

\* A job that gets to its last label leaves one gateway, whatever was left of
\* earlier jobs and whatever happened to claims and nodes meanwhile (egress.rs,
\* "mark all other nodes as not ready for egress traffic").
THEOREM GatewayAlone == Spec => OneGatewayAfterJob
<1>1. Init => OthersListed
  BY DEF Init, OthersListed, IdleJob
<1>2. TypeOK /\ JobInv /\ [Next]_vars => TypeOK' /\ JobInv'
  BY NextEgress
<1>3. TypeOK /\ JobInv /\ OthersListed /\ [Next]_vars => OthersListed'
  BY NextListsOthers
<1>4. TypeOK /\ JobInv /\ OthersListed /\ [Next]_vars =>
        [JobDone => Gateways' \subseteq {job.gateway}]_vars
  BY LastLabel
<1> QED BY InitEgress, <1>1, <1>2, <1>3, <1>4, PTL DEF Spec, OneGatewayAfterJob

-----------------------------------------------------------------------------
(* Two gateways, once a job was cut short.                                 *)

\* No node becomes a gateway outside a job.
LEMMA IdleMakesNoGateway ==
  ASSUME TypeOK, Next, job = IdleJob, job' = IdleJob
  PROVE  Gateways' \subseteq Gateways
<1> USE DEF TypeOK, Gateways, IdleJob
<1>1. CASE UNCHANGED label
  BY <1>1
<1>2. CASE LabelGateway \/ LabelOther
  BY <1>2 DEF LabelGateway, LabelOther
<1>3. ASSUME NEW n \in Node,
             NodeJoins(n) \/ NodeBecomes(n) \/ NodeDeleted(n) \/ NodeCleanupLabel(n)
             \/ NodeLeaves(n)
      PROVE  Gateways' \subseteq Gateways
  BY <1>3
  DEF NodeJoins, NodeBecomes, NodeDeleted, NodeCleanupLabel, NodeLeaves, NodeChanges
<1> QED
  BY <1>1, <1>2, <1>3
  DEF Next, EgressTask, HandleEvent, LabelFails, WatchError, Restart, Environment,
      NodeClaims, ClaimYielded, StatusWritten, EipDeleted, Written

\* The step that leaves two gateways between events cuts a job short: no step outside
\* a job, and none that ends one with its last label, adds a second (egress.rs, "mark
\* all other nodes as not ready for egress traffic").
THEOREM SecondGatewayIsLeft == Spec => TwoGatewaysOnlyIfCut
<1>1. Init => OthersListed
  BY DEF Init, OthersListed, IdleJob
<1>2. TypeOK /\ JobInv /\ [Next]_vars => TypeOK' /\ JobInv'
  BY NextEgress
<1>3. TypeOK /\ JobInv /\ OthersListed /\ [Next]_vars => OthersListed'
  BY NextListsOthers
<1>4. ASSUME TypeOK, JobInv, OthersListed, Next, job' = IdleJob, ~JobCut,
             NEW n \in Gateways', NEW m \in Gateways', n # m
      PROVE  job = IdleJob /\ {n, m} \subseteq Gateways
  <2>1. ~JobDone
    BY <1>4, LastLabel
  <2>2. job = IdleJob
    BY <1>4, <2>1 DEF JobCut
  <2> QED BY <1>4, <2>2, IdleMakesNoGateway
<1>5. TypeOK /\ JobInv /\ OthersListed /\ [Next]_vars =>
        [job' = IdleJob /\ ~JobCut =>
           \A n, m \in Gateways' : n # m => job = IdleJob /\ {n, m} \subseteq Gateways]_vars
  BY <1>4
<1> QED BY InitEgress, <1>1, <1>2, <1>3, <1>5, PTL DEF Spec, TwoGatewaysOnlyIfCut
=============================================================================
