# Verification of the eip-operator

TLA+ models of the eip-operator, the TLC runs that check them on small
instances, and TLAPS proofs of the most important theorems for instances of any
size. Paths are relative to the repository, line numbers are those of the commit
the models were translated from.

## The system

The operator keeps AWS Elastic IP addresses (EIPs) for Kubernetes pods and nodes.
A custom resource `Eip` stands for one address. Three controllers of one process
share the Eip objects in the Kubernetes API server and the addresses in EC2; none
of them talks to another except through those two.

| component | state it keeps | operations | how it interacts |
|---|---|---|---|
| Eip controller (`controller/eip.rs`) | none of its own: a watch cache, a queue, a finalizer on the Eip | `apply`: find or allocate the address by its uid tag, write the status, drop a stale claim, touch the matching resources; `cleanup`: disassociate and release | reads the cache, lists resources, patches and replaces the Eip status, patches a label of pods and nodes so that their controllers run |
| Node controller (`controller/node.rs`) | watch cache, queue, finalizer on the node | `apply`: a ready node claims the first free Eip that matches, associates the address, records the association; a node that is not ready releases the claim; `cleanup`: release every claim | lists Eips from the API server, replaces their status under optimistic locking, associates in EC2; one node at a time |
| Pod controller (`controller/pod.rs`) | watch cache, queue, finalizer on the pod, the external-dns annotation | `apply`: create the Eip of a pod that asks for one, claim the one Eip that names the pod, associate, annotate; `cleanup`: give up every claim, delete the Eip of the pod | as the node controller, several pods at a time |
| Eip resource (`eip.rs`) | the Eip objects | the status writes, creation and deletion for a pod, the upgrade from version 1 | called by the controllers and by startup |
| AWS calls (`aws.rs`) | the addresses, with tags | allocate, describe, associate, disassociate, release | called by the controllers and by startup |
| Egress labels (`egress.rs`, the loop in `main.rs`) | one label of each node | for each event of the Eip watch: label the node that has the claim `"true"` and the others `"false"` | watches Eips, lists and patches nodes; Cilium sends traffic by the label |
| Startup (`main.rs`, `eip.rs`) | | register the definition, upgrade old Eips, release the addresses of no Eip, remove the finalizers of an older operator | runs before the controllers; users do not wait for it |
| Operator process (`main.rs`) | | spawns the tasks; a panic aborts the process | a crash loses every cache, queue and reconciliation |
| Masquerade agent (`cilium_eip_no_masquerade_agent`) | iptables rules in the chain `CILIUM_PRE_mangle` and ip rules, for `eth1` to `eth15` | once a second: add what is missing | another process, on each node, beside Cilium, which takes its chain away and makes it anew |
| Quota report, errors, tracing | | log | |

What is hard here:

* **Interleaving.** Every controller acts in several API calls; the other
  controllers, the users and the kubelets act between any two of them. The
  Eip controller works on a cached object, the node controller on a cached node
  and a listed Eip, the egress task on an event that waited.
* **Optimistic locking, sometimes.** `set_status_should_attach` and
  `set_status_detached` replace the status and fail on a conflict;
  `set_status_created` and `set_status_association_id` are merge patches by name
  with no version, so a late one lands on whatever object has the name.
* **Partial failure.** The address is allocated before it is recorded, the claim is
  recorded before the association is made, the association is made before its id
  is recorded; labels are written one by one; any call in between may fail, and the
  process may die. AllocateAddress has no client token.
* **Identity.** Objects come back under the same name with a new uid. EC2 knows
  the uid (the tag `eip.materialize.cloud/eip_uid`), the status knows the name.
* **Liveness.** A node that finds no free Eip gives up until something touches it;
  a deletion competes with nodes that claim the address again; a watch loop that
  ends does not start again; a start that fails fails again.

What makes each part correct:

* Eip controller: one address per object whatever fails; none left behind; a
  deleted object goes away; a stale claim is dropped.
* Node controller: a claim passes through nobody before another node has it; no
  address is taken from the node that has the claim; a node leaves no claim
  behind; the address ends up on a node that can carry it.
* Pod controller: whatever is associated is claimed, so that cleanup finds it; a
  claim never outlives the pod; the Eip of a pod goes with it and comes with the
  next; a running pod is served.
* Egress labels: a handover leaves no gap and, when it is through, one gateway.
* Startup: no address is released that an Eip has; what an upgrade leaves behind is
  released at last; the controllers get to run.
* Masquerade agent: no rule twice, no failure of its own making, all rules at last.

## Modules

| module | what it is |
|---|---|
| `Cluster` | The shared state (Eip objects and statuses, resources, addresses) and one operator per API call. A resource is a node or a pod. |
| `EipController` | `controller/eip.rs` in its reconciler: `EipApply`, `EipAllocate`, `EipSetStatusCreated`, `EipListResources`, `EipDisassociate`, `EipSetStatusDetached`, `EipRefresh`; `EipCleanup`, `EipCleanupDisassociate`, `EipCleanupRelease`; and the reconciler's `EipWatch`, `EipResync`, `EipAddFinalizer`, `EipRemoveFinalizer`, `EipFails`. |
| `EipAddresses` | What the Eip controller promises about addresses whatever runs beside it: the safety properties, the parts of their inductive invariant, and the refinement mapping to `AddressLedger`. |
| `AddressLedger` | Abstract specification: what the operator promises about addresses, by uid. |
| `NodeController` | `controller/node.rs` in its reconciler: `NodeApply`, `NodeRelease`, `NodeDescribe`, `NodeClaim`, `NodeAssociate`, `NodeRecord`; `NodeCleanup`, `NodeCleanupDescribe`, `NodeCleanupDisassociate`, `NodeCleanupDetach`, `NodeCleanupLabel`; and the reconciler's actions. |
| `NodeOperator` | Eip and node controller over one cluster, with users, kubelets, failing calls and crashes. |
| `ClaimLock` | Abstract specification: the claim on an Eip as a lock that is taken when free and given up before another takes it. |
| `PodController` | `controller/pod.rs` in its reconciler: `PodApply` (with `create_for_pod`), `PodList`, `PodDescribe`, `PodClaim`, `PodAssociate`, `PodRecord`, `PodAnnotate`; `PodCleanup`, `PodCleanupDescribe`, `PodCleanupDisassociate`, `PodCleanupDetach`, `PodDeleteEip`; and the reconciler's actions. |
| `PodOperator` | Eip and pod controller over one cluster, with users, pods that come back under their name, failing calls and crashes. |
| `EgressLabels` | The egress task over `ClaimLock`: `HandleEvent`, `LabelGateway`, `LabelOther`, failing writes, the end of the watch, restarts, nodes that flap, leave and join. |
| `Startup` | `run` and `cleanup_orphan_eips` of `main.rs` and `upgrade_old_resources` of `eip.rs`, call by call, then the Eip controller, with users, lost answers and restarts. |
| `MasqueradeAgent` | The agent, command by command, with Cilium and other disturbances. |
| `MCNodeOperator`, `MCPodOperator`, `MCStartup` | The values of the constants for TLC. |
| `EipAddressesProofs` | What every step of the Eip controller does to the invariant, and the ledger; shared by the two operators. |
| `NodeOperatorAddresses`, `NodeOperatorClaims` | Proofs about `NodeOperator`: types, addresses and the ledger; the claim lock, nodes that leave, addresses that are not stolen, associations that are known. |
| `PodOperatorAddresses`, `PodOperatorClaims` | Proofs about `PodOperator`: types, addresses and the ledger; claims, associations and the Eips of pods. |
| `EgressLabelsProofs` | Proofs about `EgressLabels`: types, the handover, one gateway. |
| `StartupProofs` | Proofs about `Startup`: types, only orphans released, legacy addresses first, who leaves an address behind. |
| `MasqueradeAgentProofs` | Proofs about `MasqueradeAgent`: types, no rule twice, no failure of its own making. |

Composition: `NodeOperator` and `PodOperator` extend `EipAddresses` (hence
`EipController` and `Cluster`) and one controller each. `Startup` extends
`EipAddresses` too, for the life after the start. `EgressLabels` does not repeat the
node controller: it uses `ClaimLock`, and `NodeOperator` is shown to implement
`ClaimLock` (`KeepsClaimLock`, checked and proved), so that what holds of the
egress task over the lock holds of it over the operator.

### How the state corresponds to the code

* One action is one API call together with the local computation up to the next.
  `worker[e]`, `task[n]`, `podTask[r]` and `job` are the local variables of the
  functions that are still needed; their `pc` (`stage` in `Startup`) names the call
  that comes next. The first call (describe for an Eip, list for a node) is made in
  the step that takes the object off the queue; a delay between the two is the same
  as an older cache. Lookups that only read what nobody changes and decide nothing (the
  instance of a node, the interfaces of an instance) are part of the step before;
  they can fail, as every call.
* `cachedEip`, `cachedStatus`, `cachedRes` and `cachedPod` are the watch caches: they fall
  behind and are brought up to date by the watch actions at any later time. `events`
  of `EgressLabels` is the stream of its own watch, in order.
* A `resourceVersion` is not a number here. All the code needs is whether a copy
  is still the stored version, so `seen[e]` is the set of holders (a resource, the Eip's
  own worker, the cache) whose copy is. A read adds the reader, a write that
  changes the object empties the set, and a write with a version succeeds exactly
  if its holder is in the set. A write that changes nothing makes no new version,
  as in the API server. In `Startup` the holder `e` is the list of the upgrade.
* `EipStatus` keeps the allocation id, the resource id, the association id and
  `port`, which stands for the private IP address (and the interface found with it).
  `present` is whether the status was ever set. The public address follows the
  allocation id and is left out; `dnsTarget` holds the allocation id for it.
* The labels of a node and the selectors of Eips are one set, `matches`: the Eips
  whose selector the labels satisfy. For a pod `matches` are the Eips that name it.
  `ready` is the Ready condition of a node, and of a pod that it is scheduled and has
  an address. The refresh label is only a new version of the resource (`resSynced`).
* An association id no part of the system remembers any more may be given out
  again; that keeps the ids few without changing what is remembered. Ids of
  addresses and uids of objects are never reused.
* In `MasqueradeAgent` rule 0 restores the mark and rule i marks interface i; an ip
  rule is known by its mark. The three iptables and ip commands that can fail do so
  for the reasons the code can meet (no chain, a rule that exists); `Killed` is every
  other failure, since every error is unwrapped.
* Mutants (definitions commented "Mutant: ...") stand before the definitions they
  are variants of. No specification uses them; they are there so that each property
  can be seen to fail when the code is wrong in a plausible way.

### What is assumed

* The finalizer protocol is that of `kube_runtime::finalizer`: nothing is applied
  before the finalizer is stored, cleanup runs before it is removed, and the removal
  is a JSON patch that tests for the finalizer, not for the uid. The same object is
  never reconciled by two workers of a controller, and the node controller
  reconciles one node at a time (`main.rs:147`). No other finalizers are on the
  objects.
* A call that fails did its work or did not (`EipFails`, `NodeFails` and `PodFails`
  follow every call, and may come before the next). A request that is done twice for
  one answer matters only for AllocateAddress, the one call that is not idempotent;
  `Startup` has it (`ResendAllocate`).
* An Eip of a given name always has the same selector, and a selector is of one kind:
  pods and nodes never share an Eip, which is why their controllers are composed with
  the Eip controller one at a time. Two resources never have the same port at a time.
* Every node carries the label the node controller's watch asks for.
* `EgressLabels`: every node satisfies the selector of every Eip (the task acts only on
  the nodes that do). The role of the operator may not create nodes, so an apply
  patch of a node that is gone is an error. The name of a node that left is not used
  again while a job that listed the old one goes on.
* `Startup`: users create Eips of version 2 only. The old process is gone before the new
  one starts. No pods or nodes are modelled there: claims change no uid, no finalizer
  and no address, which is all that startup looks at.
* `MasqueradeAgent`: one agent per node, and nobody else adds rules of its form (Cilium
  and others may delete them).

## Runs

Nothing bounds how often anything happens: objects are deleted and come back, calls fail
and processes die without a counter, so a run covers behaviours of any length. What is
bounded are the identities (`Uid`, `AllocId`: how many lives and addresses there are over
all) and, in `EgressLabels`, the events that wait (`MaxEvents`). `Mortal`, `Flaky`,
`Leaving`, `Resynced`, `Failing`, `PatchFailing`, `Crashing`, `WatchBreaks` and `Resending`
say which objects or calls may do what, so that a question is asked with the faults it is
about. `PatchFailing` is apart from `Failing` since a label patch that fails is only logged:
it is not tried again, and nothing but the periodic reconciliation makes up for it.

| run | instance | what it shows |
|---|---|---|
| `addresses` | an Eip with one life, a flaky node that leaves and joins again, failing calls of both controllers, crashes | `TypeOK`; one address per object; no address without its guarded object; `ClaimsNameNodes`: no status names a node that is gone or could go without cleanup; `NodeInv`, its inductive invariant. |
| `claims` | one Eip, two nodes, one of them relabelled and flaky, crashes | The refinement `KeepsClaimLock`; `NoStolenAddress`. The first needs the versioned write of the claim or the single slot of the node controller, and the code has both; the second needs the single slot: the Eip controller may drop a claim before its node associates, and with two slots another node would have the Eip by then. |
| `failover` | two nodes, one flaky, failing calls of the Eip controller (its label patches succeed), events only | `ClaimKnowsAssociation` and its inductive invariant `AssociationInv`; `EventuallyAttached` by events alone: the refresh label is what wakes the other node. |
| `upkeep` | an Eip with two lives, a node that matches, stops matching and matches again, failing calls of the node controller, label patches that fail, periodic reconciliation | `StatusNamesOwnAddress`, also in the second life; the inductive invariant `AddressInv`; the refinement `KeepsLedger`; `EventuallyReleased` although the node goes on claiming the address; `EventuallyRecovered` and `StaleClaimDropped`, both by the periodic reconciliation. A node that is there before the status of the Eip gives up, and the label patch of the Eip is what wakes it: when that fails `EventuallyAttached` does not hold, and `EventuallyRecovered` does. |
| `pod_claims` | a pod that comes back with another port, an Eip that a user makes before or after it and may delete, failing calls on both sides (label patches succeed), crashes | `TypeOK`; `AttachmentIsClaimed`: cleanup of the pod looks for claims, and there is no association without one; `ClaimsNamePods`: the new pod of a stateful set starts without the claim of the old one; `PodInv`, the inductive invariant of both; `RestsOnlyWhenServed`: a pod that comes before its Eip is woken, and no failure or crash leaves a running pod asleep without its address. |
| `pod_lifecycle` | a pod that makes its Eip, is deleted and comes back while the Eip of its predecessor is being deleted, two lives of that Eip, crashes, periodic reconciliation of the pod | `AutoEipGoesWithPod`; `EventuallyServed`: associated and annotated, by events alone, also after a crash between the claim and the association; `EventuallyGone`: cleanup of the pod and of its Eip do not block each other; `EventuallyAutocreated`, by the periodic reconciliation. |
| `egress_labels` | two Eips, three nodes of which two flap and one leaves and joins, two waiting events, failing writes, a broken watch, crashes | `TypeOK`; `HandoverKeepsGateway`: the label goes on before it comes off; `OneGatewayAfterJob`: it has come off everywhere when an event was handled to its end; `TwoGatewaysOnlyIfCut`: between events a second gateway is there only if a job was cut short; `LabelsHealed`: later events put right what was left undone. |
| `startup` | two Eips of version 1 in any state, one of them where the upgrade does not look, users, lost answers, crashes | `TypeOK`; `ReleasesOnlyOrphans`; `OrphansWereOld`: only an upgrade can leave an address behind; `LegacyReleasedFirst`; `OrphansHealed`: a later start releases what was left behind; `EventuallyRuns`: the controllers get to run, whatever conflicts there are, exactly if no Eip of version 1 stays where the upgrade does not look. |
| `masquerade` | four interfaces, every disturbance | `TypeOK`; `NoDuplicateRules`; `EndsOnlyWithoutChain`: the agent never trips over its own old reading of the ip rules; `EventuallyMarked`. |

Why the bounds are enough:

* Two uids and two allocation ids are what a second life under one name needs, and one
  of each is enough for the questions about claims, which are about one life. Two nodes
  are the fewest that contend, and contention is pairwise. A selector names one pod, so
  pods do not contend for an Eip. What one Eip cannot show is the choice among several
  that match one node, or that name one pod: see the plan.
* Association ids: five beside nodes and four beside pods are so many that one is
  free at every association of these instances (a run with fewer would lose
  behaviours; this was checked with an invariant over the step before).
* A label job takes one gateway and the others; three nodes are a gateway, the one
  before it, and one that is neither. Two waiting events are one that is old when it is
  handled, and one that is older.
* Three address ids in `startup`: the two of the Eips of version 1 and one that is
  allocated after them, for an Eip created by a user or by an allocation done twice.
* Interfaces are independent of each other but for their order; four stand for the
  fifteen.

Disagreements between the code and what its comments and documents say, each with a
run whose counterexample is the scenario:

| run | property | scenario |
|---|---|---|
| `leaked_association` | `EventuallyDetached` | A node stops matching between its claim and the association: the Eip controller clears the status and has no id to disassociate (`eip.rs:128`), then the node associates. Nothing ever undoes that. |
| `egress_restart` | `EventuallyGateway` | The operator restarts between a claim and its event. The new watch brings the Eip as `InitApply`, which the loop ignores (`main.rs:172`). |
| `retried_allocation` | `EventuallyAllocated` | AllocateAddress is sent twice (`aws.rs:71`) and the process ends before the status is written: the uid has two addresses, `apply` fails for ever (`controller/eip.rs:88`). |

The last two turn the deadlock check off, since the system may rest in the state they
show.

The models have more behaviours that a document or a comment of the code excludes.
But for the start with an old Eip elsewhere no run keeps these; each follows from the
actions named:

* A node that holds Eip e2 takes the first matching Eip that is free *or its own*
  (`node.rs:70`, `NodeApply`). When e1 appears, which comes before e2, the node claims it as
  well, and EC2 takes e2's address off the interface, while e2's status goes on naming the
  node. A comment expects one Eip per node (`node.rs:166`).
* A node that is not ready for a while loses the claim and keeps the address
  (`node.rs:118`, `NodeRelease`). When it is ready again the address is attached already
  (`NodeDescribe`), so the claim is skipped and the status never names the node again, against
  the printer column `ResourceId` (`eip.rs:128`).
* One failure of the call that records the association id (`node.rs:135`, `NodeRecord`) and
  it is never recorded: the retry finds the address attached.
* With `NAMESPACE` unset the node controller lists the Eips of the namespace `default` only
  (`node.rs:48`; the constant `NodeNamespaceEips`), and the upgrade those of version 1 in
  `default` (`eip.rs:58`; the constant `Upgradable`), against the README: an Eip elsewhere is
  never attached to a node, and one of version 1 fails the list of all Eips in every start
  (`main.rs:237`) until somebody deletes it. `EventuallyRuns` says so of the code: in the run
  `startup` one Eip is outside that namespace, and a start gets through only without it.
* When the Eip of a running pod is deleted, `apply` of the pod finds no Eip and returns
  (`pod.rs:88`, `PodList`): the annotation goes on naming the released address.
* The first error of the watch ends the egress loop (`main.rs:168`, `WatchError`); the
  process and its other tasks go on, and no label is written any more.

### Fairness

`Fairness` of the operators gives weak fairness to each object's watch event, to the
start of its reconciliation and to the steps of one in progress: the runtime polls every
task, a call returns or fails, and events are not lost. The start of a node's
reconciliation has strong fairness: nodes wait for one slot, which is taken and
freed for ever, and the runner starts pending objects in the order they came due, so
none is passed over for ever. Failing calls and crashes are never forced.
`Resyncing` says that every object of `Resynced` is reconciled from time to time with no
event, as the library does 40 to 60 minutes after a success. It is part of `ResyncSpec`,
and otherwise a premise of the properties that need it, so that one run shows what events
alone do and what they do not.

What a liveness property needs besides stands in its premise:

* `CallsSucceed`: from some time on calls are answered and, with pods, the operator stays up.
  A refusal, such as a conflict, may go on: it is a step of `Control`, although it
  looks like a failing call. (The premise must say so: steps are told apart by what they
  change, and a premise that forbids a fault forbids every step that looks like it.)
* `EventuallyAttached`: nodes keep the labels the Eip asks for (`Matched`), since no event
  tells the Eip of a label that is lost, and no label patch fails (`PatchFailing` is empty in
  its run); `EventuallyRecovered` does without both, by `Resyncing`.
* `ResyncIsRare` (`EventuallyAutocreated`): periodic reconciliations come when the others are
  through, as 40 minutes are long.
* `EventuallyReleased` and `EventuallyGone` need nodes and pods that are not woken for
  ever: one that keeps being reconciled can take the address again each time between the
  disassociation and the release, and the deletion starts over each time.
* `LabelsHealed`: faults end, the watch lasts, one Eip alone has a claim, and its events
  come again and again, as its status is written.
* `EventuallyGateway`, `EventuallyRuns`, `EventuallyAllocated`: the process is not
  restarted for ever. `OrphansHealed`: it is started again and again, and goes through.
* `EventuallyMarked`: the disturbances end, but for what the agent does by itself. Cilium
  makes its chain at last (`ChainMade`).

`EgressLabels` has weak fairness of the task, one loop that takes one event after
the other; `Startup` of the start as a whole, which is sequential, and of the Eip controller
as above; `MasqueradeAgent` of the agent, one loop.

## Proofs

Every theorem holds for all values of the constants that satisfy the named assumptions
of the modules (kinds of names are disjoint from `None` and from each other where the code
tells them apart; list order is by a rank that is different for different Eips).

| theorem | statement |
|---|---|
| `TypeCorrect`, `PodTypeCorrect`, `EgressTypeCorrect`, `StartupTypeCorrect`, `AgentTypeCorrect` | `Spec => []TypeOK` of the five modules |
| `AddressesSafe`, `PodAddressesSafe` | `Spec => []AddressInv` of `NodeOperator` and `PodOperator`, the inductive invariant |
| `AtMostOneAddress` | `Spec => []OneAddressPerEip` |
| `NoAddressLeftBehind` | `Spec => []NoOrphanAddress` |
| `StatusIsOwn` | `Spec => []StatusNamesOwnAddress` |
| `LedgerKept`, `PodLedgerKept` | `Spec => KeepsLedger`: each operator implements `AddressLedger` |
| `ClaimLockKept` | `Spec => KeepsClaimLock`: `NodeOperator` implements `ClaimLock` |
| `NodesSafe`, `ClaimsOutliveNoNode` | `Spec => []NodeInv` and `Spec => []ClaimsNameNodes`, if nodes keep their labels (`LabelsKept`) |
| `SlotSafe`, `NothingStolen` | `Spec => []SlotInv` and `Spec => NoStolenAddress` |
| `AssociationsKnown`, `ClaimsKnowAssociations` | `Spec => []AssociationInv` and `Spec => []ClaimKnowsAssociation`, if no call of the node controller fails and the operator does not crash |
| `PodsSafe` | `Spec => []PodInv` |
| `AssociationsAreClaimed` | `Spec => []AttachmentIsClaimed` |
| `ClaimsOutliveNoPod` | `Spec => []ClaimsNamePods` |
| `AutoEipsGoWithPods` | `Spec => []AutoEipGoesWithPod` |
| `GatewayHandedOver` | `Spec => HandoverKeepsGateway` |
| `GatewayAlone` | `Spec => OneGatewayAfterJob` |
| `SecondGatewayIsLeft` | `Spec => TwoGatewaysOnlyIfCut` |
| `OnlyOrphansReleased` | `Spec => ReleasesOnlyOrphans` |
| `LegacyAddressesFirst` | `Spec => []LegacyReleasedFirst` |
| `OrphansAreOld` | `Spec => []OrphansWereOld` |
| `RoundsSafe`, `RulesAppendedOnce` | `Spec => []RoundInv` and `Spec => []NoDuplicateRules` |
| `AgentEndsOnlyWithoutChain` | `Spec => EndsOnlyWithoutChain` |

**Addresses.** None of the three safety properties is inductive. That an allocation makes
no second address needs that the worker's uid had none when it looked and that nobody else
allocates for that uid; that a release orphans nothing needs that the object in
cleanup is the one being deleted; both go through a cache that may be behind, across
names that are used again. `AddressInv` says why this is so:

* `UidsInv`: what the store, the cache and the worker of one name know of uids is
  disjoint from what any other name knows, so two workers never act on one uid.
* `PhasesInv`: an absent object has no uid, no finalizer and no status.
* `CacheInv`: an object seen alive and guarded is still the stored one and still
  guarded. An object seen deleting is still deleting, or gone with a successor that
  is not guarded yet.
* `WorkerInv`: while `apply` runs its object is guarded; while `cleanup` runs, the
  stored object of that name is the one being deleted or is not guarded. So the
  removal of the finalizer by name never hits a successor.
* `WorkerAddressInv`: what the worker knows of the addresses of its uid stays true
  until it acts.
* `CopiesInv`: a copy that carries the stored version equals the stored object,
  which is what makes a replaced status keep the allocation id.

`EipAddressesProofs` has one lemma for each action of the Eip controller and of the users.
Everything another controller, the resources and the network interfaces do is `Quiet`: it
changes no object, no address and no cache, keeps the allocation id of every status, and
takes no one's copy for current that was not; `QuietAddresses` covers all of it at once. So
the two operators share the argument, and the proof for each is that its other actions
are quiet, or, for a pod that creates or deletes its Eip, are what a user does.
The refinement maps each uid to its life (`LifeOf`) and shows each step to be one of
the ledger's or a stutter, from `AddressInv`.

**Claims.** `KeepsClaimLock` follows from `ClaimInv`: a node between the list and the write
of its claim has read, if its copy still carries the stored version, that nobody else has
the Eip. Only the list makes a node choose, and it chooses a free Eip; every other write
ages the copy. The proof uses the version check alone: it holds for any number of nodes
that are reconciled at a time.

**Nodes that leave.** `ClaimsNameNodes` is not inductive: cleanup of a node looks only at
the Eips it listed when it began, and begins from a cached node. `NodeInv` says what is
needed. `NodeCacheInv` and `NodeTaskInv` are for nodes what `CacheInv` and
`WorkerInv` are for Eips: an apply in progress has a guarded node, a cleanup in progress has
one that will not come back. `NodeChoiceInv`: an Eip that is about to be claimed is one
cleanup will list; for that its status must be there, which is so while the copy is current.
`NodeClaimsInv`: a claim is by a guarded node, and if that node is being cleaned up the claim
is on the list and its turn is still to come. The theorem asks that a node keeps its
labels (`LabelsKept`, of constants only; the run has it too): cleanup lists the Eips that
the labels of the cached node select, so a claim made under labels the node has lost is not
on its list.

**The slot.** `SlotInv`: one node is reconciled at a time (`OneNodeAtATime`), and the node that
is has in hand an address that is tagged with the uid of the Eip it chose or of no
object that is there; at the association no other node has the claim. The second part
does not follow from versions: the Eip controller and deletions may take the claim away between
the claim and the association, and it is the slot that keeps another node from taking it.

**Associations.** `AssociationInv` relates four places: the port of the claim in the status,
the association AWS has on it, the id in the status, and the id in the hand of the
node that is about to record it. `KnownInv` says these agree; `InHandInv` says what a node
in the middle of its calls may rely on, in particular that the address was not on its port when
it claims, so that no association is taken over without its id; `PortsInv` and `PlacesInv` say
that ports are real ones. Both hypotheses are needed: a failure or a crash between the
association and its record leaves the id unrecorded for good, since the retry finds the
address attached. The Eip controller's own calls may fail.

**Pods.** `PodInv` speaks of one pod at a time, and an Eip names one pod (`eip.rs:83`
and `eip.rs:144`; `PodControllerAssumption`), so what holds of a pod is kept by the steps of the
others. `PhaseInv`, `PodCacheInv` and `PodTaskInv` are as for nodes, with the port: a pod that
comes back has another. `ChoiceInv`: the address in hand is of the Eip in hand, and the claim
is in place when the association is made, unless the address is gone. `ClaimsInv`: a claim is
found by cleanup, or was and its turn comes. `DetachInv`: when cleanup drops a claim the address
is on no port, which the current copy makes sure of. `AutoInv`: the Eip of a pod is deleted before
the pod's finalizer. `WorkerPodInv`: the Eip controller never undoes a pod's
claim, since a pod it finds missing has changed the object. `AttachedInv` is
`AttachmentIsClaimed` from the side of the address.

**Egress.** `GatewayHandedOver`: while a job takes labels off, its gateway has the label or
is not live, since only cleanup of that node takes it away. `GatewayAlone`: in a job only its
gateway and nodes it has still to take the label off have it (`OthersListed`), which
holds of an old list too, since nobody but a job gives the label. `SecondGatewayIsLeft` adds
that outside a job the gateways only become fewer (`IdleMakesNoGateway`): nodes may leave, writes
fail and the process crash, and a second gateway between events is what a job that was cut
short has left.

**Startup.** `OnlyOrphansReleased` rests on three invariants. `GivenInv`: no uid of an
object was unused when an address was tagged with it, so an Eip created later never takes
an address that was found before. `FoundInv`: what is left to release after the list has
an owner no Eip has, and this stays so. `LegacyInv` says which stages may have
unreleased legacy addresses.

`OrphansAreOld` rests on `OrphanInv`. `AddressInv` does not hold in `Startup`: the upgrade
takes the finalizer off an Eip that has an address, an allocation that is sent twice gives a uid
two, and beside startup no cache is kept. What is left of it is enough. `UidsInv`,
`PhasesInv` and `WorkerInv` hold as they are, `CacheInv` while the controllers run
(`RunInv`); `CleanupInv` is the part of `WorkerAddressInv` that two addresses of one uid do not
break; `GuardInv` is `NoOrphanAddress` for the addresses whose uid no Eip of version 1 had.
`OldInv` is why the upgrade breaks no more than that: what it replaces has an old uid. This is the one
place that needs the uids of the Eips of version 1 to be distinct (`StartupAssumption`; uids
are unique in Kubernetes). TLC finds `OrphanInv` true in the instance of `startup`, too, `SlotInv` in that of `claims` and
`RoundInv` in that of `masquerade`; the runs do not list them, as they are there for the proofs.

**Masquerade agent.** `RoundInv`: a rule that is about to be appended is not in the chain, since
only the agent appends, and none of the ip rules from the one it is at on is there unless it was
found when the round began, since nobody else adds any.

Only model-checked: every liveness property, since temporal reasoning with fairness is out of
the prover's reach; `ClaimKnowsAssociation` with crashes or failing calls does not hold, and
`ClaimsNameNodes` with nodes that lose labels neither. `RestsOnlyWhenServed` is not proved: it
needs an account of every event that is on its way, and does not hold where a label patch may
fail. Every other safety property that a passing run checks is proved.

## What is not modelled

* The report of quotas (two numbers are read and logged), tracing, error texts: no
  state. An error is what ends a reconciliation or the process, and every action that
  can fail has it.
* All tasks of the process at once: out of reach of TLC, and composed where they meet
  (Eip with node, Eip with pod, startup with Eip, egress over the claim lock).
* Registration of the resource definition: one apply patch and a wait, before
  everything else.
* The contents of addresses, tags and labels; the interface a private IP address is
  found on (a port is the pair).
* An Eip whose selector is changed; nodes and pods that lose the label the watches
  select on.

## Plan

1. Done: `Cluster`, `EipController`, `NodeController`, `NodeOperator`,
   `AddressLedger`, their runs, and the address theorems.
2. Done: `PodController`, `PodOperator`, the shared proofs, `ClaimLock`.
3. Done: `EgressLabels` over `ClaimLock`, with the handover and its proof.
4. Done: `Startup`, with the allocation that is sent twice.
5. Done: `MasqueradeAgent`.
6. Done: proofs of the safety properties the runs check, with their inductive invariants, but for
   `RestsOnlyWhenServed`.
7. Next: two Eips on one node that leaves, and two Eips that name one pod (which should
   never have both), with bounds that let TLC finish.
