------------------------------ MODULE Cluster ------------------------------
(***************************************************************************)
(* The state the controllers of the operator share: the Eip objects in the *)
(* Kubernetes API server, the pods or nodes an Eip can be attached to      *)
(* (called resources, as in the controllers), and the Elastic IP addresses *)
(* of the AWS account.  Each operator below is one API call.               *)
(*                                                                         *)
(* A resourceVersion is never written down.  What the code needs of it is  *)
(* whether the copy somebody holds is still the stored version, so seen[e] *)
(* is the set of those whose copy of Eip e carries the stored version: a   *)
(* read adds the reader, a write that changes the object empties the set.  *)
(***************************************************************************)
EXTENDS FiniteSets

CONSTANTS
  Eip,       \* names of Eip objects
  Resource,  \* names of the nodes (or pods) that may carry an Eip
  Uid,       \* uids of Eip objects: bounds how many are ever created
  AllocId,   \* AWS allocation ids: bounds how many addresses are allocated
  AssocId,   \* AWS association ids; one that nobody remembers is used again
  Port,      \* (network interface, private IP address) pairs
  Ports,     \* Ports[r] is the set of ports resource r may come up with
  Labels,    \* Labels[r] is the set of labellings of r, each given by the
             \* Eips whose selector it satisfies
  None       \* an absent Option

Holder == Resource \cup Eip \cup {"cache"}

ASSUME ClusterAssumption ==
  /\ None \notin Eip \cup Resource \cup Uid \cup AllocId \cup AssocId \cup Port
  /\ "cache" \notin Resource \cup Eip
  /\ Resource \cap Eip = {}
  /\ Ports \in [Resource -> SUBSET Port]
  /\ Labels \in [Resource -> SUBSET SUBSET Eip]
  /\ IsFiniteSet(Resource)

VARIABLES
  eip,        \* metadata of the Eip objects
  status,     \* status of the Eip objects
  seen,       \* who holds a copy of the stored version of an Eip
  usedUid,    \* uids given to Eip objects so far
  res,        \* the resource objects
  resSynced,  \* resources whose latest version the operator's watch delivered
  owner,      \* the eip_uid tag of every address ever allocated
  allocated,  \* the addresses that exist
  attached    \* what AWS says every address is associated with

eipVars == <<eip, status, seen, usedUid>>
resVars == <<res, resSynced>>
awsVars == <<owner, allocated, attached>>

Phase == {"absent", "live", "deleting"}

EipMeta == [phase : Phase, uid : Uid \cup {None}, finalizer : BOOLEAN]
NoEip == [phase |-> "absent", uid |-> None, finalizer |-> FALSE]

\* EipStatus; present = FALSE is an object whose status was never set.
EipStatus == [present : BOOLEAN, alloc : AllocId \cup {None},
              resource : Resource \cup {None}, port : Port \cup {None},
              assoc : AssocId \cup {None}]
NoStatus == [present |-> FALSE, alloc |-> None, resource |-> None,
             port |-> None, assoc |-> None]

\* For a node, ready is its Ready condition and matches the Eips whose
\* selector its labels satisfy.
ResourceObject == [phase : Phase, finalizer : BOOLEAN, ready : BOOLEAN,
                   matches : SUBSET Eip, port : Port \cup {None}]
NoResource == [phase |-> "absent", finalizer |-> FALSE, ready |-> FALSE,
               matches |-> {}, port |-> None]

Attachment == [port : Port \cup {None}, assoc : AssocId \cup {None}]
NoAttachment == [port |-> None, assoc |-> None]

ClusterInit ==
  /\ eip = [e \in Eip |-> NoEip]
  /\ status = [e \in Eip |-> NoStatus]
  /\ seen = [e \in Eip |-> {"cache"}]
  /\ usedUid = {}
  /\ res = [r \in Resource |-> NoResource]
  /\ resSynced = Resource
  /\ owner = [a \in AllocId |-> None]
  /\ allocated = {}
  /\ attached = [a \in AllocId |-> NoAttachment]

ClusterTypeOK ==
  /\ eip \in [Eip -> EipMeta]
  /\ status \in [Eip -> EipStatus]
  /\ seen \in [Eip -> SUBSET Holder]
  /\ usedUid \in SUBSET Uid
  /\ res \in [Resource -> ResourceObject]
  /\ resSynced \in SUBSET Resource
  /\ owner \in [AllocId -> Uid \cup {None}]
  /\ allocated \in SUBSET AllocId
  /\ attached \in [AllocId -> Attachment]

-----------------------------------------------------------------------------
(* Eip objects in the API server.                                          *)

Exists(e) == eip[e].phase # "absent"

\* The status each of the functions of eip.rs leaves behind.
StatusCreated(s, a) == [s EXCEPT !.present = TRUE, !.alloc = a]
StatusAssociationId(s, x) == [s EXCEPT !.present = TRUE, !.assoc = x]
StatusShouldAttach(s, r, p) == [s EXCEPT !.resource = r, !.port = p]
\* Mutant: the resource id is cleared to Some("").
StatusDetachedToEmpty(s) == [s EXCEPT !.resource = "", !.port = None, !.assoc = None]
StatusDetached(s) == [s EXCEPT !.resource = None, !.port = None, !.assoc = None]

\* Eip e is stored with status s, and the holders in done drop their copies.
\* A write that changes nothing makes no new version.
Store(e, s, done) ==
  /\ status' = [status EXCEPT ![e] = s]
  /\ seen' = [f \in Eip |-> IF f = e /\ s # status[e]
                              THEN {} ELSE seen[f] \ done]

\* Holder h drops every copy it has.
Forget(h) == [f \in Eip |-> seen[f] \ {h}]

\* Holder h reads the Eips in es.
Read(es, h) == [f \in Eip |-> IF f \in es THEN seen[f] \cup {h} ELSE seen[f]]

-----------------------------------------------------------------------------
(* Addresses in EC2.                                                       *)

\* Mutant: only associated addresses are described.
describe_associated_addresses(u) ==
  {a \in allocated : owner[a] = u /\ attached[a].port # None}
describe_addresses_with_tag_value(u) == {a \in allocated : owner[a] = u}

\* Allocation ids are never used twice.
UnusedAllocIds == {a \in AllocId : owner[a] = None}

allocate_address(a, u) ==
  /\ allocated' = allocated \cup {a}
  /\ owner' = [owner EXCEPT ![a] = u]
  /\ UNCHANGED attached

\* allow_reassociation(true): the address leaves the port it was on.  A port
\* carries one address, so another address on port p is disassociated.
associate_eip(a, p, x) ==
  /\ attached' = [b \in AllocId |->
                    IF b = a THEN [port |-> p, assoc |-> x]
                    ELSE IF attached[b].port = p THEN NoAttachment
                    ELSE attached[b]]
  /\ UNCHANGED <<owner, allocated>>

\* An association id AWS does not know any more is not an error.
disassociate_eip(x) ==
  /\ attached' = [b \in AllocId |-> IF attached[b].assoc = x
                                      THEN NoAttachment ELSE attached[b]]
  /\ UNCHANGED <<owner, allocated>>

\* AWS refuses to release an address that is associated.
Releasable(a) == a \in allocated /\ attached[a].port = None

release_address(a) ==
  /\ allocated' = allocated \ {a}
  /\ UNCHANGED <<owner, attached>>

-----------------------------------------------------------------------------
(* What users, the scheduler and the kubelet do to the cluster.            *)

CreateEip(e) ==
  LET u == CHOOSE v \in Uid \ usedUid : TRUE
  IN /\ ~Exists(e)
     /\ Uid \ usedUid # {}
     /\ eip' = [eip EXCEPT ![e] = [phase |-> "live", uid |-> u, finalizer |-> FALSE]]
     /\ usedUid' = usedUid \cup {u}
     /\ seen' = [seen EXCEPT ![e] = {}]
     /\ UNCHANGED <<status, resVars, awsVars>>

\* The object is removed at once unless a finalizer holds it.
DeleteEip(e) ==
  /\ eip[e].phase = "live"
  /\ eip' = [eip EXCEPT ![e] = IF @.finalizer THEN [@ EXCEPT !.phase = "deleting"]
                                              ELSE NoEip]
  /\ status' = [status EXCEPT ![e] = IF eip[e].finalizer THEN @ ELSE NoStatus]
  /\ seen' = [seen EXCEPT ![e] = {}]
  /\ UNCHANGED <<usedUid, resVars, awsVars>>

PutResource(r, obj) ==
  /\ res' = [res EXCEPT ![r] = obj]
  /\ resSynced' = resSynced \ {r}
  /\ UNCHANGED <<eipVars, awsVars>>

CreateResource(r) ==
  /\ res[r].phase = "absent"
  /\ \E p \in Ports[r], es \in Labels[r] :
       /\ \A q \in Resource : res[q].port # p
       /\ PutResource(r, [phase |-> "live", finalizer |-> FALSE, ready |-> FALSE,
                          matches |-> es, port |-> p])

ChangeReady(r) ==
  /\ res[r].phase # "absent"
  /\ PutResource(r, [res[r] EXCEPT !.ready = ~@])

Relabel(r) ==
  /\ res[r].phase # "absent"
  /\ \E es \in Labels[r] \ {res[r].matches} :
       PutResource(r, [res[r] EXCEPT !.matches = es])

DeleteResource(r) ==
  /\ res[r].phase = "live"
  /\ PutResource(r, IF res[r].finalizer THEN [res[r] EXCEPT !.phase = "deleting"]
                                        ELSE NoResource)

\* The network interface of a port that no resource uses is deleted.
PortGone(p) ==
  /\ \A r \in Resource : res[r].port # p
  /\ \E a \in allocated : attached[a].port = p
  /\ attached' = [a \in AllocId |-> IF attached[a].port = p
                                      THEN NoAttachment ELSE attached[a]]
  /\ UNCHANGED <<eipVars, resVars, owner, allocated>>
=============================================================================
