---------------------------- MODULE EipAddresses ----------------------------
(***************************************************************************)
(* What the Eip controller promises about addresses, whichever controllers *)
(* run beside it and whatever users do: the safety properties, the parts   *)
(* of the inductive invariant they follow from, and the abstract ledger    *)
(* that they make the operator keep.                                       *)
(***************************************************************************)
EXTENDS EipController

-----------------------------------------------------------------------------
(* Safety.                                                                 *)

\* Every write makes one Eip have at most one Elastic IP address: the tag, not
\* the status, decides whether one is allocated (controller/eip.rs, apply).
OneAddressPerEip ==
  \A a, b \in allocated : owner[a] = owner[b] => a = b

\* An address is never left behind: its Eip is still there and holds the
\* finalizer that will have it released (controller/eip.rs, cleanup).
NoOrphanAddress ==
  \A a \in allocated : \E e \in Eip : eip[e].uid = owner[a] /\ eip[e].finalizer

\* The status of an Eip names no other Eip's address, whatever happened to
\* earlier objects of the same name (eip.rs, the patches by name).
StatusNamesOwnAddress ==
  \A e \in Eip : status[e].alloc # None =>
    /\ owner[status[e].alloc] = eip[e].uid
    /\ eip[e].phase = "live" => status[e].alloc \in allocated

-----------------------------------------------------------------------------
(* Why the addresses are safe: the parts of an inductive invariant.        *)

\* The uids the Eip controller knows for the name e.
Known(e) == {eip[e].uid, cachedEip[e].uid, worker[e].uid} \ {None}

\* No two names share a uid, and every uid was given out.
UidsInv ==
  /\ \A e \in Eip : Known(e) \subseteq usedUid
  /\ \A e, f \in Eip : e # f => Known(e) \cap Known(f) = {}
  /\ \A a \in AllocId : owner[a] # None => owner[a] \in usedUid

\* What the phase of an object says of its other fields.
PhasesInv ==
  \A e \in Eip :
    /\ eip[e].phase = "absent" => eip[e] = NoEip /\ status[e] = NoStatus
    /\ eip[e].phase # "absent" => eip[e].uid # None
    /\ eip[e].phase = "deleting" => eip[e].finalizer
    /\ cachedEip[e].phase # "absent" => cachedEip[e].uid # None

\* How far the watch cache may be behind.  An object that is seen alive and
\* guarded still is guarded; one that is seen deleting will not come back, and
\* its successor is not guarded yet.
CacheInv ==
  \A e \in Eip :
    /\ cachedEip[e].phase = "live" /\ cachedEip[e].finalizer
       => eip[e].uid = cachedEip[e].uid /\ eip[e].finalizer
    /\ cachedEip[e].phase = "deleting"
       => IF eip[e].uid = cachedEip[e].uid THEN eip[e].phase = "deleting"
                                           ELSE ~eip[e].finalizer

Applying(e) == worker[e].pc \in {"allocate", "created", "list", "disassociate",
                                 "detach", "refresh"}
CleaningUp(e) == worker[e].pc \in {"release", "finalize"}

\* While apply runs its object is guarded; while cleanup runs no other object
\* of that name is.
WorkerInv ==
  \A e \in Eip :
    /\ Applying(e) => eip[e].uid = worker[e].uid /\ eip[e].finalizer
    /\ Applying(e) \/ CleaningUp(e) => worker[e].uid # None
    /\ CleaningUp(e) =>
         /\ ~(cachedEip[e].phase = "live" /\ cachedEip[e].finalizer)
         /\ IF eip[e].uid = worker[e].uid THEN eip[e].phase = "deleting"
                                          ELSE ~eip[e].finalizer

\* What the worker knows of the addresses of its object.
WorkerAddressInv ==
  \A e \in Eip :
    LET mine == describe_addresses_with_tag_value(worker[e].uid)
    IN /\ worker[e].pc \in {"allocate", "finalize"} => mine = {}
       /\ worker[e].pc = "created" => worker[e].alloc \in mine
       /\ worker[e].pc = "release" =>
            /\ mine \subseteq {t[1] : t \in worker[e].todo}
            /\ \A t \in worker[e].todo : owner[t[1]] = worker[e].uid

\* A copy that carries the stored version is the stored object.
CopiesInv ==
  \A e \in Eip :
    /\ \A n \in Resource : n \in seen[e] => Exists(e)
    /\ "cache" \in seen[e] => cachedEip[e] = eip[e] /\ cachedStatus[e] = status[e]
    /\ e \in seen[e] => /\ Applying(e)
                         /\ worker[e].pc # "refresh"
                         /\ worker[e].copy = status[e]

AddressInv ==
  /\ UidsInv
  /\ PhasesInv
  /\ CacheInv
  /\ WorkerInv
  /\ WorkerAddressInv
  /\ CopiesInv
  /\ OneAddressPerEip
  /\ NoOrphanAddress
  /\ StatusNamesOwnAddress

-----------------------------------------------------------------------------
(* The ledger of addresses that the operator implements.                    *)

LifeOf(u) ==
  IF u \notin usedUid THEN "unborn"
  ELSE IF \A e \in Eip : eip[e].uid # u THEN "retired"
  ELSE IF \A e \in Eip : eip[e].uid = u => ~eip[e].finalizer THEN "new"
  ELSE IF \A e \in Eip : eip[e].uid = u => eip[e].phase = "live" THEN "guarded"
  ELSE "closing"

Ledger == INSTANCE AddressLedger WITH life <- [u \in Uid |-> LifeOf(u)]

\* The operator keeps the ledger, through crashes, failing calls, stale caches
\* and Eips that are deleted and created again under the same name.
KeepsLedger == Ledger!Spec
=============================================================================
