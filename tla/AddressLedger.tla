--------------------------- MODULE AddressLedger ---------------------------
(***************************************************************************)
(* What the operator promises about the addresses of the AWS account: every *)
(* Eip object, known by its uid, has at most one address during its life,  *)
(* gets it only once a finalizer guards the object, loses it only after    *)
(* its deletion was asked for, and leaves none behind.                     *)
(***************************************************************************)
CONSTANTS Uid, AllocId, None

VARIABLES
  life,       \* how far the Eip object with a uid has come
  owner,      \* the uid every address ever allocated was allocated for
  allocated   \* the addresses that exist

vars == <<life, owner, allocated>>

Life == {"unborn", "new", "guarded", "closing", "retired"}

AddressesOf(u) == {a \in allocated : owner[a] = u}

Init ==
  /\ life = [u \in Uid |-> "unborn"]
  /\ owner = [a \in AllocId |-> None]
  /\ allocated = {}

Become(u, from, to) ==
  /\ life[u] \in from
  /\ life' = [life EXCEPT ![u] = to]
  /\ UNCHANGED <<owner, allocated>>

Create(u) == Become(u, {"unborn"}, "new")
Guard(u) == Become(u, {"new"}, "guarded")
Close(u) == Become(u, {"guarded"}, "closing")
Retire(u) == AddressesOf(u) = {} /\ Become(u, {"new", "closing"}, "retired")

Allocate(u, a) ==
  /\ life[u] \in {"guarded", "closing"}
  /\ AddressesOf(u) = {}
  /\ owner[a] = None
  /\ owner' = [owner EXCEPT ![a] = u]
  /\ allocated' = allocated \cup {a}
  /\ UNCHANGED life

Release(u, a) ==
  /\ life[u] = "closing"
  /\ a \in AddressesOf(u)
  /\ allocated' = allocated \ {a}
  /\ UNCHANGED <<life, owner>>

Next == \E u \in Uid :
  \/ Create(u) \/ Guard(u) \/ Close(u) \/ Retire(u)
  \/ \E a \in AllocId : Allocate(u, a) \/ Release(u, a)

Spec == Init /\ [][Next]_vars
=============================================================================
