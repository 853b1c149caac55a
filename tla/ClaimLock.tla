----------------------------- MODULE ClaimLock ------------------------------
(***************************************************************************)
(* What the claims on Eips are, as others see them: a lock on each Eip,    *)
(* which a resource takes only while it is free, and which is given up     *)
(* before another resource takes it.                                       *)
(***************************************************************************)
CONSTANTS Eip, Resource, None

VARIABLE claim  \* the resource id in the status of an Eip

Init == claim = [e \in Eip |-> None]

Take(e, r) == claim[e] = None /\ claim' = [claim EXCEPT ![e] = r]

Yield(e) == claim[e] # None /\ claim' = [claim EXCEPT ![e] = None]

Next == \E e \in Eip : Yield(e) \/ \E r \in Resource : Take(e, r)

Spec == Init /\ [][Next]_claim
=============================================================================
