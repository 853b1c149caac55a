----------------------------- MODULE MCStartup ------------------------------
(***************************************************************************)
(* Small instances of Startup for TLC: one or two Eips, no resources.      *)
(***************************************************************************)
EXTENDS Startup

CONSTANTS e1, e2

MCNoPorts == [r \in Resource |-> {}]
MCNoLabels == [r \in Resource |-> {}]

\* Both Eips may be of version 1.
MCOldTwo ==
  [e \in {e1, e2} |->
     IF e = e1 THEN [uid |-> "u1", alloc |-> "a1", port |-> "p1", assoc |-> "x1"]
               ELSE [uid |-> "u2", alloc |-> "a2", port |-> "p2", assoc |-> "x2"]]

\* None of them.
MCNoOld == [e \in {} |-> [uid |-> "u1", alloc |-> "a1", port |-> "p1", assoc |-> "x1"]]
=============================================================================
