--------------------------- MODULE MCNodeOperator --------------------------
(***************************************************************************)
(* Small instances of NodeOperator for TLC: one Eip and one or two nodes.  *)
(***************************************************************************)
EXTENDS NodeOperator

CONSTANTS e1, n1, n2

\* The order of the lists.
MCRank == [e \in {e1} |-> 1]

\* Every node has a port of its own.
MCPorts == [n \in Resource |-> IF n = n1 THEN {"p1"} ELSE {"p2"}]

\* Nodes that match every Eip for ever.
MCFixedLabels == [n \in Resource |-> {Eip}]

\* Nodes that match every Eip or none, and may be relabelled.
MCLabels == [n \in Resource |-> {Eip, {}}]

\* Only n1 may be relabelled.
MCLabelsOfOne == [n \in Resource |-> IF n = n1 THEN {Eip, {}} ELSE {Eip}]
=============================================================================
