---------------------------- MODULE MCPodOperator ---------------------------
(***************************************************************************)
(* Small instances of PodOperator for TLC: one Eip and one pod.            *)
(***************************************************************************)
EXTENDS PodOperator

CONSTANTS e1, r1

\* The pod may come up with any port.
MCPorts == [r \in Resource |-> Port]

\* The Eip names the pod, and names it for ever.
MCNamed == [r \in Resource |-> {Eip}]

\* Pod r1 asks for the Eip of its name, e1.
MCAuto == [r \in {r1} |-> e1]

\* No pod asks for an Eip.
MCNoAuto == [r \in Resource |-> None]
=============================================================================
