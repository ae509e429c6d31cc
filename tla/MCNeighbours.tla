----------------------------- MODULE MCNeighbours -----------------------------
(***************************************************************************)
(* A small instance of Neighbours: two servers on one network.             *)
(***************************************************************************)
EXTENDS Neighbours, TLC

CONSTANTS net1, vm1, vm2, ip1, ip2

SameNet == [n \in Names |-> <<net1>>]

\* One server keeps its address, the other may come back with another one.
OneOrTwo == [n \in Names |-> IF n = vm1 THEN {ip1} ELSE Ips]
===============================================================================
