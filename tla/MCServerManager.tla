--------------------------- MODULE MCServerManager ---------------------------
(***************************************************************************)
(* Small instances of ServerManager for TLC.                               *)
(***************************************************************************)
EXTENDS ServerManager, TLC

CONSTANTS c1, c2, m1, m2, vm, net1, dhcp, static, small, large, ssh, web, u1, u2, u3, u4

OneManager == [c \in Clients |-> m1]
TwoManagers == c1 :> m1 @@ c2 :> m2

MCNetsOf == [r \in Rest |-> {net1}]

S(r, z, f) == [rest |-> r, size |-> z, filters |-> f]

\* The immutable part is the same in the first four: they differ in the size, in
\* the filter, in both, and in the rules of the filter.
Plain == S(static, small, None)
Large == S(static, large, None)
Walled == S(static, large, ssh)
Opened == S(static, large, web)
Elsewhere == S(dhcp, small, None)

EverySpec == {Plain, Large, Walled, Opened, Elsewhere}
PlainOrWalled == {Plain, Walled}

AllCalls == CallLabels

Symmetric == Permutations(Uuids)
SymmetricClients == Permutations(Uuids) \cup Permutations(Clients)
=============================================================================
