----------------------------- MODULE MCFrontEnds -----------------------------
(***************************************************************************)
(* A small instance of FrontEnds: two names and specs that differ in what  *)
(* create compares.                                                        *)
(***************************************************************************)
EXTENDS FrontEnds, TLC

CONSTANTS lan, wired, small, large, image, web, gateway

Plain == "size" :> small @@ "disk" :> image

\* Two NICs that take a lease; a larger size and a filter on both; a static
\* address with a route; a network twice.
TwoNics == Plain @@ "networks" :> <<DefaultNet, lan>>
Guarded == "size" :> large @@ "filters" :> web @@ TwoNics
Fixed == Plain @@ "networks" :> <<wired>> @@ "routes" :> gateway
Twice == Plain @@ "networks" :> <<lan, lan>>

MCInputs == {TwoNics, Guarded, Fixed, Twice}

Symmetric == Permutations(Uuids) \cup Permutations(Names)
===============================================================================
