------------------------------- MODULE SpecData -------------------------------
(***************************************************************************)
(* What the platform computes from a VM spec: validation and defaults      *)
(* (ServerSpec), the comparison create makes, and the domain definition it *)
(* builds (build_domain_xml) or edits (resize_domain_xml and               *)
(* set_domain_filterref_xml).                                              *)
(*                                                                         *)
(* A spec is a function from fields to values.  size stands for memory and *)
(* vcpus, disk for base_image, disk and user, routes for static_routes,    *)
(* startup_script and the name servers of a NIC.                           *)
(***************************************************************************)
EXTENDS Naturals, Sequences

CONSTANTS
    None,           \* null
    DefaultNet,     \* the network "default"
    LateFields      \* fields that metadata of an older version lacks

Fields == {"size", "disk", "hostname", "networks", "filters", "routes"}

Required == {"size", "disk"}

Default(f, n) == CASE f = "hostname" -> n
                   [] f = "networks" -> <<DefaultNet>>
                   [] f \in {"filters", "routes"} -> None

\* ServerSpec accepts the input i.
WellFormed(i) ==
    /\ Required \subseteq DOMAIN i
    /\ "networks" \in DOMAIN i =>
         /\ i["networks"] # <<>>
         /\ \A j, k \in DOMAIN i["networks"] : i["networks"][j] = i["networks"][k] => j = k

\* ServerSpec(name=n, **i).model_dump()
Filled(i, n) == [f \in Fields |-> IF f \in DOMAIN i THEN i[f] ELSE Default(f, n)]

\* What create writes to the metadata is what the user wrote.
AsGiven(i, n) == i

ToStore(i, n) == Filled(i, n)

\* What an older version wrote for the input i.
StoredBefore(i, n) == [f \in Fields \ LateFields |-> Filled(i, n)[f]]

\* The metadata is compared as it was written.
AsWritten(m, n) == [f \in Fields |-> IF f \in DOMAIN m THEN m[f] ELSE "missing"]

\* The metadata passes through ServerSpec again before it is compared.
Completed(m, n) == Filled(m, n)

Mutable == {"size", "filters"}

Differing(old, new) == {f \in Fields : old[f] # new[f]}

--------------------------------------------------------------------------------
(* The domain definition: memory, current memory, and one NIC per network. *)

FilterRef(s, n) == IF s["filters"] = None THEN None ELSE n

\* build_domain_xml, as libvirt keeps it: current memory starts as memory, and
\* the MAC address is a function of the VM name and the index of the NIC.
Built(s, n) ==
    [memory |-> s["size"], current |-> s["size"],
     nics |-> [i \in DOMAIN s["networks"] |->
                 [mac |-> <<n, i>>, net |-> s["networks"][i], filterref |-> FilterRef(s, n)]]]

\* resize_domain_xml
Resized(x, z) == [x EXCEPT !.memory = z, !.current = z]

\* Only the first NIC is edited.
FirstRefiltered(x, ref) == [x EXCEPT !.nics[1].filterref = ref]

\* set_domain_filterref_xml, on every NIC.
Refiltered(x, ref) ==
    [x EXCEPT !.nics = [i \in DOMAIN x.nics |-> [x.nics[i] EXCEPT !.filterref = ref]]]

\* What _converge makes of the definition x.
Converged(x, old, new, n) ==
    LET changed == Differing(old, new)
        y == IF "size" \in changed THEN Resized(x, new["size"]) ELSE x IN
    IF "filters" \in changed THEN Refiltered(y, FilterRef(new, n)) ELSE y
===============================================================================
