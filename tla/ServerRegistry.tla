----------------------------- MODULE ServerRegistry -----------------------------
(***************************************************************************)
(* What ServerManager promises its callers, without libvirt: a table that  *)
(* says for every VM name whether nothing is there, something the platform *)
(* does not manage, or a managed server with its spec; and which of them   *)
(* are powered on.  A write operation changes one name in one step.  A     *)
(* server's spec changes only while it is off and only in its mutable      *)
(* fields, a running server is never removed, and what is unmanaged stays  *)
(* as it is for ever.                                                      *)
(***************************************************************************)
CONSTANTS
    Names,      \* VM names, the primary key of every write
    Specs,      \* the specs a server can have: records with a field rest,
                \* the fields a server keeps for life
    Absent,     \* no domain of that name
    Unmanaged   \* a domain without the platform's metadata

VARIABLES
    reg,   \* reg[n]: Absent, Unmanaged or the spec of the server n
    on     \* the names whose domain is running

vars == <<reg, on>>

Init == /\ reg \in [Names -> {Absent, Unmanaged}]
        /\ on \in SUBSET {n \in Names : reg[n] = Unmanaged}

\* PUT of a name nobody uses: the server appears, not yet running.
Create(n, s) == /\ reg[n] = Absent
                /\ n \notin on
                /\ reg' = [reg EXCEPT ![n] = s]
                /\ on' = on

\* PUT of a changed spec: only on a stopped server, never its immutable part.
Update(n, s) == /\ reg[n] \in Specs
                /\ reg[n].rest = s.rest
                /\ n \notin on
                /\ reg' = [reg EXCEPT ![n] = s]
                /\ on' = on

\* DELETE, and the rollback of a create that had already been announced.
Remove(n) == /\ reg[n] \in Specs
             /\ n \notin on
             /\ reg' = [reg EXCEPT ![n] = Absent]
             /\ on' = on

PowerOn(n) == /\ reg[n] \in Specs
              /\ on' = on \cup {n}
              /\ reg' = reg

PowerOff(n) == /\ on' = on \ {n}
               /\ reg' = reg

\* Processes that die while they build the names of S leave domains behind
\* that carry no metadata; a restart of the host also stops every domain.
Strand(S) == /\ \A n \in S : reg[n] = Absent
             /\ reg' = [n \in Names |-> IF n \in S THEN Unmanaged ELSE reg[n]]
             /\ on' \in {on, {}}

Next == \/ \E n \in Names, s \in Specs : Create(n, s) \/ Update(n, s)
        \/ \E n \in Names : Remove(n) \/ PowerOn(n) \/ PowerOff(n)
        \/ \E S \in SUBSET Names : Strand(S)

Spec == Init /\ [][Next]_vars
=================================================================================
