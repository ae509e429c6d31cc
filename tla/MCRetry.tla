------------------------------- MODULE MCRetry -------------------------------
(***************************************************************************)
(* ServerManager with a history: the specs for which a create changed the  *)
(* domain but could not write the metadata.                                *)
(***************************************************************************)
EXTENDS MCServerManager

VARIABLE unfinished   \* unfinished[n]: those specs

Grown == S(static, large, None)
Fenced == S(static, small, ssh)

ThreeSpecs == {Plain, Grown, Fenced}

CutShort(c, n) == pc[c] = "cv_write" /\ pc'[c] = "error" /\ NameOf(c) = n

RetryInit == Init /\ unfinished = [n \in Names |-> {}]

RetryNext == /\ Next
             /\ unfinished' = [n \in Names |-> unfinished[n]
                    \cup {job[c].spec : c \in {d \in Clients : CutShort(d, n)}}]

RetrySpec == RetryInit /\ [][RetryNext]_<<vars, unfinished>>

\* "Running create() again with the same spec repairs it" (manager.py, above the
\* _write_spec of a convergence): a retry that succeeds leaves the domain at
\* its spec, although the metadata write of an earlier try had failed.
RetryHeals ==
    \A c \in Clients :
        /\ pc[c] = "ok" /\ job[c].op = "create"
        /\ job[c].spec \in unfinished[NameOf(c)]
        => Applied(NameOf(c))
=============================================================================
