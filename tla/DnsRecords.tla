------------------------------ MODULE DnsRecords ------------------------------
(***************************************************************************)
(* mini_vps.dns_registration: A and PTR records of servers with a static   *)
(* address, sent by nsupdate in two transactions, at best effort.  The DNS *)
(* server may apply an update although nsupdate was told nothing, and may  *)
(* apply it much later: after a timeout, or after the process died.        *)
(***************************************************************************)
EXTENDS VmNames, Naturals, Sequences

CONSTANT Ips

VARIABLES
    script,     \* script[n]: the updates the operation on n has still to send
    records,    \* records[k]: of a name its A records, of an address its PTRs
    late,       \* updates without an answer that the server applies some day
    addr,       \* addr[n]: the address the last spec of server n declares
    inEffect    \* inEffect[n]: how many updates of the last operation on n
                \* the server has applied and no other update has overtaken

dnsVars == <<script, records, late, addr, inEffect>>

Keys == Names \cup Ips

\* "update delete key" followed by one "update add" per member of add.
Updates == [key : Keys, add : SUBSET Keys]

DnsInit ==
    /\ script = [n \in Names |-> <<>>]
    /\ records = [k \in Keys |-> {}]
    /\ late = {}
    /\ addr = [n \in Names |-> CHOOSE ip \in Ips : TRUE]
    /\ inEffect = [n \in Names |-> 0]

DnsTypeOK ==
    /\ script \in [Names -> Seq(Updates)]
    /\ records \in [Keys -> SUBSET Keys]
    /\ late \subseteq Updates
    /\ addr \in [Names -> Ips]
    /\ inEffect \in [Names -> 0 .. 2]

Register(n, ip) == <<[key |-> n, add |-> {ip}], [key |-> ip, add |-> {n}]>>

Unregister(n, ip) == <<[key |-> n, add |-> {}], [key |-> ip, add |-> {}]>>

\* The old records are not deleted first.
AddOnly(u) == [records EXCEPT ![u.key] = IF u.add = {} THEN {} ELSE @ \cup u.add]

Applied(u) == [records EXCEPT ![u.key] = u.add]

\* The servers whose records an update touches.
Touches(u, m) == u.key \in {m, addr[m]}

\* A send that is answered.  The A record comes first.
Send(n) == LET u == Head(script[n]) IN
    /\ script[n] # <<>>
    /\ records' = Applied(u)
    /\ script' = [script EXCEPT ![n] = Tail(@)]
    /\ inEffect' = [m \in Names |->
         IF m = n THEN IF u.key = n THEN 1 ELSE IF inEffect[n] = 1 THEN 2 ELSE 0
         ELSE IF Touches(u, m) THEN 0 ELSE inEffect[m]]
    /\ UNCHANGED <<late, addr>>

\* A send without an answer: nsupdate goes on with the next one, or has been
\* killed by then.  The exception becomes a warning.
SendFails(n) == /\ script[n] # <<>>
                /\ late' \in {late, late \cup {Head(script[n])}}
                /\ script' \in {[script EXCEPT ![n] = Tail(@)], [script EXCEPT ![n] = <<>>]}
                /\ inEffect' = [inEffect EXCEPT ![n] = 0]
                /\ UNCHANGED <<records, addr>>

\* The server gets round to an update nobody waits for any more.
Land(u) == /\ u \in late
           /\ late' = late \ {u}
           /\ records' = Applied(u)
           /\ inEffect' = [m \in Names |-> IF Touches(u, m) THEN 0 ELSE inEffect[m]]
           /\ UNCHANGED <<script, addr>>
===============================================================================
