------------------------------ MODULE Neighbours ------------------------------
(***************************************************************************)
(* Operations on different servers at the same time.  Their name locks do  *)
(* not exclude each other, so they meet in what they share: networks and   *)
(* storage pools (HostResources) and DNS (DnsRecords).  What an operation  *)
(* does to its own server is one step here, and ServerManager in detail.   *)
(***************************************************************************)
EXTENDS HostResources, DnsRecords

CONSTANTS
    NetsOf,         \* NetsOf[n]: the networks of server n, in the spec's order
    Seeds, Disks,   \* the pools vps-seeds and vps-pool
    IpsOf,          \* IpsOf[n]: the addresses that specs of server n declare
    MaxFaults,      \* failures, crashes and restarts of a behaviour
    MaxOps          \* operations of a behaviour

ASSUME NeighboursAssumption ==
    /\ NetsOf \in [Names -> Seq(Nets)]
    /\ Pools = {Seeds, Disks} /\ Seeds # Disks
    /\ Nets \cap Pools = {} /\ Base \notin Nets \cup Pools
    /\ Ips # {} /\ Names \cap Ips = {}
    /\ IpsOf \in [Names -> SUBSET Ips]
    /\ MaxFaults \in Nat /\ MaxOps \in Nat

VARIABLES
    vm,      \* vm[n]: the server: absent, off or on
    op,      \* op[n]: the operation under way on n, or the last one
    phase,   \* phase[n]: how far it is
    calm,    \* the operations that met no failure and no other operation
    faults,
    ops

ownVars == <<vm, op, phase, calm, faults, ops>>
vars == <<resourceVars, dnsVars, ownVars>>

\* boot is start of a server that is off, and restart --force of any: it cuts
\* the power if it is on, and boots the server as it is, without a DNS step.
Operations == {"create", "boot", "reinstall", "delete"}

Busy(n) == phase[n] \in {"work", "dns"}

Members(s) == {s[i] : i \in DOMAIN s}

\* reinstall goes to the boot without a look at the networks.
ResourcesWithoutNets(o, n) ==
    CASE o = "create"    -> NetsOf[n] \o <<Seeds, Base, Disks>>
      [] o = "reinstall" -> <<Seeds, Base, Disks>>
      [] o = "boot"      -> NetsOf[n]
      [] o = "delete"    -> <<Disks, Seeds>>

\* The shared resources an operation goes through, in the order it does.
ResourcesOf(o, n) ==
    CASE o = "create"    -> NetsOf[n] \o <<Seeds, Base, Disks>>
      [] o = "reinstall" -> <<Seeds, Base, Disks>> \o NetsOf[n]
      [] o = "boot"      -> NetsOf[n]
      [] o = "delete"    -> <<Disks, Seeds>>

Possible(o, n) == CASE o = "create" -> vm[n] = "absent"
                    [] o \in {"boot", "reinstall", "delete"} -> vm[n] # "absent"

Init == /\ ResourcesInit /\ DnsInit
        /\ vm = [n \in Names |-> "absent"]
        /\ op = [n \in Names |-> "create"]
        /\ phase = [n \in Names |-> "idle"]
        /\ calm = {} /\ faults = 0 /\ ops = 0

--------------------------------------------------------------------------------

\* An operation gets the lock of its name.  delete undefines the domain before
\* it asks for the pools; create learns a new address from its spec.
Begin(n, o) ==
    LET others == {m \in Names \ {n} : phase[m] # "idle"} IN
    /\ phase[n] = "idle" /\ ops < MaxOps
    /\ Possible(o, n)
    /\ op' = [op EXCEPT ![n] = o]
    /\ phase' = [phase EXCEPT ![n] = "work"]
    /\ todo' = [todo EXCEPT ![n] = ResourcesOf(o, n)]
    /\ at' = [at EXCEPT ![n] = IF o = "delete" THEN "list" ELSE "check"]
    /\ IF o = "create" THEN \E ip \in IpsOf[n] : addr' = [addr EXCEPT ![n] = ip]
                       ELSE addr' = addr
    /\ inEffect' = IF o = "boot" THEN inEffect ELSE [inEffect EXCEPT ![n] = 0]
    /\ vm' = [vm EXCEPT ![n] = IF o = "delete" THEN "absent" ELSE @]
    /\ calm' = IF others = {} THEN calm \cup {n} ELSE calm \ (others \cup {n})
    /\ ops' = ops + 1
    /\ UNCHANGED <<active, poolVars, script, records, late, faults>>

Ensure(n) == /\ phase[n] = "work"
             /\ UseResource(n)
             /\ UNCHANGED <<dnsVars, ownVars>>

\* libvirt starts a domain only when its networks are up.
BootRefused(n) == op[n] # "delete" /\ ~(Members(NetsOf[n]) \subseteq active)

\* Everything is ensured.  The server is built and booted and registered, or it
\* is gone and unregistered: unless the three variables are not set in this
\* process.
Complete(n) ==
    /\ phase[n] = "work" /\ todo[n] = <<>>
    /\ ~BootRefused(n)
    /\ vm' = [vm EXCEPT ![n] = IF op[n] = "delete" THEN "absent" ELSE "on"]
    /\ phase' = [phase EXCEPT ![n] = "dns"]
    /\ \/ script' = script
       \/ /\ op[n] # "boot"
          /\ script' = [script EXCEPT ![n] = IF op[n] = "delete" THEN Unregister(n, addr[n])
                                                                 ELSE Register(n, addr[n])]
    /\ UNCHANGED <<resourceVars, records, late, addr, inEffect, op, calm, faults, ops>>

Update(n) == /\ phase[n] = "dns"
             /\ Send(n)
             /\ UNCHANGED <<resourceVars, ownVars>>

Another == faults < MaxFaults /\ faults' = faults + 1

UpdateFails(n) == /\ phase[n] = "dns" /\ Another
                  /\ SendFails(n)
                  /\ UNCHANGED <<resourceVars, vm, op, phase, calm, ops>>

\* The operation returns once its records are in effect.
SucceedInEffect(n) == /\ phase[n] = "dns" /\ script[n] = <<>> /\ inEffect[n] = 2
                      /\ phase' = [phase EXCEPT ![n] = "idle"]
                      /\ UNCHANGED <<resourceVars, dnsVars, vm, op, calm, faults, ops>>

\* The operation returns, whatever became of its updates.
Succeed(n) == /\ phase[n] = "dns" /\ script[n] = <<>>
              /\ phase' = [phase EXCEPT ![n] = "idle"]
              /\ UNCHANGED <<resourceVars, dnsVars, vm, op, calm, faults, ops>>

\* The operation has come to where it cuts the power: reinstall between the seed
\* and the disk, boot before anything else.
CutsPower(n) == \/ op[n] = "reinstall" /\ phase[n] = "work" /\ Seeds \notin Members(todo[n])
                \/ op[n] = "boot" /\ phase[n] = "work"

Interrupted(n) == IF CutsPower(n)
                  THEN {vm, [vm EXCEPT ![n] = "off"]} ELSE {vm}

\* A call is refused, or fails for a reason of its own.  The rollback of create
\* lists the pools as well, which changes none of this.
Refused(n) == IF todo[n] = <<>> THEN BootRefused(n) ELSE CallRefused(n)

Fail(n) == /\ phase[n] = "work"
           /\ IF Refused(n) THEN UNCHANGED <<faults, calm>> ELSE Another /\ calm' = calm \ {n}
           /\ phase' = [phase EXCEPT ![n] = "failed"]
           /\ vm' \in Interrupted(n)
           /\ UNCHANGED <<resourceVars, dnsVars, op, ops>>

Return(n) == /\ phase[n] = "failed"
             /\ phase' = [phase EXCEPT ![n] = "idle"]
             /\ todo' = [todo EXCEPT ![n] = <<>>]
             /\ UNCHANGED <<at, active, poolVars, dnsVars, vm, op, calm, faults, ops>>

\* The processes that work on the servers ns end.  An nsupdate they started may
\* still get through.
Die(ns) == /\ Another
           /\ phase' = [n \in Names |-> IF n \in ns THEN "idle" ELSE phase[n]]
           /\ todo' = [n \in Names |-> IF n \in ns THEN <<>> ELSE todo[n]]
           /\ script' = [n \in Names |-> IF n \in ns THEN <<>> ELSE script[n]]
           /\ \E us \in SUBSET UNION {Members(script[n]) : n \in ns} : late' = late \cup us
           /\ UNCHANGED <<at, records, addr, inEffect, op, ops>>

Crash(n) == /\ Busy(n)
            /\ Die({n})
            /\ vm' \in Interrupted(n)
            /\ UNCHANGED <<active, poolVars, calm>>

\* The host restarts: no server runs.
Reboot == /\ Die(Names)
          /\ RestartResources
          /\ vm' = [n \in Names |-> IF vm[n] = "on" THEN "off" ELSE vm[n]]
          /\ calm' = {}

Landing == /\ \E u \in late : Land(u)
           /\ UNCHANGED <<resourceVars, ownVars>>

--------------------------------------------------------------------------------

Work(n) == \/ Ensure(n) \/ Complete(n) \/ Update(n) \/ UpdateFails(n) \/ Succeed(n)
           \/ Fail(n) \/ Return(n)

Next == \/ \E n \in Names : Work(n) \/ Crash(n) \/ \E o \in Operations : Begin(n, o)
        \/ Reboot
        \/ Landing

Spec == Init /\ [][Next]_vars

\* Threads are scheduled and libvirt answers; nsupdate answers or is killed
\* after 15 seconds.  The DNS server owes nothing.
FairSpec == Spec /\ \A n \in Names : WF_vars(Work(n))

--------------------------------------------------------------------------------
(* Properties.                                                             *)

\* The type of every variable.
TypeOK == /\ ResourcesTypeOK /\ DnsTypeOK
          /\ vm \in [Names -> {"absent", "off", "on"}]
          /\ op \in [Names -> Operations]
          /\ phase \in [Names -> {"idle", "work", "dns", "failed"}]
          /\ calm \subseteq Names
          /\ faults \in 0 .. MaxFaults /\ ops \in 0 .. MaxOps

\* When a server is about to boot, all it needs is active, although other
\* operations raced for the same networks and pools and the host restarted
\* since some of them were set up.
ReadyWhenBuilt ==
    \A n \in Names : phase[n] = "work" /\ todo[n] = <<>> /\ op[n] # "delete" =>
        Members(NetsOf[n]) \cup (IF op[n] = "boot" THEN {} ELSE Pools \cup {Base}) \subseteq active

\* What races, failures and restarts leave behind spoils two operations only:
\* a create alone on the host, with no failure of its own, fails only on a pool
\* that was defined but never built, a delete only on one that did not come
\* back after a restart.  Beyond that, create and reinstall need the pool of
\* base images; boot always works.
AloneSucceeds ==
    \A n \in Names : phase[n] = "failed" /\ n \in calm =>
        \/ op[n] = "create" /\ \E p \in Pools : p \in defined \ built
        \/ op[n] = "delete" /\ \E p \in Pools : p \in defined \ active
        \/ op[n] \in {"create", "reinstall"} /\ Base \notin active

\* Once both updates of the last operation on a server got through, its records
\* are exactly right (one address, its own; or none when it was deleted) until
\* an overdue update lands or another server uses its address.
RegisteredStays ==
    \A n \in Names : inEffect[n] = 2 =>
        IF vm[n] = "absent" THEN records[n] = {} /\ records[addr[n]] = {}
        ELSE records[n] = {addr[n]} /\ records[addr[n]] = {n}

\* Every operation ends, also while the DNS server does not answer.
EveryOperationEnds == \A n \in Names : Busy(n) ~> phase[n] = "idle"
================================================================================
