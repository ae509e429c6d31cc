------------------------------ MODULE ServerManager ------------------------------
(***************************************************************************)
(* The write operations of mini_vps.manager.ServerManager on libvirt:      *)
(* create (with its rollback and its convergence), delete, start, stop,    *)
(* restart and reinstall, each a sequence of libvirt calls made under a    *)
(* lock per VM name.  Any call may be refused by libvirt in the state it   *)
(* meets, or fail for a reason of its own; processes and the host crash;   *)
(* guests power themselves off.                                            *)
(*                                                                         *)
(* A client is a thread of a process (an HTTP request of the API, or a     *)
(* CLI invocation); every process owns one ServerManager, hence one table  *)
(* of name locks.  pc[c] names the next libvirt call of client c.  A call  *)
(* is one atomic step; the reads that precede a call and that only the     *)
(* lock holder can invalidate are part of the step that uses them.         *)
(***************************************************************************)
EXTENDS Naturals, FiniteSets

CONSTANTS
    Clients,       \* threads that call a ServerManager
    Managers,      \* the ServerManager instances, one per process
    ManagerOf,     \* the instance each client calls
    Names,         \* VM names
    Nets,          \* libvirt networks
    Rest,          \* the immutable part of a spec: every field but memory,
                   \* vcpus and filters
    NetsOf,        \* the networks a rest refers to
    StaticRest,    \* the rests with a static NIC, the only ones DNS knows
    Sizes,         \* memory and vcpus, which one function rewrites together
    Rules,         \* rule lists of a filter
    Wanted,        \* the specs users ask for
    Uuids,         \* domain UUIDs
    Faulty,        \* the calls that may fail for a reason of their own
    MaxFaults,     \* how many such failures a behaviour has
    Environment,   \* which of "crash", "reboot", "halt" happen
    None,          \* no domain, spec, filter, client or job
    Unmanaged      \* what the registry calls a domain without metadata

Specs == [rest : Rest, size : Sizes, filters : Rules \cup {None}]

\* A libvirt domain definition: meta is the spec in its <metadata>, size and
\* filterref are what its XML says.
Domains == [uuid : Uuids, meta : Wanted \cup {None}, size : Sizes,
            filterref : BOOLEAN, active : BOOLEAN]

CreateJobs == [op : {"create"}, name : Names, spec : Wanted, force : {FALSE}]
OtherJobs  == [op : {"delete", "start", "reinstall"}, name : Names,
               spec : {None}, force : {FALSE}]
              \cup [op : {"stop", "restart"}, name : Names,
                    spec : {None}, force : BOOLEAN]

\* An operation under way: the others than create learn their spec on the way.
Jobs == [op : {"create", "delete", "start", "stop", "restart", "reinstall"},
         name : Names, spec : Wanted \cup {None}, force : BOOLEAN]

ASSUME ConstantsAssumption ==
    /\ ManagerOf \in [Clients -> Managers]
    /\ NetsOf \in [Rest -> SUBSET Nets]
    /\ StaticRest \subseteq Rest
    /\ Wanted \subseteq Specs
    /\ MaxFaults \in Nat
    /\ {None, Unmanaged} \cap (Domains \cup Specs \cup Rules \cup Clients) = {}
    /\ None # Unmanaged

VARIABLES
    dom,      \* dom[n]: the domain libvirt knows by the name n, or None
    filt,     \* filt[n]: the rules of the nwfilter minivps-n, or None
    overlay,  \* overlay[n]: the volume n.qcow2: absent, fresh or booted
    seed,     \* seed[n]: the volume n-seed.iso: absent, empty or ready
    up,       \* the active libvirt networks
    dns,      \* the names with records at the DNS server
    holder,   \* holder[m][n]: who holds the lock of n in manager m
    pc,       \* pc[c]: the call client c makes next
    job,      \* job[c]: the operation c carries out, or None
    snap,     \* snap[c]: the domain as c last read it, and its handle
    faults    \* failures so far

hostVars == <<dom, filt, overlay, seed, up, dns>>
vars == <<dom, filt, overlay, seed, up, dns, holder, pc, job, snap, faults>>

--------------------------------------------------------------------------------
(* Program counters.                                                       *)

\* The calls inside create's try block: provision, _write_spec, dom.create.
TryLabels == {"net", "filter", "seed", "seed_create", "seed_upload",
              "disk_delete", "disk_create", "define", "write", "boot"}

TeardownLabels == {"td_find", "td_undefine", "td_filter", "td_disk", "td_seed"}

\* The calls that can raise; the DNS calls never do.
CallLabels == TryLabels \cup TeardownLabels
              \cup {"find", "lookup", "off", "acpi", "check", "get", "lease",
                    "cv_filter", "cv_define", "cv_undefine", "cv_write"}

\* How an operation ends, its lock still held.
Outcomes == {"ok", "created", "notfound", "conflict", "running", "notrunning",
             "rolled_back", "error"}

InsideLabels == CallLabels \cup Outcomes \cup {"dns", "td_dns"}

Labels == InsideLabels \cup {"idle"}

Inside(c) == pc[c] \in InsideLabels

NameOf(c) == job[c].name

\* The domain the handle of c refers to is gone: libvirt finds it by UUID.
Stale(c) == LET d == dom[NameOf(c)] IN d = None \/ d.uuid # snap[c].uuid

Attached(n) == dom[n] # None /\ dom[n].filterref

\* libvirt cannot start the domain n of client c as things are.
CannotBoot(c) ==
    LET n == NameOf(c) IN
    \/ dom[n].active
    \/ overlay[n] = "absent" \/ seed[n] = "absent"
    \/ ~(NetsOf[job[c].spec.rest] \subseteq up)
    \/ Attached(n) /\ filt[n] = None

\* libvirt refuses the next call of client c in the present state.  The XML of a
\* filter and of a new domain has no UUID: libvirt makes one up, and refuses a
\* name it knows under another.
Refused(c) ==
    LET n == NameOf(c)  l == pc[c] IN
    \/ l \in {"write", "cv_write", "boot", "off", "acpi", "check", "lease", "td_undefine"}
       /\ Stale(c)
    \/ l = "boot" /\ CannotBoot(c)
    \/ l \in {"off", "acpi", "lease"} /\ ~dom[n].active
    \/ l \in {"filter", "cv_filter"} /\ filt[n] # None
    \/ l = "define" /\ dom[n] # None
    \/ l = "cv_define" /\ dom[n] # None /\ dom[n].uuid # snap[c].uuid
    \/ l = "seed_create" /\ seed[n] # "absent"
    \/ l = "seed_upload" /\ seed[n] = "absent"
    \/ l = "disk_create" /\ overlay[n] # "absent"
    \/ l \in {"td_filter", "cv_undefine"} /\ Attached(n) /\ filt[n] # None

Goto(c, l) == pc' = [pc EXCEPT ![c] = l]

\* Client c makes the call at label l, which succeeds, and goes on to next.
Step(c, l, next) == /\ pc[c] = l
                    /\ ~Refused(c)
                    /\ Goto(c, next)
                    /\ UNCHANGED <<holder, job, faults>>

FreshUuids == Uuids \ ({dom[n].uuid : n \in {m \in Names : dom[m] # None}}
                       \cup {snap[c].uuid : c \in {d \in Clients : snap[d] # None}})

\* Some names may belong to domains of other tools.
Init ==
    /\ dom \in [Names -> {None} \cup {d \in Domains : d.meta = None /\ ~d.filterref}]
    /\ \A n, m \in {k \in Names : dom[k] # None} :
         dom[n].uuid = dom[m].uuid => n = m
    /\ filt = [n \in Names |-> None]
    /\ overlay = [n \in Names |-> "absent"]
    /\ seed = [n \in Names |-> "absent"]
    /\ up = {}
    /\ dns = {}
    /\ holder = [m \in Managers |-> [n \in Names |-> None]]
    /\ pc = [c \in Clients |-> "idle"]
    /\ job = [c \in Clients |-> None]
    /\ snap = [c \in Clients |-> None]
    /\ faults = 0

--------------------------------------------------------------------------------
(* Entering and leaving an operation.                                      *)

\* A lock every client can take at any time.
LockIsFreeAlways(m, n) == TRUE

LockIsFree(m, n) == holder[m][n] = None

\* A user's request gets the lock of its name; while it waits it does nothing,
\* and its client counts as idle.
Begin(c) == /\ pc[c] = "idle"
            /\ \E j \in CreateJobs \cup OtherJobs :
                 /\ LockIsFree(ManagerOf[c], j.name)
                 /\ holder' = [holder EXCEPT ![ManagerOf[c]][j.name] = c]
                 /\ job' = [job EXCEPT ![c] = j]
                 /\ Goto(c, IF j.op = "create" THEN "find" ELSE "lookup")
            /\ UNCHANGED <<hostVars, snap, faults>>

\* The with block is left, by return or by exception: the lock is released.
Return(c) == /\ pc[c] \in Outcomes
             /\ holder' = [holder EXCEPT ![ManagerOf[c]][NameOf(c)] = None]
             /\ Goto(c, "idle")
             /\ job' = [job EXCEPT ![c] = None]
             /\ snap' = [snap EXCEPT ![c] = None]
             /\ UNCHANGED <<hostVars, faults>>

\* The upload of the seed is aborted, but its exception is swallowed.
HandlerSwallowing(c) ==
    IF pc[c] = "seed_upload" THEN "disk_delete"
    ELSE IF job[c].op = "create" /\ pc[c] \in TryLabels THEN "td_find" ELSE "error"

\* Where an exception takes client c: create rolls back what its try block
\* raised, everything else propagates.
HandlerOf(c) == IF job[c].op = "create" /\ pc[c] \in TryLabels
                THEN "td_find" ELSE "error"

\* The next call of c raises, without effect on libvirt.
Fail(c) == /\ pc[c] \in CallLabels
           /\ ~Refused(c) => pc[c] \in Faulty /\ faults < MaxFaults
           /\ faults' = faults + IF Refused(c) THEN 0 ELSE 1
           /\ Goto(c, HandlerOf(c))
           /\ UNCHANGED <<hostVars, holder, job, snap>>

--------------------------------------------------------------------------------
(* The ends of create that change nothing, and the start of the rest.      *)

Managed(d) == d # None /\ d.meta # None

\* A name is taken for free as long as no managed domain has it.
FindNothingManaged(c) == /\ Step(c, "find", "net")
                         /\ ~Managed(dom[NameOf(c)])
                         /\ UNCHANGED <<hostVars, snap>>

\* No domain of that name: provision starts.
FindNothing(c) == /\ Step(c, "find", "net")
                  /\ dom[NameOf(c)] = None
                  /\ UNCHANGED <<hostVars, snap>>

\* Every field can be converged.
NothingImmutable(d, s) == TRUE

OnlyMutableDiffer(d, s) == d.meta.rest = s.rest

\* An unmanaged domain, or another immutable field.
FindConflict(c) == LET d == dom[NameOf(c)] IN
    /\ Step(c, "find", "conflict")
    /\ d # None
    /\ d.meta # None => ~OnlyMutableDiffer(d, job[c].spec)
    /\ UNCHANGED <<hostVars, snap>>

\* The spec is the one in the metadata already.
FindEqual(c) == LET d == dom[NameOf(c)] IN
    /\ Step(c, "find", "get")
    /\ d # None /\ d.meta = job[c].spec
    /\ snap' = [snap EXCEPT ![c] = d]
    /\ UNCHANGED hostVars

Changeable(c) == pc[c] = "find" /\ LET d == dom[NameOf(c)] IN
    Managed(d) /\ d.meta # job[c].spec /\ OnlyMutableDiffer(d, job[c].spec)

\* The mutable fields of a running VM are not touched.
MayConvergeRunning(d) == TRUE

MayConverge(d) == ~d.active

FindRunning(c) == /\ Step(c, "find", "running")
                  /\ Changeable(c)
                  /\ ~MayConverge(dom[NameOf(c)])
                  /\ UNCHANGED <<hostVars, snap>>

\* Convergence starts: the metadata and the inactive XML are read.
FindDifferent(c) == LET d == dom[NameOf(c)]  s == job[c].spec IN
    /\ Changeable(c)
    /\ Step(c, "find", IF s.filters \notin {None, d.meta.filters}
                       THEN "cv_filter" ELSE "cv_define")
    /\ MayConverge(d)
    /\ snap' = [snap EXCEPT ![c] = d]
    /\ UNCHANGED hostVars

Find(c) == \/ FindNothing(c) \/ FindConflict(c) \/ FindEqual(c)
           \/ FindRunning(c) \/ FindDifferent(c)

--------------------------------------------------------------------------------
(* Building a server: provision, and the parts reinstall and start share.  *)

\* A new server's filter is never defined.
EnsureNetworkOnly(c) ==
    /\ Step(c, "net", IF job[c].op # "create" THEN "boot" ELSE "seed")
    /\ up' = up \cup NetsOf[job[c].spec.rest]
    /\ UNCHANGED <<dom, filt, overlay, seed, dns, snap>>

\* ensure_network_active: every network of the spec is up afterwards.
EnsureNetwork(c) == LET j == job[c] IN
    /\ Step(c, "net", IF j.op # "create" THEN "boot"
                      ELSE IF j.spec.filters = None THEN "seed" ELSE "filter")
    /\ up' = up \cup NetsOf[j.spec.rest]
    /\ UNCHANGED <<dom, filt, overlay, seed, dns, snap>>

\* nwfilterDefineXML, first for a new server, then for a convergence that adds a
\* filter or changes its rules.
DefineFilter(c) ==
    /\ Step(c, "filter", "seed") \/ Step(c, "cv_filter", "cv_define")
    /\ filt' = [filt EXCEPT ![NameOf(c)] = job[c].spec.filters]
    /\ UNCHANGED <<dom, overlay, seed, up, dns, snap>>

\* build_seed_iso renders the ISO and deletes the volume of that name ...
DeleteOldSeed(c) ==
    /\ Step(c, "seed", "seed_create")
    /\ seed' = [seed EXCEPT ![NameOf(c)] = "absent"]
    /\ UNCHANGED <<dom, filt, overlay, up, dns, snap>>

\* ... creates it anew ...
CreateSeed(c) ==
    /\ Step(c, "seed_create", "seed_upload")
    /\ seed' = [seed EXCEPT ![NameOf(c)] = "empty"]
    /\ UNCHANGED <<dom, filt, overlay, up, dns, snap>>

\* ... and uploads the ISO.
UploadSeed(c) ==
    /\ Step(c, "seed_upload", IF job[c].op = "create" THEN "disk_delete" ELSE "check")
    /\ seed' = [seed EXCEPT ![NameOf(c)] = "ready"]
    /\ UNCHANGED <<dom, filt, overlay, up, dns, snap>>

\* The old volume is not looked for.
KeepOldDisk(c) == /\ Step(c, "disk_delete", "disk_create")
                  /\ UNCHANGED <<hostVars, snap>>

\* create_overlay_volume deletes the volume of that name ...
DeleteOldDisk(c) ==
    /\ Step(c, "disk_delete", "disk_create")
    /\ overlay' = [overlay EXCEPT ![NameOf(c)] = "absent"]
    /\ UNCHANGED <<dom, filt, seed, up, dns, snap>>

\* ... and creates an empty one on the base image.
CreateDisk(c) ==
    /\ Step(c, "disk_create", IF job[c].op = "create" THEN "define" ELSE "net")
    /\ overlay' = [overlay EXCEPT ![NameOf(c)] = "fresh"]
    /\ UNCHANGED <<dom, filt, seed, up, dns, snap>>

\* defineXML of the domain built from the template, without metadata; libvirt
\* gives it a UUID of its own.
DefineDomain(c) == LET s == job[c].spec IN
    /\ Step(c, "define", "write")
    /\ \E u \in FreshUuids :
         LET d == [uuid |-> u, meta |-> None, size |-> s.size,
                   filterref |-> s.filters # None, active |-> FALSE] IN
         /\ dom' = [dom EXCEPT ![NameOf(c)] = d]
         /\ snap' = [snap EXCEPT ![c] = d]
    /\ UNCHANGED <<filt, overlay, seed, up, dns>>

\* _write_spec: setMetadata of the inactive definition.
WriteSpec(c) ==
    /\ Step(c, "write", "boot") \/ Step(c, "cv_write", "get")
    /\ dom' = [dom EXCEPT ![NameOf(c)].meta = job[c].spec]
    /\ UNCHANGED <<filt, overlay, seed, up, dns, snap>>

\* dom.create(): a disk nobody booted yet is initialised from the seed.
Boot(c) == LET n == NameOf(c) IN
    /\ Step(c, "boot", IF job[c].op \in {"create", "reinstall"} THEN "dns" ELSE "get")
    /\ dom' = [dom EXCEPT ![n].active = TRUE]
    /\ overlay' = [overlay EXCEPT ![n] = "booted"]
    /\ UNCHANGED <<filt, seed, up, dns, snap>>

\* dns_registration.register: best effort, for servers with a static NIC.
RegisterDns(c) ==
    /\ Step(c, "dns", "get")
    /\ \/ dns' = dns
       \/ job[c].spec.rest \in StaticRest /\ dns' = dns \cup {NameOf(c)}
    /\ UNCHANGED <<dom, filt, overlay, seed, up, snap>>

\* What the operation comes to once its server has been read.
Reported(c) == IF job[c].op = "create" /\ snap[c].meta = None THEN "created" ELSE "ok"

\* get waits for the lock of the name too, which is not reentrant.
GetTakesLock(c) == LET d == dom[NameOf(c)] IN
    \/ /\ Step(c, "get", IF Managed(d) THEN Reported(c) ELSE "notfound")
       /\ LockIsFree(ManagerOf[c], NameOf(c))
       /\ UNCHANGED <<hostVars, snap>>
    \/ pc[c] = "get" /\ UNCHANGED vars

\* get(name), which every operation that returns a server ends with: the name is
\* looked up again, and the metadata and the state are read.
Get(c) == LET d == dom[NameOf(c)] IN
    /\ Step(c, "get", IF ~Managed(d) THEN "notfound"
                      ELSE IF d.active /\ d.meta.rest \notin StaticRest THEN "lease"
                      ELSE Reported(c))
    /\ snap' = IF d = None THEN snap ELSE [snap EXCEPT ![c].uuid = d.uuid]
    /\ UNCHANGED hostVars

\* interfaceAddresses, of a running server without a static address.
ReadLease(c) == /\ Step(c, "lease", Reported(c))
                /\ UNCHANGED <<hostVars, snap>>

Read(c) == Get(c) \/ ReadLease(c)

Provision(c) == \/ EnsureNetwork(c) \/ DefineFilter(c)
                \/ DeleteOldSeed(c) \/ CreateSeed(c) \/ UploadSeed(c)
                \/ DeleteOldDisk(c) \/ CreateDisk(c)
                \/ DefineDomain(c) \/ WriteSpec(c) \/ Boot(c) \/ RegisterDns(c)

--------------------------------------------------------------------------------
(* _converge: the differences between metadata and wanted spec are applied *)
(* to the inactive definition, whose metadata stays as it is.              *)

\* Only the size is rewritten: a changed filter is not attached or detached.
EditedSizeOnly(d, s) ==
    [d EXCEPT !.size = IF s.size = d.meta.size THEN @ ELSE s.size]

\* The XML is built anew and has no UUID.
EditedWithoutUuid(d, s) == [d EXCEPT !.uuid = None, !.size = s.size,
                                     !.filterref = s.filters # None]

Edited(d, s) ==
    [d EXCEPT !.size = IF s.size = d.meta.size THEN @ ELSE s.size,
              !.filterref = IF s.filters = d.meta.filters THEN @ ELSE s.filters # None]

\* The filter goes whenever it changes.
DropsChangedFilter(c) == job[c].spec.filters # snap[c].meta.filters

\* The filter goes only when the metadata had one and the new spec has none.
DropsFilter(c) == job[c].spec.filters = None /\ snap[c].meta.filters # None

RedefineDomain(c) == LET n == NameOf(c) IN
    /\ Step(c, "cv_define", IF DropsFilter(c) THEN "cv_undefine" ELSE "cv_write")
    /\ dom' = [dom EXCEPT ![n] = [Edited(snap[c], job[c].spec) EXCEPT
                                   !.active = dom[n] # None /\ dom[n].active]]
    /\ UNCHANGED <<filt, overlay, seed, up, dns, snap>>

\* A filter that is not listed is not undefined again.
UndefineFilter(c) ==
    /\ Step(c, "cv_undefine", "cv_write")
    /\ filt' = [filt EXCEPT ![NameOf(c)] = None]
    /\ UNCHANGED <<dom, overlay, seed, up, dns, snap>>

Converge(c) == RedefineDomain(c) \/ UndefineFilter(c)

--------------------------------------------------------------------------------
(* The operations on a server that exists.                                 *)

LookupNothing(c) == /\ Step(c, "lookup", "notfound")
                    /\ ~Managed(dom[NameOf(c)])
                    /\ UNCHANGED <<hostVars, snap>>

\* delete takes the name out of DNS before it removes the server.
WhenOnUnregisterFirst(j) == IF j.op = "delete" THEN "td_dns" ELSE "get"

\* The first call after the lookup of a running domain, and of a stopped one.
WhenOn(j) == CASE j.op = "delete" -> "td_find"
               [] j.op = "reinstall" -> "seed"
               [] j.op = "start" -> "get"
               [] j.op \in {"stop", "restart"} -> IF j.force THEN "off" ELSE "acpi"

WhenOff(j) == CASE j.op = "delete" -> "td_find"
                [] j.op = "reinstall" -> "seed"
                [] j.op = "start" -> "net"
                [] j.op = "stop" -> "get"
                [] j.op = "restart" -> IF j.force THEN "net" ELSE "notrunning"

\* The handle, the spec of the metadata and isActive() are read.
LookupServer(c) == LET d == dom[NameOf(c)] IN
    /\ pc[c] = "lookup"
    /\ Managed(d)
    /\ Goto(c, IF d.active THEN WhenOn(job[c]) ELSE WhenOff(job[c]))
    /\ snap' = [snap EXCEPT ![c] = d]
    /\ job' = [job EXCEPT ![c].spec = d.meta]
    /\ UNCHANGED <<hostVars, holder, faults>>

\* reinstall replaces the disk whatever the power state.
CheckNothing(c) == /\ Step(c, "check", "disk_delete")
                   /\ UNCHANGED <<hostVars, snap>>

\* reinstall looks at the power state only after the seed is built.
CheckActive(c) ==
    /\ Step(c, "check", IF dom[NameOf(c)].active THEN "off" ELSE "disk_delete")
    /\ UNCHANGED <<hostVars, snap>>

\* dom.destroy(): the power is cut.
PowerOff(c) ==
    /\ Step(c, "off", CASE job[c].op \in {"create", "delete"} -> "td_undefine"
                        [] job[c].op = "stop" -> "get"
                        [] job[c].op = "restart" -> "net"
                        [] job[c].op = "reinstall" -> "disk_delete")
    /\ dom' = [dom EXCEPT ![NameOf(c)].active = FALSE]
    /\ UNCHANGED <<filt, overlay, seed, up, dns, snap>>

\* The guest is waited for, for as long as it takes.
AwaitGuest(c) == /\ Step(c, "acpi", "get")
                 /\ ~dom[NameOf(c)].active
                 /\ UNCHANGED <<hostVars, snap>>

\* dom.shutdown() and dom.reboot() ask the guest, which answers when it likes.
AskGuest(c) == /\ Step(c, "acpi", "get")
               /\ UNCHANGED <<hostVars, snap>>

Operate(c) == \/ LookupNothing(c) \/ LookupServer(c)
              \/ CheckActive(c) \/ PowerOff(c) \/ AskGuest(c)

--------------------------------------------------------------------------------
(* teardown, of delete and of create's rollback.                           *)

\* The filter is only looked for when there is a domain.
WithoutDomainFilterStays(c) == "td_disk"

WithoutDomain(c) == "td_filter"

FindDomain(c) == LET d == dom[NameOf(c)] IN
    /\ Step(c, "td_find", IF d = None THEN WithoutDomain(c)
                          ELSE IF d.active THEN "off" ELSE "td_undefine")
    /\ snap' = [snap EXCEPT ![c] = IF d = None THEN @ ELSE d]
    /\ UNCHANGED hostVars

UndefineDomain(c) ==
    /\ Step(c, "td_undefine", "td_filter")
    /\ dom' = [dom EXCEPT ![NameOf(c)] = None]
    /\ UNCHANGED <<filt, overlay, seed, up, dns, snap>>

\* teardown forgets the filter.
KeepFilter(c) == /\ Step(c, "td_filter", "td_disk")
                 /\ UNCHANGED <<hostVars, snap>>

RemoveFilter(c) ==
    /\ Step(c, "td_filter", "td_disk")
    /\ filt' = [filt EXCEPT ![NameOf(c)] = None]
    /\ UNCHANGED <<dom, overlay, seed, up, dns, snap>>

RemoveDisk(c) ==
    /\ Step(c, "td_disk", "td_seed")
    /\ overlay' = [overlay EXCEPT ![NameOf(c)] = "absent"]
    /\ UNCHANGED <<dom, filt, seed, up, dns, snap>>

RemoveSeed(c) ==
    /\ Step(c, "td_seed", IF job[c].op = "delete" THEN "td_dns" ELSE "rolled_back")
    /\ seed' = [seed EXCEPT ![NameOf(c)] = "absent"]
    /\ UNCHANGED <<dom, filt, overlay, up, dns, snap>>

\* dns_registration.unregister, best effort, with the spec read before.
UnregisterDns(c) ==
    /\ Step(c, "td_dns", "ok")
    /\ \/ dns' = dns
       \/ job[c].spec.rest \in StaticRest /\ dns' = dns \ {NameOf(c)}
    /\ UNCHANGED <<dom, filt, overlay, seed, up, snap>>

Teardown(c) == \/ FindDomain(c) \/ UndefineDomain(c) \/ RemoveFilter(c)
               \/ RemoveDisk(c) \/ RemoveSeed(c) \/ UnregisterDns(c)

--------------------------------------------------------------------------------
(* What happens without the platform's doing.                              *)

\* A guest powers itself off, after shutdown() or of its own accord.
GuestHalt(n) == /\ "halt" \in Environment
                /\ dom[n] # None /\ dom[n].active
                /\ dom' = [dom EXCEPT ![n].active = FALSE]
                /\ UNCHANGED <<filt, overlay, seed, up, dns, holder, pc, job, snap, faults>>

\* The processes of ms end where they are: no handler runs, their locks and
\* what they knew are gone.
Die(ms) == LET dead == {c \in Clients : ManagerOf[c] \in ms} IN
    /\ holder' = [m \in Managers |-> IF m \in ms THEN [n \in Names |-> None]
                                                 ELSE holder[m]]
    /\ pc' = [c \in Clients |-> IF c \in dead THEN "idle" ELSE pc[c]]
    /\ job' = [c \in Clients |-> IF c \in dead THEN None ELSE job[c]]
    /\ snap' = [c \in Clients |-> IF c \in dead THEN None ELSE snap[c]]
    /\ UNCHANGED <<filt, overlay, seed, dns, faults>>

Crash(m) == /\ "crash" \in Environment
            /\ Die({m})
            /\ UNCHANGED <<dom, up>>

\* The host restarts: no domain runs, no network is up, definitions stay.
Reboot == /\ "reboot" \in Environment
          /\ Die(Managers)
          /\ dom' = [n \in Names |-> IF dom[n] = None THEN None
                                     ELSE [dom[n] EXCEPT !.active = FALSE]]
          /\ up' = {}

--------------------------------------------------------------------------------

Advance(c) == \/ Find(c) \/ Provision(c) \/ Converge(c) \/ Read(c)
              \/ Operate(c) \/ Teardown(c) \/ Fail(c) \/ Return(c)

Next == \/ \E c \in Clients : Begin(c) \/ Advance(c)
        \/ \E n \in Names : GuestHalt(n)
        \/ \E m \in Managers : Crash(m)
        \/ Reboot

Spec == Init /\ [][Next]_vars

\* The scheduler runs every thread and libvirt answers every call; nobody has
\* to ask for anything.
FairSpec == Spec /\ \A c \in Clients : WF_vars(Advance(c))

--------------------------------------------------------------------------------
(* Properties.                                                             *)

\* The type of every variable.
TypeOK ==
    /\ dom \in [Names -> Domains \cup {None}]
    /\ filt \in [Names -> Rules \cup {None}]
    /\ overlay \in [Names -> {"absent", "fresh", "booted"}]
    /\ seed \in [Names -> {"absent", "empty", "ready"}]
    /\ up \subseteq Nets
    /\ dns \subseteq Names
    /\ holder \in [Managers -> [Names -> Clients \cup {None}]]
    /\ pc \in [Clients -> Labels]
    /\ job \in [Clients -> Jobs \cup {None}]
    /\ snap \in [Clients -> Domains \cup {None}]
    /\ faults \in 0 .. MaxFaults

\* A managed server never runs without its disk, whatever fails or crashes
\* around the destroy-delete-create of reinstall and teardown.
RunningDiskIntact ==
    \A n \in Names : Managed(dom[n]) /\ dom[n].active => overlay[n] # "absent"

\* A domain that refers to its filter finds it: provision and _converge define
\* the filter before the reference and undefine it after.
FilterBacked == \A n \in Names : Attached(n) => filt[n] # None

\* When create rolls back, the domain of that name, if any, is the one this
\* very create defined: the rollback never removes somebody else's server.
RollbackOwnsDomain ==
    \A c \in Clients : pc[c] = "td_find" /\ job[c].op = "create" =>
        LET d == dom[NameOf(c)] IN
        d # None => snap[c] # None /\ d.uuid = snap[c].uuid

\* A client that is between the definition of a new domain and its metadata.
Building(n) == \E c \in Clients : /\ pc[c] \in {"write", "td_find", "td_undefine"}
                                  /\ job[c].op = "create"
                                  /\ job[c].name = n

Foreign(n) == dom[n] # None /\ dom[n].meta = None /\ ~Building(n)

\* What the platform does not manage stays as it is: the domain but for its
\* guest's or host's power-off, and the files and filter of that name.
UnmanagedUntouched ==
    [][\A n \in Names : Foreign(n) =>
         /\ dom'[n] # None
         /\ \E a \in BOOLEAN : dom'[n] = [dom[n] EXCEPT !.active = a /\ @]
         /\ <<filt'[n], overlay'[n], seed'[n]>> = <<filt[n], overlay[n], seed[n]>>]_vars

\* The definition and the filter of a VM that keeps running do not change.
LiveVmNotReconfigured ==
    [][\A n \in Names : dom[n] # None /\ dom[n].active /\ dom'[n] # None /\ dom'[n].active
         => dom'[n] = dom[n] /\ filt'[n] = filt[n]]_vars

\* A name leaves DNS only once its domain is gone, so no live server loses it.
DnsRemovedAfterVm ==
    [][\A n \in dns : n \notin dns' => dom[n] = None /\ dom'[n] = None]_vars

\* A disk is initialised, which cloud-init does once, only from a complete seed.
FirstBootSeeded ==
    [][\A n \in Names : overlay[n] = "fresh" /\ overlay'[n] = "booted"
         => seed[n] = "ready"]_vars

Nothing(n) == /\ dom[n] = None /\ filt[n] = None
              /\ overlay[n] = "absent" /\ seed[n] = "absent"

\* The definition of n and its filter are what the metadata says.
Applied(n) == LET d == dom[n] IN
    /\ Managed(d)
    /\ d.size = d.meta.size
    /\ d.filterref <=> d.meta.filters # None
    /\ d.meta.filters # None => filt[n] = d.meta.filters

Works(n) == Applied(n) /\ overlay[n] # "absent" /\ seed[n] = "ready"

\* And no filter of that name is left over.
Whole(n) == Works(n) /\ filt[n] = dom[n].meta.filters

\* create is all or nothing: one that rolled back left nothing of its name, and
\* neither does a delete that succeeded.
AllOrNothing ==
    \A c \in Clients : pc[c] = "rolled_back" \/ (pc[c] = "ok" /\ job[c].op = "delete")
        => Nothing(NameOf(c))

\* A create that reports a new server has built all of it, and a reinstall that
\* succeeded has booted a new disk with a complete seed, whatever failed or half
\* finished operations left behind under that name.
CreatedWorks ==
    \A c \in Clients :
        /\ pc[c] = "created" => Works(NameOf(c))
        /\ pc[c] = "ok" /\ job[c].op = "reinstall"
             => overlay[NameOf(c)] = "booted" /\ seed[NameOf(c)] = "ready"

\* As long as no call has failed, a create that succeeded, by building, converging
\* or finding nothing to do, returns a server that is what its spec says.
CreateApplies ==
    \A c \in Clients : faults = 0 /\ pc[c] \in {"ok", "created"} /\ job[c].op = "create"
        => Whole(NameOf(c)) /\ dom[NameOf(c)].meta = job[c].spec

\* Whatever failed before, a convergence that ends well has applied every field in
\* which its spec differs from the metadata it found, and left the others alone.
DifferencesApplied ==
    \A c \in Clients :
        pc[c] = "ok" /\ job[c].op = "create" /\ snap[c].meta # job[c].spec
        => LET d == dom[NameOf(c)]  was == snap[c]  s == job[c].spec IN
           /\ Managed(d) /\ d.meta = s
           /\ d.size = IF s.size = was.meta.size THEN was.size ELSE s.size
           /\ d.filterref <=> IF s.filters = was.meta.filters THEN was.filterref
                                                            ELSE s.filters # None
           /\ s.filters # was.meta.filters => filt[NameOf(c)] = s.filters

\* The guest of c's server went off since c looked at it.
Halted(c) == LET d == dom[NameOf(c)] IN d # None /\ ~d.active

\* Whatever failed before, libvirt refuses nothing the platform asks for, but
\* what needs a running guest that powered itself off since it was looked at, to
\* start a server whose disk or seed a reinstall took that never ended, and to
\* define a filter over the one that is there.
RefusedForAReason ==
    \A c \in Clients : pc[c] \in CallLabels /\ Refused(c) =>
        LET n == NameOf(c) IN
        \/ pc[c] \in {"off", "acpi", "lease"} /\ Halted(c)
        \/ /\ pc[c] = "boot" /\ job[c].op \in {"start", "restart"}
           /\ overlay[n] = "absent" \/ seed[n] = "absent"
        \/ pc[c] \in {"filter", "cv_filter"} /\ filt[n] # None

\* As long as no call has failed, libvirt refuses nothing the platform asks for, but
\* what needs a running guest that powered itself off since it was looked at, and
\* the convergence from one list of rules to another.
NeverRefused ==
    \A c \in Clients : faults = 0 /\ pc[c] \in CallLabels /\ Refused(c) =>
        \/ pc[c] \in {"off", "acpi", "lease"} /\ Halted(c)
        \/ pc[c] = "cv_filter" /\ snap[c].meta.filters # None

\* Differences in memory, vcpus and filters are applied to a stopped server, says
\* create's docstring: without failures, a create that does not build a new server
\* never ends with an error.
ConvergenceSucceeds ==
    \A c \in Clients : pc[c] = "error" /\ job[c].op = "create"
        => snap[c] # None /\ snap[c].meta = None

\* As long as no call has failed, every name nobody works on is a complete server,
\* or nothing of it is left, or another tool's domain.
QuietIsWhole ==
    faults = 0 => \A n \in Names :
        Whole(n) \/ Nothing(n) \/ Foreign(n) \/ \E c \in Clients : Inside(c) /\ NameOf(c) = n

\* A delete that fails has left its server in place.
FailedDeleteKeepsVm ==
    \A c \in Clients : pc[c] = "error" /\ job[c].op = "delete" /\ job[c].spec # None
        => dom[NameOf(c)] # None

\* Every operation that has its lock ends and gives the lock back.
EveryCallReturns == \A c \in Clients : Inside(c) ~> pc[c] = "idle"

\* The table of servers these states stand for: a domain without metadata
\* counts once the create that builds it has given up or died.
Registry == INSTANCE ServerRegistry WITH
    Specs <- Wanted, Absent <- None,
    reg <- [n \in Names |-> IF dom[n] = None THEN None
                            ELSE IF dom[n].meta # None THEN dom[n].meta
                            ELSE IF Building(n) THEN None ELSE Unmanaged],
    on <- {n \in Names : dom[n] # None /\ dom[n].active}

\* Every operation changes the table the way the registry's actions say.
ImplementsRegistry == Registry!Spec
================================================================================
