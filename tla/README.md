# mini-vps-platform: TLA+ models, checks and proofs

This directory models the control plane of mini-vps-platform: a REST API, a
command line and a Prometheus exporter that create, change and remove virtual
machines ("servers") by calling libvirt.  The program is small and its hard part
is not in any one function.  It is in sequences of libvirt calls, each of which
can fail, made by threads of several processes against a host that keeps its own
state, on which guests power themselves off and which may restart at any moment.
The modules describe those sequences, and what several of them do to what they
share; TLC explores them on small instances; TLAPS proves the central results for
any number of clients, names, specs and failures.

Line numbers below are those of `src/mini_vps/*.py`.

## 1. Inventory

| part | state it keeps | operations | talks to |
|---|---|---|---|
| `manager.ServerManager` | `_locks` (name → lock), `_locks_guard` | create (with rollback and convergence), delete, start, stop, restart, reinstall; get, list, status | libvirt, lifecycle, resources, DNS |
| `lifecycle` | none | `ensure_network_active`, `provision`, `teardown`, `wait_for_ip` | libvirt |
| `resources` | none | pools, overlay volume, seed ISO; XML of domains and filters; `resize_domain_xml`, `set_domain_filterref_xml` | libvirt, `cloud-localds` |
| libvirt and the host (external) | domains with their metadata, nwfilters, volumes, pools, networks | the API calls the code makes | guests |
| `dns_registration` | none (records live at the DNS server) | `register`, `unregister`, best effort through `nsupdate` | DNS server |
| `exporter.DomainCollector` | `_mgr`, a cached manager with its connection | `collect`, `_drop_manager` | libvirt |
| `api` | one `ServerManager` and connection per process | routes over `ServerManager`, exceptions to status codes | ServerManager |
| `cli` | nothing between invocations: every call builds a `ServerManager` | subcommands, exceptions to exit codes | ServerManager |
| `spec` | none | validation and defaults, of what users write and of what older versions stored | - |
| `startup_scripts`, `logging_config`, ansible, docker-compose, Prometheus, Grafana | none | templates and configuration | - |

**How they interact.**  API requests run on a thread pool and share one
`ServerManager`; each CLI call is a process with one of its own.  The manager
serialises the write operations on one VM name with a lock that lives in the
manager object; reads take no lock.  libvirt makes single calls atomic and keeps
all that survives a process: the domain definition, the spec as YAML in the
domain's metadata, the filter `minivps-<name>`, the volumes `<name>.qcow2` and
`<name>-seed.iso`.  A domain without that metadata is "unmanaged".  DNS records
are changed after an operation has succeeded and their failure is only logged.

**What is hard.**

* *Partial failure.*  `create` makes about ten calls; one that raises sends it to
  `teardown`, which may fail as well.  A convergence whose last call fails leaves
  domain and metadata disagreeing.
* *Order.*  A filter must exist before a domain refers to it and may only go when
  none does; the disk must not be replaced under a running domain; the seed must
  be complete before the only boot that reads it; DNS is told last.
* *Interleaving.*  Two clients on one name, two clients allocating the lock of one
  name, two processes with different lock tables.
* *Crashes.*  A process may die between any two calls, without running a handler;
  the host may restart, which stops all domains and networks.
* *Shared connections.*  The exporter's scrapes run on threads that share one
  cached manager without a lock; libvirtd may stop in the middle of any of them.
* *Stale reads.*  A guest powers itself off between `isActive()` and the call that
  relied on it; a reader makes three calls without a lock while names change hands.
* *Shared resources.*  Networks and the two storage pools belong to all servers, and
  no lock covers "is it there?" and "then make it".
* *Late effects.*  An `nsupdate` that was killed may still be applied, after other
  updates of the same record.
* *Versions.*  The metadata of a server may be from a version that knew fewer fields;
  it is compared with, and converged to, specs of the present one.
* *Dead connections.*  The API opens its connection once; when libvirtd restarts every
  request fails, and must not say that a server is gone.

**What makes each part correct.**

| part | promise |
|---|---|
| name locks | one mutex per name; different names do not wait for each other; nobody waits for a free lock |
| create | all or nothing; a reported server is complete; rolls back only what it made |
| convergence | changes no running VM; one that ends well has applied every difference; the filter is there while referred to |
| delete/teardown | the filter is free when undefined; DNS goes after the VM; one that succeeds leaves nothing |
| reinstall | the disk of a running server is never taken away; one that succeeds has booted a new disk with a complete seed |
| networks and pools | a server that is about to boot finds all it needs; what races and restarts leave spoils no later operation, but for a pool never built, a pool that did not come back, and missing base images |
| DNS | once both updates of an operation got through, the records are right until something overtakes them; DNS never holds an operation up |
| readers | an answer is about one server; a list misses none that was there throughout |
| front ends | 503 and 404 (exit codes 7 and 3) have a cause in the lifetime of the request; asking for what is there is never a conflict |
| specs | the definition of a server is the one its spec would be built to, after any convergences that were not cut short |
| exporter | a failure of libvirt shows as scrape_success 0, never as an exception; a success misses no managed server and has no other; scrapes recover when libvirtd does |
| all writes | together they act like a table of servers; what is unmanaged is left alone; every call returns |

## 2. Modules

| module | models |
|---|---|
| `ServerRegistry` | the abstract specification of the write operations: a table name → spec, and who is on |
| `ServerManager` | the write operations as sequences of libvirt calls, with failures, crashes, reboots and guests |
| `MCServerManager`, `MCRetry` | instances of it for TLC; `MCRetry` adds a history of the creates whose metadata write failed |
| `NameLocks` | `_lock_for` and `_locked` with the guard, the dictionary and the lock objects |
| `Exporter` | `DomainCollector`: overlapping scrapes over one cached connection, with libvirtd stopping and domains coming and going |
| `VmNames` | the names of servers, as all parts share them |
| `HostResources` | `ensure_network_active`, `ensure_pool`, the refresh of the base images and the listing of volumes in `teardown`, call by call, for several servers |
| `DnsRecords` | `register` and `unregister`: two transactions each, lost answers, late effects |
| `Neighbours` | composes the two: operations on different servers at once, failures, crashes, restarts of the host |
| `MCNeighbours` | its instance for TLC |
| `SpecData` | pure: validation and defaults of a spec, the comparison `create` makes, the domain definition built and edited |
| `FrontEnds` | requests of API and CLI, their connections, the readers call by call, and status and exit codes |
| `MCFrontEnds` | its instance for TLC |
| `NeighboursProofs`, `FrontEndsProofs`, `ExporterProofs` | proofs about those |
| `NameLocksProofs` | proofs about `NameLocks` |
| `ServerManagerProofs` | type correctness of `ServerManager` |
| `ServerSafetyProofs` | the inductive safety invariant of `ServerManager` and what follows from it |
| `ServerWholeProofs` | what the operations of `ServerManager` leave behind: complete servers or nothing, applied differences, explained refusals |
| `ServerRegistryProofs` | `ServerManager` implements `ServerRegistry` |

### ServerManager

*State.*  The host: `dom[n]` is the domain libvirt knows by the name `n` (UUID,
the spec in its metadata, the size and the filter reference in its XML, and
whether it runs) or `None`; `filt[n]` the rules of the filter `minivps-n`;
`overlay[n]` and `seed[n]` the two volumes (`fresh`: created and never booted;
`empty`: created and not yet uploaded); `up` the active networks; `dns` the names
with records.  The program: `holder[m][n]`, who holds the lock of `n` in the
manager object `m`; for a client `c`, `pc[c]`, the libvirt call it makes next,
`job[c]`, the operation with its arguments, and `snap[c]`, the domain as it last
read it, which is also its handle.

*Data.*  A spec is `[rest, size, filters]`: `size` stands for memory and vcpus,
which one function rewrites together; `filters` is a rule list or `None`; `rest`
is every immutable field.  UUIDs matter because a handle finds its domain by
UUID: `Stale(c)` says that it is gone or another.

*Actions.*  One per call that changes the host: pc labels are named for the call.

| code | actions |
|---|---|
| `_locked` (242-260) | `Begin`, `Return` |
| `create` (294-336) | `Find...` (nothing, conflict, equal, running, different), `WriteSpec`, `Boot`, `RegisterDns`, `Read` |
| the `get` that ends every write but `delete` (380-391, 202-215) | `Get` (lookup, metadata, state), `ReadLease` |
| its `except` (303-306) | `Fail` with `HandlerOf`, then the teardown actions |
| `provision` and the functions it calls | `EnsureNetwork`, `DefineFilter`, `DeleteOldSeed`, `CreateSeed`, `UploadSeed`, `DeleteOldDisk`, `CreateDisk`, `DefineDomain` |
| `_converge` (338-378) | `DefineFilter`, `RedefineDomain`, `UndefineFilter`, `WriteSpec` |
| `delete`, `start`, `stop`, `restart`, `reinstall` | `LookupNothing`, `LookupServer`, `CheckActive`, `PowerOff`, `AskGuest` and the shared ones |
| `teardown` (lifecycle 90-130) | `FindDomain`, `PowerOff`, `UndefineDomain`, `RemoveFilter`, `RemoveDisk`, `RemoveSeed`, `UnregisterDns` |
| guests, crashes, host restarts | `GuestHalt`, `Crash`, `Reboot` |

*What libvirt does.*  `Refused(c)` lists the states in which libvirt refuses a call: an
operation on a domain that is gone, `create()` of a running domain or one without its
volumes, networks or filter, `defineXML` of a name that exists with another UUID,
`undefine()` of a filter in use, creating a volume that exists, `interfaceAddresses()`
of a guest that is off.  `nwfilterDefineXML` of a name that exists is refused too: the
template has no `<uuid>` (config.py:133-134), so libvirt makes one up, and a filter of
that name has another.  So what `_converge` calls a redefinition (manager.py:367) never
succeeds.  A refused call raises.  A call in `Faulty` may also raise for a reason of its
own, at most `MaxFaults` times.

*Abstractions.*  A call that raises has had no effect on libvirt (a call that
takes effect and then loses its answer is not modelled).  Pure reads that only
the lock holder can invalidate belong to the step that uses them; `isActive()`
belongs to the step whose branch it decides, while the call it leads to is a
later step, so a guest may power off in between.  A waiting caller holds nothing
and has done nothing, so it counts as idle, and `Begin` is the moment the lock is
granted; `NameLocks` models the wait.  Rendering, YAML and XML text are left out.
Networks are modelled as far as one operation needs them (`up`), the pools not at
all: `Neighbours` has both, and the races on them.

### NameLocks

`NameLocks` takes `_lock_for` apart: under `_locks_guard`, look up the name in
the dictionary (`Look`), allocate a lock object (`Allocate`, which Python
evaluates even if the name is there), insert it (`Insert`, which returns the one
already there), leave the guard; then `_locked`: a non-blocking attempt
(`TryFails` if it does not succeed), a blocking one (`Acquire`), the body and
`Release`.

### VmNames, HostResources, DnsRecords, Neighbours

`HostResources` holds what the operations on all servers share: which networks and pools
are `active`, and for pools whether libvirt knows them (`defined`), whether their
directory exists (`built`) and whether they come back with the host (`autostart`).
`Base` is the pool of base images: `create_overlay_volume` looks it up and refreshes it
(resources.py:126-128) and nothing in `src/` sets it up, so it is active at first and
after a restart of the host it may or may not be.  `todo[n]` is the list of resources
the operation on `n` still has to go through and `at[n]` its next call for the first of
them; a look at a resource and the call it leads to are different steps.  `CallRefused`
has the states in which libvirt refuses a call.

`DnsRecords` holds `records[k]`, the A records of a name and the PTR records of an
address, `script[n]`, the transactions still to send, and `late`, those that got no
answer and that the DNS server applies some day or never.  `inEffect[n]` counts the
updates of the last operation on `n` that got through and that nothing overtook; it
is history, for `RegisteredStays`.

`Neighbours` composes them with an operation per server: `op[n]`, `phase[n]`, and
`vm[n]`, the server itself (absent, off, on).  `calm` is history: the operations
that met no failure and no other operation.

| code | actions |
|---|---|
| `ensure_network_active` (lifecycle 22-29) | `Check`, `Activate` |
| the base images (resources 126-128) | `Check` of `Base` |
| `ensure_pool` (resources 97-113) | `Check`, `Activate`, `DefinePool`, `BuildPool`, `CreatePool`, `SetAutostart` |
| the volumes in `teardown` (lifecycle 115-130) | `ListVolumes` |
| `register`, `unregister`, `_nsupdate` | `Send`, `SendFails`; the DNS server: `Land` |
| `create`, `boot`, `reinstall`, `delete` in this view | `Begin`, `Ensure`, `Complete`, `Update`, `UpdateFails`, `Succeed`, `Fail`, `Return` |
| the host | `Crash`, `Reboot`, `Landing` |

*Abstractions.*  What an operation does to its own server is one step (`Complete`,
or `Interrupted` where an operation that fails or dies has cut the power);
`ServerManager` has it in detail.  `boot` stands for the two operations that boot a
server as it is, `start` and `restart --force` (manager.py:459, 513): both make sure of
its networks, and the second has cut the power before.  `stop`, and `restart` without
`--force`, touch nothing that is shared.  Neither does a convergence: it uses no
network and no pool and sends no DNS update (manager.py:330-336).  Every server has a
static address, and `IpsOf[n]` has those that its specs may declare.  A process may run
without the three environment variables of the DNS opt-in: `Complete` then sends
nothing.

### SpecData and FrontEnds

`SpecData` is pure.  A spec is a function from six fields to values; `size` stands
for memory and vcpus, `disk` for image, disk size and user, `routes` for static
routes, startup script and name servers.  `Filled` is `ServerSpec(...).model_dump()`;
`Completed` passes stored metadata through it again, as `create` does before it
compares; `StoredBefore` is the metadata an older version wrote, without the fields
`LateFields`.  `Built` is the definition `build_domain_xml` makes (memory, current
memory, a MAC, network and filter reference per NIC); `Resized` and `Refiltered` are
the two edits of `_converge`.

`FrontEnds` has the domains (`dom`), the names that have a filter (`walls`), the spec
each server has accepted (`want`), and of each server the specs it was given a
definition of without the metadata (`torn`, history).  It has a request per client.
`pc[c]` is its next libvirt call, `live[c]` whether its connection works, `handles[c]`
the domains it still reads from and `read[c]` those its answer is made of, `answer[c]`
the status or exit code. `seen[c]` is history: which servers were there throughout,
ever, gone or halted during the request, and whether its connection broke.

| code | actions |
|---|---|
| a request arrives; `libvirt.open` of a CLI call (cli 78-93) | `Begin`, `Open`, `Finish` |
| validation (api 172, cli 178-195, spec) | `RejectInput` |
| a malformed `--startup-param` (cli 96-112), a seed that cannot be made (manager 298-305, api 111-118, cli 158) | `LocalError` |
| `create` of a free name: the lookup, and all the rest | `FindFree`, `Create` |
| `create` of a name that is taken, with `_converge` | `CreateAgain`, `Converge` |
| the other writes | `Power`, `Delete`, `Missing` |
| a write one of whose libvirt calls fails | `WriteFails`: `CreateFails`, `ConvergeFails`, `PowerFails`, `DeleteFails` |
| `get`, `status` (manager 380-391, 409-419) | `Lookup`, `CheckMetadata`, `ReadSpec`, `ReadState`, `ReadLease`, `Vanished` |
| `list` (manager 393-399) | `ListAll`, `Each`, `ListEnds` |
| `libvirtError` of a broken connection | `Broken` |
| the exception handlers (api 85-133, cli 124-163) | `HttpStatus`, `ExitCode`, `CodeOf` |
| the rest of the host | `GuestHalt`, `OtherTool`, `StopLibvirtd`, `StartLibvirtd`, `RestartApi` |

*Abstractions.*  A write that succeeds takes effect in one step, but that `create` looks
the name up one step before, and then reads the server back like `get`, as the code
does.  A write on a connection that works fails when one of its calls does: an image or
a network is missing, the guest cannot be destroyed, the disk is full (`WriteFails`),
the filter is there already (`Clashes`) or somebody else has defined the name since the
lookup (`Create`).  What it leaves then is one of the states in which the calls of
`ServerManager` may stop: of a create nothing, or what its rollback could not remove; of
a convergence the filter, or filter and definition without the metadata; of a delete a
server without power, or volumes and filter without the domain. `result[c]` is then
"failed" and the answer 503 or 7.  The name lock is in `NameLocks` (API clients still
exclude each other per name here, `LockedOut`).  At the start names may belong to
servers of an older version or to domains of other tools. `get` stands for `status`,
which makes the same calls; `power` for the four operations that leave domain and spec
as they are but for the power.  Nothing else happens between an answer and its end, so
that "when the request was answered" is a state.  An input that fails validation for any
reason is one kind of input (here, a network twice).

### Exporter

*State.*  `mgr` is `self._mgr` (the connection of the cached manager); a scrape
`s` has the position `pc[s]` in `collect`, the connection its statistics came from
(`conn[s]`, which the domain handles keep), the handles to visit (`left[s]`), the
one passed to `is_managed` (`asking[s]`) and the domains with metrics
(`reported[s]`).  The host has `up`, the connections that are open (`usable`) or
closed by a scrape (`closed`), and for each domain whether it is absent, `bare`
(no spec metadata) or managed.  `marked` and `overlap` are history.

| code | actions |
|---|---|
| a request arrives, `collect` builds its families (115-201) | `Scrape` |
| `if self._mgr is None`, the factory (204-205) | `CheckManager`, `Connect`, `ConnectFails` |
| `self._mgr.conn`, `getAllDomainStats()` (206) | `ReadManager`, `GetStats`, `GetStatsFails` |
| `_drop_manager` (106-113) | `Drop`, `Close`, `Clear` |
| the loop (214-254) | `Visit`, `Report`, `Skip` |
| the yields (256-273) | `Succeed`, `Respond` |
| libvirt | `Define`, `Mark`, `Undefine`, `StopLibvirtd`, `StartLibvirtd` |

*Abstractions.*  Each read and each write of `self._mgr` is a step, because
nothing protects it; that includes the two reads in `_drop_manager`.  A domain
stands for one UUID.  A call over a connection that another scrape closed, while
handles still refer to it, may be answered or raise.  Connections break only
because libvirtd stops.  `dom.name()` makes no call, so it belongs to the answer of
`is_managed`.  The values of the metrics, and which ones a stopped domain has, are
left out.

## 3. Runs

Every run is exhaustive for its instance.

| run | instance | shows |
|---|---|---|
| `core_faults` | 2 clients of 1 process, 1 name, 5 specs, any two calls fail, crash, reboot, halt | TypeOK, RunningDiskIntact, FilterBacked, RollbackOwnsDomain, CreatedWorks, AllOrNothing, DifferencesApplied, RefusedForAReason, UnmanagedUntouched, LiveVmNotReconfigured, DnsRemovedAfterVm, and that the operations implement `ServerRegistry` |
| `core_one_failure` | 2 clients of 1 process, 1 name, 5 specs, at most one failing call, guests halt, fair | FirstBootSeeded, EveryCallReturns; as long as no call has failed NeverRefused, QuietIsWhole, CreateApplies |
| `name_locks` | 3 threads, 2 names, fair | TypeOK, MutualExclusion, OneLockPerName, BlockedBySameName, WaitedForIsHeld: one mutex per name |
| `exporter_scrapes` | 2 scrapes, 2 domains, 3 connections, one stop of libvirtd, fair | TypeOK, AloneNeverRaises, CompleteWhenConnected, ReportedOnlyManaged, Recovers |
| `neighbours` | 2 servers on 1 network, 2 pools and the base images, 2 addresses, 3 operations, any 2 failures, crashes or restarts, fair | TypeOK, ReadyWhenBuilt, AloneSucceeds, RegisteredStays, EveryOperationEnds |
| `front_ends` | 1 API client, 1 CLI client, 2 names, 4 inputs, 3 UUIDs, 3 requests, 1 other event | TypeOK, OneServerRead, ListComplete, UnavailableHasCause, NotFoundHasCause, DefinitionMatchesSpec, SameYamlAccepted |
| `two_processes` | 2 clients of 2 processes, no failures | **violation** of RollbackOwnsDomain |
| `failed_delete` | 2 clients of 1 process, one failing call, guests halt | **violation** of FailedDeleteKeepsVm |
| `retry` | 1 client, 3 specs, two failing calls | **violation** of RetryHeals |
| `refiltered` | 2 clients of 1 process, 5 specs, no failures, no halts | **violation** of ConvergenceSucceeds |
| `exporter_raises` | 2 scrapes, 1 domain | **violation** of NeverRaises |
| `exporter_partial` | 1 scrape, 2 domains | **violation** of SuccessIsComplete |

*Why these bounds.*  Operations on different names touch disjoint parts of the host
except the networks, which only a restart of the host takes down, so one name suffices
for the properties of a name; what several names share is the subject of `neighbours`
and `name_locks`.  Two clients are enough for every race on a name, because a name has
one holder at a time, and a third would only be another waiter.  The five specs differ
in every way the code distinguishes: in nothing, in the size, in the presence of a
filter, in its rules, in the immutable fields; one of them takes a lease, so that its
address is read from a running guest.  Two failures let a rollback or a retry fail as
well; what needs more repeats them.  A domain and the handle of whoever is inside an
operation are all that has a UUID, so two per name never run out.  `core_one_failure` is
a run of its own because FirstBootSeeded is false with two failures (section 5), and
because a fair specification admits no symmetry.  NeverRefused, QuietIsWhole and
CreateApplies say what happens when nothing goes wrong; a failure makes them false for
good reasons (a failed teardown leaves volumes).

In `Exporter`, two scrapes and the
connection of `self._mgr` refer to at most three connections, so `Conns` never runs out;
two domains let one vanish while the other must be reported; domains are defined and
removed without bound, and one stop (`MaxStops`) already breaks the connection at every
point of two scrapes.

In `Neighbours`, two operations suffice for every race on a resource, and a third
shows what a race left behind; the first operation that finds the host without pools
meets all of `ensure_pool`.  Both servers are on one network, which is what they can
share; one always declares the first address, the other that one or the second, so that
they share an address, have one each, or the other changes its own.  Two failures let a
pool be activated without autostart and the host restart before the pool is needed.

In `FrontEnds`, one client reads while the other writes, as two processes that share no
lock; with one API client `LockedOut` never bites, which only removes interleavings that
the name locks exclude anyway.  Three requests are enough for a delete and a create
of a name during a read, and for two convergences before a third request asks for the
same spec.  The one event is at every point of those: a libvirt call of a write that
fails and what it leaves, a guest that halts, a domain of another tool under the name,
a stop of libvirtd.  Two events in one behaviour are left to the theorems.  The inputs are
two NICs that take leases (so `ReadLease` happens), the same with a larger size and a
filter, a static NIC with a route, and a malformed one; three UUIDs let a name have
three lives.  The theorems of section 5 remove these bounds.

`neighbours` and `front_ends` say CHECK_DEADLOCK FALSE: their behaviours are bounded
by the number of operations or requests, and when those are used up everything rests.

*Fairness.*  `FairSpec` has weak fairness on every step of an operation under way
(`Advance(c)`): threads are scheduled and libvirt answers or raises.  There is
none on `Begin` (nobody has to ask), on guests, crashes or reboots.  In
`NameLocks` it is on the steps of a thread inside `_locked`; Python locks are not
fair, and no property says that a waiting thread gets the lock, only that a lock
somebody waits for does not stay free (`WaitedForIsHeld`).

In `Neighbours` it is on `Work(n)`, the steps of an operation: threads are scheduled,
libvirt answers, and `nsupdate` answers or is killed by its timeout of 15 seconds,
which is `UpdateFails`.  The DNS server owes nothing, so `Landing` has no fairness, and
neither have crashes and restarts.

In `Exporter` it is on the steps of every scrape and on the start of some scrape
(Prometheus scrapes at an interval); `Recovers` itself supposes that libvirtd stays
up and that scrapes no longer overlap.  Without the latter it is not claimed: two
scrapes that overlap for ever may drop each other's new connections for ever.

## 4. Disagreements between the code and its documentation

1. **Two processes** (`two_processes`).  README.md:25 says that writes are
   serialised by a lock per VM name, and manager.py:166-167 that `create()` cannot
   drag existing resources down.  The locks belong to a manager object
   (manager.py:230) and every CLI invocation builds its own (cli.py:91).  A
   `create` of the CLI and one of the API can both find no domain; the second
   `defineXML` is refused and its rollback tears down the first one's server.
2. **A failed delete** (`failed_delete`).  manager.py:436-437 equates a failed
   teardown with a VM that is still there.  `teardown` undefines the domain before
   filter and volumes, so it can fail with the VM gone; the DNS record stays, and a
   second `delete` answers "not found".
3. **Retrying a convergence** (`retry`).  manager.py:332-334 says that running
   `create()` with the same spec again repairs a convergence whose metadata write
   failed.  Differences are computed from the metadata, so after failed attempts
   with B and then C, a retry of B changes only what B and the old metadata differ
   in, and reports success with C's other change still in place.  What does hold,
   whatever failed before, is DifferencesApplied: a convergence that ends well has
   applied every field in which its spec and the metadata it found differ.  So the
   claim is true where the specs that are tried share no field (theorem
   `ConvergenceIsApplied`), and only if they change no filter: a retry whose filter the
   first try had got to define is refused (4).
4. **New rules for a filter** (`refiltered`).  manager.py:268-270 says that a difference
   in `filters` is applied to a stopped server, and manager.py:332-334 that every
   transition is idempotent; tests/test_manager.py:710 expects a change from one list of
   rules to another to redefine the filter, with a mock for libvirt.  The XML has no
   UUID, so libvirt refuses to define a filter over one of that name: the change ends
   in an error, and so does its retry.

5. **Overlapping scrapes** (`exporter_raises`).  exporter.py:122-123 says that a
   failure to talk to libvirt does not propagate as an exception.  The scrape that
   fails drops `self._mgr` while another one is between its check and its use of it,
   or in its loop; that one raises AttributeError, which is not caught, and answers
   with an error instead of scrape_success 0.  One scrape at a time never does
   (`AloneNeverRaises`, proved).
6. **libvirtd stops in the loop** (`exporter_partial`).  By exporter.py:122-125 only
   a domain that vanished is skipped, and scrape_success is 0 if libvirt cannot be
   reached.  The handler at line 221 takes both for the same: every remaining
   server is skipped and scrape_success is 1.

Four more observations have no run of their own:

* README.md:423 says that errors of the input are answered 422.  `put_server` builds
  `ServerSpec(name=name, ...)` inside the handler (api.py:172), where a
  ValidationError is no RequestValidationError: a PUT with a malformed name in its
  path is answered 500.  `RejectInput` has what the code does.
* AloneSucceeds names what races and restarts leave for good: a pool that was defined
  but whose `build` failed or never came is found by every later `ensure_pool`, which
  only activates it, and so every create fails until someone builds it by hand; a pool
  that was activated, but whose `setAutostart` was never reached, stays down after a
  restart of the host, and `delete` fails when it lists its volumes.  It also names the
  pool of base images, which nothing here sets up or activates.
* create's docstring calls it all or nothing (manager.py:272-273), but it ends with a
  `get` outside its `try` (line 311).  When the guest of a new server has powered itself
  off between `state()` and `interfaceAddresses()`, create raises and the built,
  registered server stays.  RefusedForAReason and UnavailableHasCause have the case.
* With two processes LiveVmNotReconfigured is false too, for the reason of (1): one finds
  the server off, the other starts it, and the first converges it while it runs.

## 5. Proofs

TLAPS checks everything below for any constants that satisfy the assumptions of
the modules (`ConstantsAssumption`, `LocksAssumption`, `ExporterAssumption`,
`NeighboursAssumption`, `FrontEndsAssumption`): any sets of clients, processes, names,
networks, specs, addresses and UUIDs, any set of failing calls, any number of requests
and failures, any environment.  `FrontEndsAssumption` says of `LateFields` that
required fields were always there.

| theorem | statement |
|---|---|
| `TypeCorrect` | `Spec => []TypeOK` |
| `DiskIntact`, `FilterFound`, `FilterFree`, `RollbackOwns` | `OneProcess => (Spec => []I)` for RunningDiskIntact, FilterBacked, RollbackOwnsDomain, and for FilterFreeWhenUndefined of `ServerSafetyProofs`: nobody undefines a filter that a domain refers to |
| `LiveVmUntouched`, `UnmanagedSafe`, `DnsAfterVm` | `OneProcess => (Spec => P)` for the action properties LiveVmNotReconfigured, UnmanagedUntouched, DnsRemovedAfterVm |
| `CreatedIsBuilt`, `RollbackIsComplete`, `DifferencesAreApplied`, `RefusalsAreExplained` | `OneProcess => (Spec => []I)` for CreatedWorks, AllOrNothing, DifferencesApplied, RefusedForAReason |
| `ConvergenceIsApplied` | `OneProcess /\ NoFieldShared => (Spec => []ConvergenceApplies)`: if no two specs of a server share a field that can be converged, a convergence that ends well leaves what its spec says |
| `CalmNeverRefused`, `CalmQuietIsWhole`, `CalmCreateApplies` | `OneProcess /\ NoCrash => (Spec => []I)` for NeverRefused, QuietIsWhole, CreateApplies, which say what holds as long as no call has failed |
| `FirstBootIsSeeded` | `OneProcess /\ NoCrash /\ MaxFaults <= 1 => (Spec => FirstBootSeeded)` |
| `RegistryImplemented` | `OneProcess => (Spec => ImplementsRegistry)`: every step is a step of `ServerRegistry` or none |
| `LockTypes`, `LocksExclude`, `LocksAreShared`, `WaitsAreForOneName` | `NameLocks` has TypeOK, MutualExclusion, OneLockPerName, BlockedBySameName |
| `ExporterTypes`, `ExceptionsNeedOverlap`, `ResponseComplete`, `ResponseManaged` | `Exporter` has TypeOK, AloneNeverRaises, CompleteWhenConnected, ReportedOnlyManaged |
| `Types`, `ReadyToBoot`, `Alone`, `Registered` of `NeighboursProofs` | `Neighbours` has TypeOK, ReadyWhenBuilt, AloneSucceeds, RegisteredStays |
| `Types`, `ReadsOneServer`, `ListsAll`, `UnavailableExplained`, `NotFoundExplained`, `DefinitionsMatch`, `SameYamlIsAccepted` of `FrontEndsProofs` | `FrontEnds` has TypeOK, OneServerRead, ListComplete, UnavailableHasCause, NotFoundHasCause, DefinitionMatchesSpec, SameYamlAccepted |

*The argument for `ServerManager`.*  `OneProcess` (all clients call one manager)
is needed: run `two_processes` refutes RollbackOwnsDomain without it.  The type
invariant is not inductive alone: `job[c].spec` is a spec only from the lookup on,
some labels belong to some operations only.  `TInv` adds that (`LocalInv`).  The
safety invariant `SInv` has four parts:

* `HasLock(c)`: whoever is inside an operation holds the lock of its name in its
  manager.  With one manager, two clients inside have different names
  (`NamesDiffer`), so a step of one leaves what the other knows (`CallFrame`).
  That lemma replaces all reasoning about pairs of clients.
* `DomainKnown(c)`: what the position of `c` says about its domain: none while a
  new server is prepared, the one this create defined between `defineXML` and its
  boot, a managed one after a lookup, off at the calls in `OffLabels`.  It is
  here that guests may power off at any time: everything said is stable under it
  (`PowerOffKeeps`).
* `FilterReady(c)`: the filter named by the definition about to be made exists.
* `NameInv(n)`: a running managed domain has its disk, a filter reference its
  filter.

Each group of actions has one lemma; a crash makes clients idle, of which nothing
is said.  `RegistryImplemented` uses the same invariant: calls that leave domains
alone are stutters of the registry, unless a rollback gives up and strands a
domain; the six calls that change domains are its Create, Update, PowerOn,
PowerOff and Remove; crashes and reboots are its Strand.

`ServerWholeProofs` goes on from `SInv`.  Its invariant `PInv` says what the position
of a client says about the parts of its server, whatever failed before and whatever
crashes left: the handle is good (`HandleKnown`), how far seed and disk
are rebuilt and which networks are up (`SeedKnown`, `DiskKnown`), what a create has
built (`NewKnown`), what a teardown has removed (`TeardownKnown`), how the definition
differs from the one a convergence started from (`ConvergeKnown`), and which operations
come to which call (`RouteKnown`).  All of it is about one name and stable under
power-offs (`PartsKept`), and only the lock holder touches the parts of a name
(`AdvanceFrame`, `OthersKept`).  `Refusals` goes through all calls and finds that these
facts exclude every refusal but three: of a call that needs a running guest, where the
guest has halted (`destroy`, `shutdown` or `reboot`, and the lease); of the boot of a
server whose disk or seed a reinstall took that never ended; of the definition of a
filter that is there.  That lemma carries the rest of the module.

`CalmInv` says, as long as `faults = 0`, that every name is `Settled` (a complete
server, free, or without metadata) or has a client at work, and of that client what it
has taken apart so far.  It needs `NoCrash` (no crash and no restart of the host; guests
may power off): a process that dies half way leaves half a server with no failed call.
Two calls may be refused without failures: one that needs a running guest, of a guest
that has halted, and the convergence from one list of rules to another.  Both leave
their server whole, so the client that is refused returns a settled name.

`FreshInv`, for at most one failure, says of a disk nobody booted that its client is
about to boot it, with a complete seed (`Fitted`), or that the failure is spent, so that
the seed is there or being rebuilt by a call that cannot fail any more.  With two
failures it is false, and so is FirstBootSeeded: a reinstall fails at the boot, the next
one at the upload of the seed, and `start` boots the fresh disk from an empty seed.

*The argument for `NameLocks`.*  The guard makes lookup and insertion atomic: the
thread inside the guard is alone there, and the dictionary entry of a name, once
made, never changes; so all threads past `_lock_for` with one name have one lock.
A lock object is in the dictionary for one name only (`TableInv`) and its owner is in
the block with it (`HeldInv`), so whom a thread waits for works on the same name.

*The argument for `Exporter`.*  While a scrape is alone, nobody else is at a step
that clears `self._mgr` (`AloneInv`), so what it saw there stays (`ManagerInv`).
For completeness, every managed server of the statistics is reported, still to be
visited or being asked about (`VisitInv`) as long as the connection of the handles
is usable; a new connection is never one that a handle refers to.

*The argument for `Neighbours`.*  Three invariants, each on the type invariant with
`HeadFits` (what the label of an operation says of the resource it is at).  `Ensured`:
every resource of an operation is still on its list or active; only a restart makes
resources inactive, and it ends all operations; so one whose list is empty can boot.
`CalmFits`: an operation that is calm finds what it saw still true at its next call
(`StillTrue`), because nobody else has moved; so only what a pool was left in before, or
that the base images are not there, can refuse it (`RefusedExcused`).  `DnsFits`: what a
script still has to send is right for the server as it is, and what got through and was
not overtaken is in the records; `inEffect` counts just that.

*The argument for `FrontEnds`.*  `HostInv` says of every server that its metadata,
completed, is what was accepted, and its definition what that would be built to, unless
a convergence was cut short between `defineXML` and `_write_spec` (`torn`).  Then it has
the size of one and the filter of another of the specs accepted or cut short, and where
only one was cut short, its convergence, run again to the end, makes all agree.
`ConvergedBuilt` (the edits of what is built from one spec are what is built from the
other, if they differ in mutable fields) and `CompletedOld` (completion undoes what an
older version left out) carry it over a convergence.  DefinitionMatchesSpec says no more
than that, and run `retry` shows why: after two specs were cut short, a convergence to
one of them leaves what the other changed.  `DomStep` lists all that any step does to
domains.  For answers, `CInv` says what the position of a request knows (`SeenFits`):
its handle is of the domain that has the name or it saw that one go (`HandleFits`); a
list in progress has, or still visits, all that was there throughout (`ListFits`); an
answer is justified by what was seen, or, if it is 503 or 7, by a call of the write that
failed or was refused (`Justified`); a get, a status or a list has no such excuse.  Two
lemmas replace reasoning about pairs of clients: a step moves one client (`OneMoves`),
and a UUID that somebody holds comes to no other domain (`OwnersStay`), so what the
others know stays true (`SameStep`).

*Only model-checked.*  The liveness properties EveryCallReturns, WaitedForIsHeld,
Recovers and EveryOperationEnds: liveness under fairness, and ENABLED, are out of reach
of the installed provers.  All other properties of the passing
runs are theorems, under the hypotheses named in the table.  The
properties of the runs that expect a violation are, of course, not.

## 6. Not modelled

* The contents of the seed (user-data, network-config, startup scripts) and of the
  filter: a rendering that fails is a failure of the step that makes the seed
  (`CreateSeed` of `ServerManager`, `LocalError` of `FrontEnds`).
* The values of the metrics (`_parse_domain_stats`): which metrics a scrape answers
  with is modelled by domain, not by value.
* `wait_for_ip`, which nothing in `src/mini_vps` calls and which only polls.
* Patterns and ranges in `spec`: every input that fails validation is one input.
* Printing, usage errors and logging of the CLI; `logging_config`.
* Collisions of the 24 bits of a MAC address: probability, not steps.
* Ansible, docker-compose, Prometheus and Grafana: configuration without state that the
  code depends on, except that their networks and pools exist or not, which is an
  initial state here.
* A libvirt call that takes effect and then loses its answer: the code treats it like
  one that failed, and no comment or test claims more.

## 7. Plan

Done, in this order: `NameLocks`, `ServerRegistry`/`ServerManager`,
`Exporter`, `HostResources`/`DnsRecords`/`Neighbours`, `SpecData`/`FrontEnds`, their
runs, the proofs of section 5.  Next:

1. What a crash may leave: an invariant for QuietIsWhole that names the halves which a
   process that dies leaves behind, so that `NoCrash` can go.
2. `_parse_domain_stats` and the metrics of stopped domains, as a definition over
   bounded statistics.
3. A `FrontEnds` whose writes are those of `ServerRegistry`, so that the two
   abstractions of a write are related by a refinement and not by inspection.
