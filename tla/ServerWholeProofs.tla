---------------------------- MODULE ServerWholeProofs ----------------------------
(***************************************************************************)
(* What the operations of one process leave behind: that a server which is *)
(* reported as built is whole, that a rollback leaves nothing, what a      *)
(* convergence applies, what libvirt can refuse, and what holds as long as *)
(* no call, or at most one, fails.  The invariant adds to SInv what the    *)
(* position of a client says about the parts of its server.                *)
(***************************************************************************)
EXTENDS ServerSafetyProofs

\* The handle of c refers to the domain of its name.
HandleKnown(c) ==
    (\/ pc[c] \in ConvergeLabels \cup {"write", "boot", "acpi", "td_undefine",
                                        "dns", "get", "lease"}
     \/ pc[c] \in HaveLabels /\ job[c].op # "create")
    => snap[c] # None /\ ~Stale(c)

\* Where c stands in rebuilding the seed.
SeedKnown(c) == LET s == seed[NameOf(c)] IN
    /\ pc[c] = "seed_create" => s = "absent"
    /\ pc[c] = "seed_upload" => s = "empty"
    /\ pc[c] \in {"check", "disk_delete", "disk_create", "define", "write"} => s = "ready"
    /\ pc[c] \in {"off", "net"} /\ job[c].op = "reinstall" => s = "ready"
    /\ pc[c] = "boot" /\ job[c].op \in {"create", "reinstall"} => s = "ready"
    /\ pc[c] \in {"dns", "get", "lease", "ok"} /\ job[c].op = "reinstall" => s = "ready"

\* Where c stands in rebuilding the disk, and in bringing the networks up.
DiskKnown(c) == LET o == overlay[NameOf(c)] IN
    /\ pc[c] = "disk_create" => o = "absent"
    /\ pc[c] \in {"define", "write"} => o = "fresh"
    /\ pc[c] = "net" /\ job[c].op = "reinstall" => o = "fresh"
    /\ pc[c] = "boot" /\ job[c].op \in {"create", "reinstall"} => o = "fresh"
    /\ pc[c] \in {"dns", "get", "lease", "ok"} /\ job[c].op = "reinstall" => o = "booted"
    /\ pc[c] = "boot" \/ (pc[c] \in (NewLabels \cup {"write"}) \ {"net"} /\ job[c].op = "create")
         => NetsOf[job[c].spec.rest] \subseteq up

\* What c has built so far, if it builds a new server.
New(c) == /\ job[c].op = "create"
          /\ \/ pc[c] \in {"write", "boot", "dns", "created"}
             \/ pc[c] \in {"get", "lease"} /\ snap[c].meta = None

NewKnown(c) == LET n == NameOf(c)  d == dom[n]  s == job[c].spec IN
    /\ pc[c] \in NewLabels \ {"net", "filter"} /\ job[c].op = "create"
         /\ s.filters # None => filt[n] = s.filters
    /\ pc[c] = "created" => job[c].op = "create"
    /\ New(c) => /\ snap[c].meta = None
                 /\ d # None /\ d.size = s.size /\ (d.filterref <=> s.filters # None)
                 /\ s.filters # None => filt[n] = s.filters
                 /\ seed[n] = "ready" /\ overlay[n] # "absent"
                 /\ pc[c] # "write" => d.meta = s

\* What is gone where c stands in the removal of its server.
TeardownKnown(c) == LET n == NameOf(c) IN
    /\ pc[c] \in {"td_disk", "td_seed"} => filt[n] = None
    /\ pc[c] = "td_seed" => overlay[n] = "absent"
    /\ pc[c] \in {"td_dns", "rolled_back"} => Nothing(n)
    /\ pc[c] = "ok" /\ job[c].op = "delete" => Nothing(n)

\* The definition of n differs from what it was as s differs from its metadata.
Rewritten(n, was, s) == LET d == dom[n] IN
    /\ d.size = IF s.size = was.meta.size THEN was.size ELSE s.size
    /\ d.filterref <=> IF s.filters = was.meta.filters THEN was.filterref
                                                       ELSE s.filters # None
    /\ s.filters # was.meta.filters /\ s.filters # None => filt[n] = s.filters

\* Where c stands in a convergence, or found that there is nothing to do.
ConvergeKnown(c) ==
    LET n == NameOf(c)  d == dom[n]  was == snap[c]  s == job[c].spec IN
    /\ pc[c] \in {"cv_filter", "cv_define"} => d.size = was.size /\ d.filterref = was.filterref
    /\ pc[c] = "cv_define" /\ s.filters \notin {None, was.meta.filters} => filt[n] = s.filters
    /\ pc[c] = "cv_undefine" => s.filters = None
    /\ pc[c] \in {"cv_undefine", "cv_write"} => Rewritten(n, was, s)
    /\ pc[c] = "cv_write" /\ s.filters # was.meta.filters => filt[n] = s.filters
    /\ pc[c] = "ok" /\ job[c].op = "create" => was.meta # None
    /\ pc[c] \in {"get", "lease", "ok"} /\ job[c].op = "create" /\ was.meta # None =>
         /\ d # None /\ d.meta = s
         /\ was.meta \in Wanted /\ was.meta.rest = s.rest
         /\ s # was.meta => /\ Rewritten(n, was, s)
                            /\ s.filters # was.meta.filters => filt[n] = s.filters

\* The operations that do not come to where c stands.
RouteKnown(c) ==
    /\ pc[c] \in {"acpi", "td_dns"} => job[c].op \notin {"create", "reinstall"}
    /\ pc[c] \in {"disk_delete", "disk_create"} => job[c].op \in {"create", "reinstall"}
    /\ job[c].op = "stop" =>
         pc[c] \in {"lookup", "off", "acpi", "get", "lease", "ok", "notfound", "error"}
    /\ job[c].op = "delete" =>
         pc[c] \in {"lookup", "off", "td_find", "td_undefine", "td_filter", "td_disk", "td_seed",
                   "td_dns", "ok", "notfound", "error"}

PartsKnown(c) == /\ HandleKnown(c) /\ SeedKnown(c) /\ DiskKnown(c) /\ NewKnown(c)
                 /\ TeardownKnown(c) /\ ConvergeKnown(c) /\ RouteKnown(c)

PInv == \A c \in Clients : pc[c] # "idle" => PartsKnown(c)

--------------------------------------------------------------------------------
(* As long as no call fails.                                               *)

\* Nobody works on n, or not yet, or no longer.
Settled(n) == Whole(n) \/ Nothing(n) \/ (dom[n] # None /\ dom[n].meta = None)

\* Whole, but perhaps for its disk or its seed.
WholeDefinition(n) == Applied(n) /\ filt[n] = dom[n].meta.filters

CalmClient(c) ==
    LET n == NameOf(c)  op == job[c].op  s == job[c].spec  was == snap[c] IN
    /\ pc[c] \in {"find", "lookup"} \cup Outcomes => Settled(n)
    /\ pc[c] \in {"net", "filter"} /\ op = "create" => Nothing(n)
    /\ pc[c] \in {"seed", "seed_create", "seed_upload", "disk_delete"} /\ op = "create"
         => overlay[n] = "absent"
    /\ pc[c] \in NewLabels \ {"net", "filter"} /\ op = "create" => filt[n] = s.filters
    /\ New(c) => filt[n] = s.filters
    /\ pc[c] \in TeardownLabels => op = "delete"
    /\ pc[c] \in {"seed", "check", "off", "disk_delete", "net", "boot", "td_find", "td_undefine",
                  "acpi", "dns", "get", "lease"} /\ op # "create" => Whole(n)
    /\ pc[c] \in {"seed_create", "seed_upload", "disk_create"} /\ op # "create"
         => WholeDefinition(n)
    /\ pc[c] \in {"seed_create", "seed_upload"} /\ op # "create" => overlay[n] # "absent"
    /\ pc[c] = "cv_filter" => Whole(n)
    /\ pc[c] \in ConvergeLabels => overlay[n] # "absent" /\ seed[n] = "ready"
    /\ pc[c] \in ConvergeLabels => /\ was.size = was.meta.size
                                   /\ was.filterref <=> was.meta.filters # None
    /\ pc[c] = "cv_define" => filt[n] = IF s.filters = None THEN was.meta.filters ELSE s.filters
    /\ pc[c] = "cv_write" => filt[n] = s.filters
    /\ pc[c] \in {"get", "lease"} /\ op = "create" => Whole(n)

CalmName(n) == Settled(n) \/ \E c \in Clients : Inside(c) /\ NameOf(c) = n

CalmInv == faults = 0 => /\ \A c \in Clients : pc[c] # "idle" => CalmClient(c)
                         /\ \A n \in Names : CalmName(n)

\* c has made a disk, and is on the way to its first boot.
Fitted(c) == \/ pc[c] \in {"define", "write"}
             \/ pc[c] = "net" /\ job[c].op = "reinstall"
             \/ pc[c] = "boot" /\ job[c].op \in {"create", "reinstall"}

Reseeding(c) == pc[c] \in {"seed_create", "seed_upload"}

\* With at most one failure: a disk nobody booted has a client that is about to boot
\* it, or was left by the operation that failed, with its seed or a client rebuilding it.
Fresh(n) == overlay[n] = "fresh" =>
    \/ \E c \in Clients : Fitted(c) /\ NameOf(c) = n
    \/ /\ faults = MaxFaults
       /\ seed[n] = "ready" \/ \E c \in Clients : Reseeding(c) /\ NameOf(c) = n

FreshInv == \A n \in Names : Fresh(n)

--------------------------------------------------------------------------------
(* Frames.                                                                 *)

\* A step leaves n as it is, but for the power of its domain.
SameParts(n) ==
    /\ dom'[n] = None <=> dom[n] = None
    /\ dom[n] # None => /\ dom'[n].meta = dom[n].meta /\ dom'[n].uuid = dom[n].uuid
                        /\ dom'[n].size = dom[n].size /\ dom'[n].filterref = dom[n].filterref
    /\ filt'[n] = filt[n] /\ overlay'[n] = overlay[n] /\ seed'[n] = seed[n]

\* What holds of a name does not depend on the power of its domain.
LEMMA NameKept ==
  ASSUME NEW n, SameParts(n)
  PROVE  /\ Nothing(n)' <=> Nothing(n)
         /\ Whole(n)' <=> Whole(n)
         /\ WholeDefinition(n)' <=> WholeDefinition(n)
         /\ Settled(n)' <=> Settled(n)
<1>1. Nothing(n)' <=> Nothing(n)
  BY DEF SameParts, Nothing
<1>2. Applied(n)' <=> Applied(n)
  BY DEF SameParts, Applied, Managed
<1>3. Works(n)' <=> Works(n)
  BY <1>2 DEF SameParts, Works
<1>4. WholeDefinition(n)' <=> WholeDefinition(n)
  BY <1>2 DEF SameParts, WholeDefinition, Applied, Managed
<1>5. Whole(n)' <=> Whole(n)
  BY <1>3 DEF SameParts, Whole, Works, Applied, Managed
<1> QED
  BY <1>1, <1>4, <1>5 DEF SameParts, Settled

\* What a client that does not move knows of its server still holds when nothing
\* of that server changes but its power, and no network goes down.
LEMMA PartsKept ==
  ASSUME NEW c, PartsKnown(c), NameOf(c)' = NameOf(c), SameParts(NameOf(c)),
         pc'[c] = pc[c], job'[c] = job[c], snap'[c] = snap[c], up \subseteq up'
  PROVE  PartsKnown(c)'
<1> DEFINE n == NameOf(c)
<1>1. PICK m : m = n /\ NameOf(c)' = m
  OBVIOUS
<1> USE DEF SameParts
<1>2. HandleKnown(c)'
  BY <1>1 DEF PartsKnown, HandleKnown, Stale
<1>3. SeedKnown(c)'
  BY <1>1 DEF PartsKnown, SeedKnown
<1>4. DiskKnown(c)'
  BY <1>1 DEF PartsKnown, DiskKnown
<1>5. NewKnown(c)'
  BY <1>1 DEF PartsKnown, NewKnown, New
<1>6. TeardownKnown(c)' /\ RouteKnown(c)'
  BY <1>1, NameKept DEF PartsKnown, TeardownKnown, RouteKnown, Nothing
<1>7. ConvergeKnown(c)'
  BY <1>1 DEF PartsKnown, ConvergeKnown, Rewritten
<1> QED
  BY <1>2, <1>3, <1>4, <1>5, <1>6, <1>7 DEF PartsKnown

\* The same for what it knows as long as no call failed.
LEMMA CalmKept ==
  ASSUME NEW c, CalmClient(c), NameOf(c)' = NameOf(c), SameParts(NameOf(c)),
         pc'[c] = pc[c], job'[c] = job[c], snap'[c] = snap[c]
  PROVE  CalmClient(c)'
<1>1. PICK m : m = NameOf(c) /\ NameOf(c)' = m
  OBVIOUS
<1>2. /\ Nothing(m)' <=> Nothing(m)
      /\ Whole(m)' <=> Whole(m)
      /\ WholeDefinition(m)' <=> WholeDefinition(m)
      /\ Settled(m)' <=> Settled(m)
  BY <1>1, NameKept
<1> QED
  BY <1>1, <1>2 DEF SameParts, CalmClient, New

\* A client that moves inside its operation changes nothing that belongs to
\* another client or another name, and takes no network down.
LEMMA AdvanceFrame ==
  ASSUME TInv, NEW c \in Clients, Advance(c)
  PROVE  /\ pc[c] # "idle" /\ NameOf(c) \in Names /\ job[c] \in Jobs
         /\ \A d \in Clients \ {c} : pc'[d] = pc[d] /\ job'[d] = job[d] /\ snap'[d] = snap[d]
         /\ \A m \in Names \ {NameOf(c)} :
              /\ dom'[m] = dom[m] /\ filt'[m] = filt[m]
              /\ overlay'[m] = overlay[m] /\ seed'[m] = seed[m]
         /\ up \subseteq up'
<1> USE DEF hostVars, Step, Goto, TInv, TypeOK
<1>1. pc[c] # "idle"
  BY DEF Advance, Find, FindNothing, FindConflict, FindEqual, FindRunning, FindDifferent,
     Provision, EnsureNetwork, DefineFilter, DeleteOldSeed, CreateSeed, UploadSeed,
     DeleteOldDisk, CreateDisk, DefineDomain, WriteSpec, Boot, RegisterDns,
     Converge, RedefineDomain, UndefineFilter, Read, Get, ReadLease, Operate, LookupNothing,
     LookupServer,
     CheckActive, PowerOff, AskGuest, Teardown, FindDomain, UndefineDomain, RemoveFilter,
     RemoveDisk, RemoveSeed, UnregisterDns, Fail, Return, CallLabels, TryLabels,
     TeardownLabels, Outcomes
<1>2. NameOf(c) \in Names /\ job[c] \in Jobs
  BY <1>1 DEF LocalInv, NameOf, Jobs
<1>3. \A d \in Clients \ {c} : pc'[d] = pc[d] /\ job'[d] = job[d] /\ snap'[d] = snap[d]
  <2>1. CASE Find(c)
    BY <2>1 DEF Find, FindNothing, FindConflict, FindEqual, FindRunning, FindDifferent
  <2>2. CASE Provision(c)
    BY <2>2 DEF Provision, EnsureNetwork, DefineFilter, DeleteOldSeed, CreateSeed, UploadSeed,
       DeleteOldDisk, CreateDisk, DefineDomain, WriteSpec, Boot, RegisterDns
  <2>3. CASE Converge(c) \/ Read(c) \/ Fail(c) \/ Return(c)
    BY <2>3 DEF Converge, RedefineDomain, UndefineFilter, Read, Get, ReadLease, Fail, Return
  <2>4. CASE Operate(c)
    BY <2>4 DEF Operate, LookupNothing, LookupServer, CheckActive, PowerOff, AskGuest
  <2>5. CASE Teardown(c)
    BY <2>5 DEF Teardown, FindDomain, UndefineDomain, RemoveFilter, RemoveDisk, RemoveSeed,
       UnregisterDns
  <2> QED BY <2>1, <2>2, <2>3, <2>4, <2>5 DEF Advance
<1>4. \A m \in Names \ {NameOf(c)} :
        /\ dom'[m] = dom[m] /\ filt'[m] = filt[m]
        /\ overlay'[m] = overlay[m] /\ seed'[m] = seed[m]
  BY Touches DEF PowerOff
<1>5. up \subseteq up'
  <2>1. up' = up \/ EnsureNetwork(c)
    BY DEF Advance, Find, FindNothing, FindConflict, FindEqual, FindRunning, FindDifferent,
       Provision, DefineFilter, DeleteOldSeed, CreateSeed, UploadSeed,
       DeleteOldDisk, CreateDisk, DefineDomain, WriteSpec, Boot, RegisterDns,
       Converge, RedefineDomain, UndefineFilter, Read, Get, ReadLease, Operate, LookupNothing,
       LookupServer,
       CheckActive, PowerOff, AskGuest, Teardown, FindDomain, UndefineDomain, RemoveFilter,
       RemoveDisk, RemoveSeed, UnregisterDns, Fail, Return
  <2> QED BY <2>1 DEF EnsureNetwork
<1> QED
  BY <1>1, <1>2, <1>3, <1>4, <1>5

\* What the other clients know is not disturbed by a client that moves.
LEMMA OthersKept ==
  ASSUME OneProcess, TInv, SInv, PInv, NEW c \in Clients, Advance(c),
         NEW d \in Clients \ {c}, pc'[d] # "idle"
  PROVE  /\ pc'[d] = pc[d] /\ job'[d] = job[d] /\ snap'[d] = snap[d]
         /\ NameOf(d)' = NameOf(d) /\ NameOf(d) # NameOf(c)
         /\ PartsKnown(d)'
         /\ CalmClient(d) => CalmClient(d)'
<1>1. /\ pc'[d] = pc[d] /\ job'[d] = job[d] /\ snap'[d] = snap[d]
      /\ NameOf(d)' = NameOf(d)
  BY AdvanceFrame DEF NameOf
<1>2. NameOf(d) # NameOf(c) /\ NameOf(d) \in Names
  BY <1>1, AdvanceFrame, NamesDiffer, InsideFacts
<1>3. SameParts(NameOf(d)) /\ up \subseteq up'
  BY <1>2, AdvanceFrame DEF SameParts
<1>4. PartsKnown(d)
  BY <1>1 DEF PInv
<1> QED
  BY <1>1, <1>2, <1>3, <1>4, PartsKept, CalmKept

--------------------------------------------------------------------------------
(* What the client that moves knows afterwards.                            *)

\* A call that succeeds, as the parts of the invariant see it: n is the name of
\* c, s its spec, and everything but pc is what the call says.
LEMMA CallEffect ==
  ASSUME TInv, SInv, PInv, NEW c \in Clients,
         NEW l \in InsideLabels, NEW next \in InsideLabels, Step(c, l, next)
  PROVE  /\ pc[c] = l /\ pc'[c] = next /\ pc[c] # "idle" /\ ~Refused(c)
         /\ job' = job /\ faults' = faults /\ job[c] \in Jobs
         /\ NameOf(c)' = NameOf(c) /\ NameOf(c) \in Names
         /\ dom[NameOf(c)] \in Domains \cup {None}
         /\ PartsKnown(c) /\ DomainKnown(c) /\ LocalInv(c)
<1>1. /\ pc[c] = l /\ pc'[c] = next /\ ~Refused(c) /\ job' = job /\ faults' = faults
      /\ job[c] \in Jobs
  BY StepEffect
<1>2. pc[c] # "idle"
  BY <1>1 DEF InsideLabels, CallLabels, TryLabels, TeardownLabels, Outcomes
<1>3. NameOf(c)' = NameOf(c)
  BY <1>1 DEF NameOf
<1> QED
  BY <1>1, <1>2, <1>3, InsideFacts DEF PInv, TInv

\* What create finds under its name.
LEMMA FindParts ==
  ASSUME TInv, SInv, PInv, NEW c \in Clients, Find(c) PROVE PartsKnown(c)'
<1>1. PICK next \in {"net", "conflict", "get", "running", "cv_filter", "cv_define"} :
        /\ Step(c, "find", next)
        /\ next = "get" => FindEqual(c)
        /\ next \in {"cv_filter", "cv_define"} => FindDifferent(c)
  BY DEF Find, FindNothing, FindConflict, FindEqual, FindRunning, FindDifferent
<1>2. PICK n \in Names :
        /\ NameOf(c) = n /\ NameOf(c)' = n
        /\ pc[c] = "find" /\ pc'[c] = next /\ job' = job /\ job[c] \in Jobs
        /\ dom[n] \in Domains \cup {None}
        /\ DomainKnown(c) /\ LocalInv(c)
  BY <1>1, CallEffect DEF InsideLabels, CallLabels, TryLabels, TeardownLabels, Outcomes
<1>3. UNCHANGED hostVars
  BY DEF Find, FindNothing, FindConflict, FindEqual, FindRunning, FindDifferent
<1>4. PICK s \in Wanted : s = job[c].spec /\ job[c].op = "create" /\ s # None
  BY <1>2, ConstantsAssumption DEF LocalInv, DomainKnown
<1>5. next \in {"get", "cv_filter", "cv_define"} =>
        /\ snap'[c] = dom[n] /\ dom[n] # None /\ dom[n].meta # None
        /\ next = "get" => dom[n].meta = s
        /\ next = "cv_define" => s.filters \in {None, dom[n].meta.filters}
  BY <1>1, <1>2, <1>4 DEF FindEqual, FindDifferent, Changeable, Managed, Step, Goto, TInv, TypeOK
<1> USE <1>2, <1>3, <1>4, <1>5 DEF hostVars
<1>6. HandleKnown(c)'
  BY DEF HandleKnown, Stale, HaveLabels, ConvergeLabels
<1>7. SeedKnown(c)' /\ DiskKnown(c)'
  BY DEF SeedKnown, DiskKnown, NewLabels
<1>8. NewKnown(c)' /\ TeardownKnown(c)' /\ RouteKnown(c)'
  BY DEF NewKnown, New, NewLabels, TeardownKnown, RouteKnown
<1>9. ConvergeKnown(c)'
  BY DEF ConvergeKnown
<1> QED
  BY <1>6, <1>7, <1>8, <1>9 DEF PartsKnown

\* The calls that prepare networks, filter, seed and disk.
LEMMA PrepareParts ==
  ASSUME TInv, SInv, PInv, NEW c \in Clients,
         \/ EnsureNetwork(c) \/ DefineFilter(c) \/ DeleteOldSeed(c) \/ CreateSeed(c)
         \/ UploadSeed(c) \/ DeleteOldDisk(c) \/ CreateDisk(c)
  PROVE  PartsKnown(c)'
<1>1. PICK l \in InsideLabels, next \in InsideLabels : Step(c, l, next)
  BY DEF EnsureNetwork, DefineFilter, DeleteOldSeed, CreateSeed, UploadSeed, DeleteOldDisk,
     CreateDisk, InsideLabels, CallLabels, TryLabels
<1>2. PICK n \in Names :
        /\ NameOf(c) = n /\ NameOf(c)' = n
        /\ pc[c] = l /\ pc'[c] = next /\ job' = job /\ job[c] \in Jobs
        /\ dom[n] \in Domains \cup {None}
        /\ PartsKnown(c) /\ DomainKnown(c) /\ LocalInv(c)
  BY <1>1, CallEffect
<1>3. dom' = dom /\ snap' = snap
  BY DEF EnsureNetwork, DefineFilter, DeleteOldSeed, CreateSeed, UploadSeed, DeleteOldDisk,
     CreateDisk
<1> USE <1>2, <1>3 DEF TInv, TypeOK, PartsKnown, HandleKnown, SeedKnown, DiskKnown, NewKnown, New,
        TeardownKnown, RouteKnown, ConvergeKnown, Step, Goto, NewLabels, HaveLabels,
        ConvergeLabels, Stale
<1>4. CASE EnsureNetwork(c)
  BY <1>4 DEF EnsureNetwork
<1>5. CASE DefineFilter(c)
  <2>1. /\ filt'[n] = job[c].spec.filters /\ overlay' = overlay /\ seed' = seed /\ up' = up
        /\ job[c].op = "create"
        /\ \/ l = "filter" /\ next = "seed"
           \/ l = "cv_filter" /\ next = "cv_define"
    BY <1>5 DEF DefineFilter, LocalInv, DomainKnown
  <2> QED BY <2>1
<1>6. CASE DeleteOldSeed(c)
  BY <1>6 DEF DeleteOldSeed
<1>7. CASE CreateSeed(c)
  BY <1>7 DEF CreateSeed
<1>8. CASE UploadSeed(c)
  BY <1>8 DEF UploadSeed, LocalInv
<1>9. CASE DeleteOldDisk(c)
  BY <1>9 DEF DeleteOldDisk
<1>10. CASE CreateDisk(c)
  BY <1>10 DEF CreateDisk
<1> QED
  BY <1>4, <1>5, <1>6, <1>7, <1>8, <1>9, <1>10

\* The calls that define, describe, boot and register the server.
LEMMA DefineParts ==
  ASSUME TInv, SInv, PInv, NEW c \in Clients,
         DefineDomain(c) \/ WriteSpec(c) \/ Boot(c) \/ RegisterDns(c)
  PROVE  PartsKnown(c)'
<1>1. PICK l \in InsideLabels, next \in InsideLabels : Step(c, l, next)
  BY DEF DefineDomain, WriteSpec, Boot, RegisterDns, InsideLabels, CallLabels, TryLabels, Outcomes
<1>2. PICK n \in Names :
        /\ NameOf(c) = n /\ NameOf(c)' = n
        /\ pc[c] = l /\ pc'[c] = next /\ job' = job /\ job[c] \in Jobs /\ ~Refused(c)
        /\ dom[n] \in Domains \cup {None}
        /\ PartsKnown(c) /\ DomainKnown(c) /\ LocalInv(c)
  BY <1>1, CallEffect
<1>3. CASE DefineDomain(c)
  <2>1. PICK s \in Wanted : s = job[c].spec /\ s \in Specs
    BY <1>2, <1>3, ConstantsAssumption DEF DefineDomain, Step, LocalInv
  <2>2. PICK u \in FreshUuids, b \in BOOLEAN :
            /\ dom'[n] = [uuid |-> u, meta |-> None, size |-> s.size,
                          filterref |-> b, active |-> FALSE]
            /\ snap'[c] = dom'[n] /\ (b <=> s.filters # None)
    BY <1>2, <1>3, <2>1 DEF DefineDomain, TInv, TypeOK
  <2>3. dom'[n] \in Domains
    BY <2>1, <2>2 DEF Domains, FreshUuids, Specs
  <2>4. dom'[n] # None
    BY <2>3, ConstantsAssumption
  <2>5. /\ dom'[n].meta = None /\ dom'[n].size = s.size /\ snap'[c] = dom'[n]
        /\ dom'[n].filterref <=> s.filters # None
    BY <2>2
  <2>6. /\ l = "define" /\ next = "write" /\ job[c].op = "create"
        /\ filt' = filt /\ overlay' = overlay /\ seed' = seed /\ up' = up
    BY <1>2, <1>3 DEF DefineDomain, Step, Goto, DomainKnown, TInv, TypeOK
  <2>7. /\ seed[n] = "ready" /\ overlay[n] = "fresh"
        /\ s.filters # None => filt[n] = s.filters
    BY <1>2, <2>1, <2>6 DEF PartsKnown, SeedKnown, DiskKnown, NewKnown, NewLabels
  <2>8. HandleKnown(c)'
    BY <1>2, <2>4, <2>5 DEF HandleKnown, Stale
  <2>9. NewKnown(c)'
    BY <1>2, <2>1, <2>4, <2>5, <2>6, <2>7 DEF NewKnown, New, NewLabels
  <2>10. SeedKnown(c)' /\ DiskKnown(c)' /\ TeardownKnown(c)' /\ RouteKnown(c)' /\ ConvergeKnown(c)'
    BY <1>2, <2>6, <2>7 DEF PartsKnown, SeedKnown, DiskKnown, NewLabels, TeardownKnown,
       RouteKnown, ConvergeKnown
  <2> QED BY <2>8, <2>9, <2>10 DEF PartsKnown
<1>4. CASE WriteSpec(c)
  <2>1. PICK s \in Wanted : s = job[c].spec /\ s \in Specs /\ s # None
    BY <1>2, <1>4, ConstantsAssumption DEF WriteSpec, Step, LocalInv
  <2>2. /\ \/ l = "write" /\ next = "boot"
           \/ l = "cv_write" /\ next = "get"
        /\ job[c].op = "create"
        /\ dom' = [dom EXCEPT ![n].meta = s]
        /\ UNCHANGED <<filt, overlay, seed, up, snap>>
    BY <1>2, <1>4, <2>1 DEF WriteSpec, Step, Goto, DomainKnown, ConvergeLabels, TInv, TypeOK
  <2>3. dom[n] \in Domains /\ dom[n] # None /\ snap[c] # None /\ ~Stale(c)
    BY <1>2, <2>2 DEF PartsKnown, HandleKnown, Stale, ConvergeLabels
  <2>4. dom'[n] = [dom[n] EXCEPT !.meta = s] /\ dom'[n] \in Domains
    BY <1>2, <2>1, <2>2, <2>3 DEF Domains, TInv, TypeOK
  <2>5. /\ dom'[n] # None /\ dom'[n].meta = s /\ dom'[n].size = dom[n].size
        /\ dom'[n].uuid = dom[n].uuid /\ dom'[n].filterref = dom[n].filterref
    BY <2>3, <2>4, ConstantsAssumption DEF Domains
  <2>7. l = "write" => NetsOf[s.rest] \subseteq up
    BY <1>2, <2>1, <2>2 DEF PartsKnown, DiskKnown
  <2>8. HandleKnown(c)'
    BY <1>2, <2>2, <2>3, <2>5 DEF HandleKnown, Stale
  <2>9. SeedKnown(c)' /\ DiskKnown(c)'
    BY <1>2, <2>1, <2>2, <2>7 DEF PartsKnown, SeedKnown, DiskKnown, NewLabels
  <2>10. NewKnown(c)'
    BY <1>2, <2>1, <2>2, <2>5 DEF PartsKnown, NewKnown, New, NewLabels, SeedKnown, DomainKnown,
       ConvergeLabels, Managed
  <2>11. TeardownKnown(c)' /\ RouteKnown(c)'
    BY <1>2, <2>2 DEF TeardownKnown, RouteKnown
  <2>12. l = "cv_write" => snap[c].meta \in Wanted /\ snap[c].meta.rest = s.rest
    BY <1>2, <2>1, <2>3 DEF DomainKnown, ConvergeLabels, Managed, Domains
  <2>13. ConvergeKnown(c)'
    BY <1>2, <2>1, <2>2, <2>5, <2>12 DEF PartsKnown, ConvergeKnown, NewKnown, New, Rewritten
  <2> QED BY <2>8, <2>9, <2>10, <2>11, <2>13 DEF PartsKnown
<1>5. CASE Boot(c)
  <2>1. /\ l = "boot"
        /\ next = IF job[c].op \in {"create", "reinstall"} THEN "dns" ELSE "get"
        /\ dom' = [dom EXCEPT ![n].active = TRUE] /\ overlay'[n] = "booted"
        /\ UNCHANGED <<filt, seed, up, snap>>
    BY <1>2, <1>5 DEF Boot, Step, Goto, TInv, TypeOK
  <2>2. dom[n] \in Domains
    BY <1>2, <2>1 DEF PartsKnown, HandleKnown, Stale
  <2>3. dom'[n] = [dom[n] EXCEPT !.active = TRUE] /\ dom'[n] \in Domains
    BY <1>2, <2>1, <2>2 DEF Domains, TInv, TypeOK
  <2>4. /\ dom'[n] # None /\ dom'[n].meta = dom[n].meta /\ dom'[n].size = dom[n].size
        /\ dom'[n].filterref = dom[n].filterref /\ dom'[n].uuid = dom[n].uuid
    BY <2>2, <2>3, ConstantsAssumption DEF Domains
  <2>5. HandleKnown(c)'
    BY <1>2, <2>1, <2>4 DEF PartsKnown, HandleKnown, Stale
  <2> QED
    BY <1>2, <2>1, <2>4, <2>5 DEF PartsKnown, SeedKnown, DiskKnown, NewKnown, New,
       TeardownKnown, RouteKnown, ConvergeKnown, NewLabels
<1>6. CASE RegisterDns(c)
  <2>1. /\ l = "dns" /\ next = "get" /\ UNCHANGED <<dom, filt, overlay, seed, up, snap>>
    BY <1>2, <1>6 DEF RegisterDns, Step, Goto, TInv, TypeOK
  <2> QED
    BY <1>2, <2>1 DEF PartsKnown, Stale, HandleKnown, SeedKnown, DiskKnown, NewKnown, New,
       TeardownKnown, RouteKnown, ConvergeKnown, NewLabels, HaveLabels, ConvergeLabels
<1> QED
  BY <1>3, <1>4, <1>5, <1>6

\* get finds the domain the operation worked on.
LEMMA SameHandle ==
  ASSUME TInv, SInv, PInv, NEW c \in Clients, Get(c)
  PROVE  snap' = snap
<1>1. pc[c] = "get" /\ pc[c] # "idle"
  BY DEF Get, Step
<1>2. snap[c] # None /\ ~Stale(c)
  BY <1>1 DEF PInv, PartsKnown, HandleKnown
<1>3. PICK h \in Domains : h = snap[c] /\ h.uuid = dom[NameOf(c)].uuid
  BY <1>2 DEF TInv, TypeOK, Stale
<1>4. [h EXCEPT !.uuid = h.uuid] = h
  BY DEF Domains
<1>5. snap' = [snap EXCEPT ![c] = [h EXCEPT !.uuid = h.uuid]]
  BY <1>2, <1>3 DEF Get, Stale, TInv, TypeOK
<1> QED
  BY <1>3, <1>4, <1>5 DEF TInv, TypeOK

\* Convergence, and the final get.
LEMMA ConvergeParts ==
  ASSUME TInv, SInv, PInv, NEW c \in Clients, Converge(c) \/ Read(c)
  PROVE  PartsKnown(c)'
<1>1. PICK l \in InsideLabels, next \in InsideLabels : Step(c, l, next)
  BY DEF Converge, RedefineDomain, UndefineFilter, Read, Get, ReadLease, Reported, InsideLabels,
     CallLabels, TryLabels,
     Outcomes
<1>2. PICK n \in Names :
        /\ NameOf(c) = n /\ NameOf(c)' = n
        /\ pc[c] = l /\ pc'[c] = next /\ job' = job /\ job[c] \in Jobs
        /\ dom[n] \in Domains \cup {None}
        /\ PartsKnown(c) /\ DomainKnown(c) /\ LocalInv(c)
  BY <1>1, CallEffect
<1>3. PICK s \in Wanted : s = job[c].spec /\ s \in Specs /\ s # None
  BY <1>2, ConstantsAssumption DEF LocalInv, Converge, RedefineDomain, UndefineFilter, Read, Get,
     ReadLease, Step
<1>4. snap' = snap /\ overlay' = overlay /\ seed' = seed /\ up' = up
  BY SameHandle DEF Converge, RedefineDomain, UndefineFilter, Read, Get, ReadLease, hostVars
<1>5. CASE RedefineDomain(c)
  <2>1. /\ l = "cv_define" /\ filt' = filt
        /\ next = IF DropsFilter(c) THEN "cv_undefine" ELSE "cv_write"
    BY <1>2, <1>5 DEF RedefineDomain, Step, Goto, TInv, TypeOK
  <2>2. /\ dom[n] # None /\ ~dom[n].active /\ snap[c] \in Domains /\ snap[c] # None
        /\ dom[n].uuid = snap[c].uuid /\ job[c].op = "create"
    BY <1>2, <2>1 DEF LocalInv, DomainKnown, Managed, OffLabels, ConvergeLabels, PartsKnown,
       HandleKnown, Stale
  <2>3. PICK was \in Domains : was = snap[c]
    BY <2>2
  <2>4. /\ Edited(was, s) \in Domains /\ Edited(was, s).uuid = was.uuid
        /\ Edited(was, s).size = IF s.size = was.meta.size THEN was.size ELSE s.size
        /\ Edited(was, s).filterref = IF s.filters = was.meta.filters THEN was.filterref
                                                                      ELSE s.filters # None
    BY <1>3 DEF Edited, Domains, Specs
  <2>5. PICK e \in Domains : e = Edited(was, s)
    BY <2>4
  <2>6. dom'[n] = [e EXCEPT !.active = FALSE]
    BY <1>2, <1>3, <1>5, <2>2, <2>3, <2>5 DEF RedefineDomain, TInv, TypeOK
  <2>7. /\ dom'[n] \in Domains /\ dom'[n].uuid = e.uuid /\ dom'[n].size = e.size
        /\ dom'[n].filterref = e.filterref
    BY <2>6 DEF Domains
  <2>8. dom'[n] # None
    BY <2>7, ConstantsAssumption
  <2>9. HandleKnown(c)'
    BY <1>2, <1>4, <2>2, <2>3, <2>4, <2>5, <2>7, <2>8 DEF HandleKnown, Stale
  <2>10. s.filters \notin {None, was.meta.filters} => filt[n] = s.filters
    BY <1>2, <1>3, <2>1, <2>3 DEF PartsKnown, ConvergeKnown
  <2>11. Rewritten(n, was, s)'
    BY <2>1, <2>4, <2>5, <2>7, <2>10 DEF Rewritten
  <2>12. next = "cv_undefine" => s.filters = None
    BY <1>3, <2>1 DEF DropsFilter
  <2>13. next = "cv_write" /\ s.filters # was.meta.filters => filt[n] = s.filters
    BY <1>3, <2>1, <2>3, <2>10 DEF DropsFilter
  <2>14. ConvergeKnown(c)'
    <3>1. pc'[c] \in {"cv_undefine", "cv_write"}
      BY <1>2, <2>1
    <3>2. snap'[c] = was /\ job'[c].spec = s
      BY <1>2, <1>3, <1>4, <2>3
    <3>3. pc'[c] = "cv_undefine" => s.filters = None
      BY <1>2, <2>12
    <3>4. pc'[c] = "cv_write" /\ s.filters # was.meta.filters => filt'[n] = s.filters
      BY <1>2, <2>1, <2>13
    <3> QED
      BY <1>2, <2>11, <3>1, <3>2, <3>3, <3>4 DEF ConvergeKnown, Rewritten
  <2>15. SeedKnown(c)' /\ DiskKnown(c)' /\ NewKnown(c)' /\ TeardownKnown(c)' /\ RouteKnown(c)'
    BY <1>2, <2>1 DEF PartsKnown, SeedKnown, DiskKnown, NewKnown, New, TeardownKnown, RouteKnown,
       NewLabels
  <2> QED BY <2>9, <2>14, <2>15 DEF PartsKnown
<1> USE <1>2, <1>3, <1>4 DEF PartsKnown, HandleKnown, SeedKnown, DiskKnown, NewKnown, New,
        TeardownKnown, RouteKnown, ConvergeKnown, NewLabels, HaveLabels, ConvergeLabels, Stale,
        Rewritten
<1>6. CASE UndefineFilter(c)
  <2>1. l = "cv_undefine" /\ next = "cv_write" /\ filt'[n] = None /\ dom' = dom
    BY <1>6 DEF UndefineFilter, Step, Goto, TInv, TypeOK
  <2> QED BY <2>1
<1>7. CASE Read(c)
  <2>1. /\ l \in {"get", "lease"} /\ dom' = dom /\ filt' = filt
        /\ next \in {"notfound", "lease", "created", "ok"}
        /\ next \in {"lease", "created", "ok"} => Managed(dom[n]) \/ l = "lease"
        /\ next = "created" => job[c].op = "create" /\ snap[c].meta = None
        /\ next = "ok" /\ job[c].op = "create" => snap[c].meta # None
        /\ job[c].op # "delete"
    BY <1>7 DEF Read, Get, ReadLease, Reported, Step, Goto, hostVars, TInv, TypeOK
  <2> QED BY <2>1
<1> QED
  BY <1>5, <1>6, <1>7 DEF Converge

\* start, stop, restart and reinstall.
LEMMA OperateParts ==
  ASSUME TInv, SInv, PInv, NEW c \in Clients, Operate(c) PROVE PartsKnown(c)'
<1>1. CASE LookupServer(c)
  <2>1. /\ pc[c] = "lookup" /\ job[c] \in Jobs /\ job[c].op # "create"
        /\ pc[c] # "idle"
    BY <1>1 DEF LookupServer, TInv, LocalInv
  <2>2. PICK n \in Names : NameOf(c) = n /\ dom[n] \in Domains
    BY <1>1, <2>1, InsideFacts DEF LookupServer, Managed
  <2>3. /\ UNCHANGED hostVars
        /\ snap'[c] = dom[n] /\ dom[n] # None
        /\ job' = [job EXCEPT ![c].spec = dom[n].meta]
    BY <1>1, <2>2 DEF LookupServer, Managed, TInv, TypeOK
  <2>4. job'[c].name = job[c].name /\ job'[c].op = job[c].op
    BY <2>1, <2>3 DEF Jobs, TInv, TypeOK
  <2>5. NameOf(c)' = n
    BY <2>2, <2>4 DEF NameOf
  <2>6. PICK next \in {"td_find", "seed", "get", "off", "acpi", "net", "notrunning"} :
          /\ pc'[c] = next
          /\ next = "net" => job[c].op \in {"start", "restart"}
          /\ next = "off" => job[c].op \in {"stop", "restart"}
          /\ next \in {"get", "acpi"} => job[c].op \notin {"create", "reinstall"}
          /\ job[c].op = "delete" => next = "td_find"
          /\ job[c].op = "stop" => next \in {"off", "acpi", "get"}
    BY <1>1, <2>1 DEF LookupServer, Goto, WhenOn, WhenOff, Jobs, TInv, TypeOK
  <2> QED
    BY <2>1, <2>2, <2>3, <2>4, <2>5, <2>6 DEF PartsKnown, HandleKnown, SeedKnown, DiskKnown,
       NewKnown, New, TeardownKnown, RouteKnown, ConvergeKnown, NewLabels, HaveLabels,
       ConvergeLabels, Stale,
       hostVars
<1>2. CASE LookupNothing(c) \/ CheckActive(c) \/ PowerOff(c) \/ AskGuest(c)
  <2>1. PICK l \in InsideLabels, next \in InsideLabels : Step(c, l, next)
    BY <1>2 DEF LookupNothing, CheckActive, PowerOff, AskGuest, TInv, LocalInv, Jobs, Step,
       InsideLabels, CallLabels, TryLabels, TeardownLabels, Outcomes
  <2>2. PICK n \in Names :
          /\ NameOf(c) = n /\ NameOf(c)' = n
          /\ pc[c] = l /\ pc'[c] = next /\ job' = job /\ job[c] \in Jobs
          /\ dom[n] \in Domains \cup {None}
          /\ PartsKnown(c) /\ DomainKnown(c) /\ LocalInv(c)
    BY <2>1, CallEffect
  <2>3. UNCHANGED <<filt, overlay, seed, up, snap>>
    BY <1>2 DEF LookupNothing, CheckActive, PowerOff, AskGuest, hostVars
  <2> USE <2>2, <2>3 DEF PartsKnown, HandleKnown, SeedKnown, DiskKnown, NewKnown, New,
        TeardownKnown, RouteKnown, ConvergeKnown, NewLabels, HaveLabels, ConvergeLabels, Stale
  <2>4. CASE PowerOff(c)
    <3>1. /\ l = "off" /\ job[c].op # "create" /\ job[c].op # "start"
          /\ next = CASE job[c].op \in {"create", "delete"} -> "td_undefine"
                      [] job[c].op = "stop" -> "get"
                      [] job[c].op = "restart" -> "net"
                      [] job[c].op = "reinstall" -> "disk_delete"
          /\ dom' = [dom EXCEPT ![n].active = FALSE]
      BY <2>4 DEF PowerOff, Step, Goto, DomainKnown, LocalInv, TInv, TypeOK
    <3>2. dom[n] \in Domains /\ dom[n] # None
      BY <3>1
    <3>3. dom'[n] = [dom[n] EXCEPT !.active = FALSE] /\ dom'[n] \in Domains
      BY <3>1, <3>2 DEF Domains, TInv, TypeOK
    <3>4. dom'[n] # None /\ dom'[n].uuid = dom[n].uuid
      BY <3>2, <3>3, ConstantsAssumption DEF Domains
    <3> QED BY <3>1, <3>2, <3>4 DEF Jobs
  <2>5. CASE LookupNothing(c) \/ CheckActive(c) \/ AskGuest(c)
    <3>1. /\ l \in {"lookup", "check", "acpi"}
          /\ l = "lookup" => next = "notfound"
          /\ l = "check" => next \in {"off", "disk_delete"} /\ job[c].op = "reinstall"
          /\ l = "acpi" => next = "get"
          /\ dom' = dom
      BY <2>5 DEF LookupNothing, CheckActive, AskGuest, Step, Goto, hostVars, LocalInv, TInv, TypeOK
    <3> QED BY <3>1
  <2> QED BY <1>2, <2>4, <2>5
<1> QED
  BY <1>1, <1>2 DEF Operate

\* The calls of teardown.
LEMMA TeardownParts ==
  ASSUME TInv, SInv, PInv, NEW c \in Clients, Teardown(c) PROVE PartsKnown(c)'
<1>1. PICK l \in InsideLabels, next \in InsideLabels : Step(c, l, next)
  BY DEF Teardown, FindDomain, WithoutDomain, UndefineDomain, RemoveFilter, RemoveDisk,
     RemoveSeed, UnregisterDns, InsideLabels, CallLabels, TryLabels, TeardownLabels, Outcomes
<1>2. PICK n \in Names :
        /\ NameOf(c) = n /\ NameOf(c)' = n
        /\ pc[c] = l /\ pc'[c] = next /\ job' = job /\ job[c] \in Jobs
        /\ dom[n] \in Domains \cup {None}
        /\ PartsKnown(c) /\ DomainKnown(c) /\ LocalInv(c)
  BY <1>1, CallEffect
<1> USE <1>2 DEF PartsKnown, HandleKnown, SeedKnown, DiskKnown, NewKnown, New, TeardownKnown,
        RouteKnown,
        ConvergeKnown, NewLabels, HaveLabels, ConvergeLabels, Stale, Nothing, Step, Goto,
        TInv, TypeOK
<1>3. CASE FindDomain(c)
  <2>1. /\ l = "td_find" /\ job[c].op \in {"create", "delete"}
        /\ next \in {"td_filter", "off", "td_undefine"}
        /\ next = "off" => job[c].op = "delete"
        /\ next \in {"off", "td_undefine"} => dom[n] # None /\ snap'[c] = dom[n]
        /\ UNCHANGED hostVars
    BY <1>3 DEF FindDomain, WithoutDomain, LocalInv, TeardownLabels, DomainKnown
  <2> QED BY <2>1 DEF hostVars
<1>4. CASE UndefineDomain(c)
  BY <1>4 DEF UndefineDomain, LocalInv, TeardownLabels
<1>5. CASE RemoveFilter(c)
  BY <1>5 DEF RemoveFilter
<1>6. CASE RemoveDisk(c)
  BY <1>6 DEF RemoveDisk
<1>7. CASE RemoveSeed(c)
  <2>1. dom[n] = None
    BY <1>7 DEF RemoveSeed, DomainKnown
  <2> QED BY <1>7, <2>1 DEF RemoveSeed
<1>8. CASE UnregisterDns(c)
  BY <1>8 DEF UnregisterDns
<1> QED
  BY <1>3, <1>4, <1>5, <1>6, <1>7, <1>8 DEF Teardown

\* A call that raises, and the end of an operation.
LEMMA FailParts ==
  ASSUME TInv, SInv, PInv, NEW c \in Clients, Fail(c) PROVE PartsKnown(c)'
<1>1. /\ pc[c] \in CallLabels /\ pc[c] # "idle"
      /\ pc'[c] = HandlerOf(c)
      /\ UNCHANGED <<dom, filt, overlay, seed, up, job, snap>>
  BY DEF Fail, Goto, hostVars, TInv, TypeOK, CallLabels, TryLabels, TeardownLabels
<1>2. PICK n \in Names :
        /\ NameOf(c) = n /\ NameOf(c)' = n /\ PartsKnown(c)
  BY <1>1, InsideFacts DEF NameOf, PInv
<1>3. /\ pc'[c] \in {"td_find", "error"}
      /\ pc'[c] = "td_find" => job[c].op = "create"
  BY <1>1 DEF HandlerOf
<1> QED
  BY <1>1, <1>2, <1>3 DEF PartsKnown, HandleKnown, SeedKnown, DiskKnown, NewKnown, New,
     TeardownKnown, RouteKnown, ConvergeKnown, NewLabels, HaveLabels, ConvergeLabels

--------------------------------------------------------------------------------
(* The invariant, whatever fails.                                          *)

\* The client that moves inside its operation.
LEMMA AdvanceParts ==
  ASSUME TInv, SInv, PInv, NEW c \in Clients, Advance(c), pc'[c] # "idle"
  PROVE  PartsKnown(c)'
<1>1. ~Return(c)
  BY DEF Return, Goto, TInv, TypeOK
<1> QED
  BY <1>1, FindParts, PrepareParts, DefineParts, ConvergeParts, OperateParts, TeardownParts,
     FailParts DEF Advance, Provision

\* A step that only lets domains go off, leaves clients where they are, or idle.
LEMMA StandingKept ==
  ASSUME TInv, SInv, PInv, NEW c \in Clients, pc'[c] # "idle",
         pc'[c] = pc[c], job'[c] = job[c], snap'[c] = snap[c],
         \A n \in Names : SameParts(n), up \subseteq up'
  PROVE  PartsKnown(c)' /\ (CalmClient(c) => CalmClient(c)')
<1>1. NameOf(c)' = NameOf(c) /\ NameOf(c) \in Names /\ PartsKnown(c)
  BY InsideFacts DEF NameOf, PInv
<1> QED
  BY <1>1, PartsKept, CalmKept

\* A guest that powers itself off leaves the parts of its server as they are.
LEMMA HaltParts ==
  ASSUME TInv, NEW m \in Names, GuestHalt(m)
  PROVE  \A n \in Names : SameParts(n)
<1> SUFFICES ASSUME NEW n \in Names PROVE SameParts(n)
  OBVIOUS
<1>1. UNCHANGED <<filt, overlay, seed>>
  BY DEF GuestHalt
<1>2. CASE n # m
  BY <1>1, <1>2 DEF GuestHalt, SameParts, TInv, TypeOK
<1>3. CASE n = m
  <2>1. dom[n] \in Domains /\ dom'[n] = [dom[n] EXCEPT !.active = FALSE]
    BY <1>3 DEF GuestHalt, TInv, TypeOK
  <2>2. dom'[n] \in Domains
    BY <2>1 DEF Domains
  <2>3. dom'[n] # None /\ dom[n] # None
    BY <2>1, <2>2, ConstantsAssumption
  <2> QED BY <1>1, <2>1, <2>3 DEF SameParts, Domains
<1> QED
  BY <1>2, <1>3

\* A request that gets its lock knows nothing yet, and nobody else loses anything.
LEMMA BeginParts ==
  ASSUME OneProcess, TInv, SInv, PInv, NEW c \in Clients, Begin(c)
  PROVE  PInv'
<1>1. PICK j \in Jobs :
        /\ pc[c] = "idle"
        /\ job' = [job EXCEPT ![c] = j]
        /\ pc' = [pc EXCEPT ![c] = IF j.op = "create" THEN "find" ELSE "lookup"]
        /\ UNCHANGED <<dom, filt, overlay, seed, up, snap>>
  BY DEF Begin, Goto, hostVars, CreateJobs, OtherJobs, Jobs
<1>2. \A n \in Names : SameParts(n)
  BY <1>1 DEF SameParts
<1>3. ASSUME NEW d \in Clients, pc'[d] # "idle" PROVE PartsKnown(d)'
  <2>1. CASE d = c
    <3>1. pc'[c] \in {"find", "lookup"}
      BY <1>1 DEF TInv, TypeOK
    <3>2. job'[c] = j /\ j.op \in {"create", "delete", "start", "stop", "restart", "reinstall"}
      BY <1>1 DEF TInv, TypeOK, Jobs
    <3>3. j.op \in {"delete", "stop"} => pc'[c] = "lookup"
      BY <1>1 DEF TInv, TypeOK
    <3> QED
      BY <2>1, <3>1, <3>2, <3>3 DEF PartsKnown, HandleKnown, SeedKnown, DiskKnown, NewKnown, New,
         TeardownKnown, RouteKnown, ConvergeKnown, NewLabels, HaveLabels, ConvergeLabels
  <2>2. CASE d # c
    <3>1. pc'[d] = pc[d] /\ job'[d] = job[d] /\ snap'[d] = snap[d] /\ up \subseteq up'
      BY <1>1, <2>2 DEF TInv, TypeOK
    <3> QED BY <1>2, <1>3, <3>1, StandingKept
  <2> QED BY <2>1, <2>2
<1> QED
  BY <1>3 DEF PInv

\* Every step preserves the invariant.
LEMMA NextPInv ==
  ASSUME OneProcess, TInv, SInv, PInv, [Next]_vars PROVE PInv'
<1>1. ASSUME NEW c \in Clients, Advance(c) PROVE PInv'
  BY <1>1, AdvanceParts, OthersKept DEF PInv
<1>2. ASSUME NEW m \in Names, GuestHalt(m) PROVE PInv'
  <2>1. \A n \in Names : SameParts(n)
    BY <1>2, HaltParts
  <2>2. UNCHANGED <<up, pc, job, snap>>
    BY <1>2 DEF GuestHalt
  <2> QED BY <2>1, <2>2, StandingKept DEF PInv
<1>3. ASSUME NEW m \in Managers, Crash(m) PROVE PInv'
  <2>1. \A n \in Names : SameParts(n)
    BY <1>3 DEF Crash, Die, SameParts
  <2>2. \A c \in Clients : pc'[c] # "idle" =>
          /\ pc'[c] = pc[c] /\ job'[c] = job[c] /\ snap'[c] = snap[c] /\ up \subseteq up'
    BY <1>3 DEF Crash, Die
  <2> QED BY <2>1, <2>2, StandingKept DEF PInv
<1>4. ASSUME Reboot PROVE PInv'
  BY <1>4, ConstantsAssumption DEF Reboot, Die, PInv
<1>5. ASSUME UNCHANGED vars PROVE PInv'
  <2>1. UNCHANGED <<up, pc, job, snap>> /\ \A n \in Names : SameParts(n)
    BY <1>5 DEF vars, SameParts
  <2> QED BY <2>1, StandingKept DEF PInv
<1> QED
  BY <1>1, <1>2, <1>3, <1>4, <1>5, BeginParts DEF Next

\* The invariant holds in every reachable state of one process.
LEMMA SpecPInv == ASSUME OneProcess PROVE Spec => [](TInv /\ SInv /\ PInv)
<1>1. Init => PInv
  BY DEF Init, PInv
<1>2. TInv /\ SInv /\ PInv /\ [Next]_vars => PInv'
  BY NextPInv
<1> QED
  BY <1>1, <1>2, SpecSInv, PTL DEF Spec

\* CreatedWorks (ServerManager.tla) holds in every reachable state of one process:
\* a create that reports a new server has built all of it, and a reinstall that
\* succeeded has booted a new disk with a complete seed, whatever failed, crashed or
\* was left behind under that name before.
THEOREM CreatedIsBuilt == OneProcess => (Spec => []CreatedWorks)
<1> SUFFICES ASSUME OneProcess PROVE Spec => []CreatedWorks
  OBVIOUS
<1>1. ASSUME TInv, PInv PROVE CreatedWorks
  <2> SUFFICES ASSUME NEW c \in Clients, pc[c] = "created" PROVE Works(NameOf(c))
    BY <1>1 DEF CreatedWorks, PInv, PartsKnown, SeedKnown, DiskKnown
  <2>1. PICK s : s = job[c].spec /\ s # None
    BY <1>1, ConstantsAssumption DEF TInv, LocalInv, PInv, PartsKnown, NewKnown
  <2>2. NewKnown(c) /\ New(c)
    BY <1>1 DEF PInv, PartsKnown, NewKnown, New
  <2> QED
    BY <2>1, <2>2 DEF NewKnown, Works, Applied, Managed
<1> QED
  BY SpecPInv, <1>1, PTL

\* AllOrNothing holds, whatever fails: a create that has rolled back, or a delete that
\* has succeeded, has left nothing of its name.
THEOREM RollbackIsComplete == OneProcess => (Spec => []AllOrNothing)
<1> SUFFICES ASSUME OneProcess PROVE Spec => []AllOrNothing
  OBVIOUS
<1>1. ASSUME PInv PROVE AllOrNothing
  BY <1>1 DEF PInv, PartsKnown, TeardownKnown, AllOrNothing
<1> QED
  BY SpecPInv, <1>1, PTL

\* DifferencesApplied holds, whatever fails: a convergence that ends well has
\* applied every difference between its spec and the metadata it found.
THEOREM DifferencesAreApplied == OneProcess => (Spec => []DifferencesApplied)
<1> SUFFICES ASSUME OneProcess PROVE Spec => []DifferencesApplied
  OBVIOUS
<1>1. ASSUME TInv, PInv PROVE DifferencesApplied
  <2> SUFFICES ASSUME NEW c \in Clients, pc[c] = "ok", job[c].op = "create",
                      snap[c].meta # job[c].spec
               PROVE  LET d == dom[NameOf(c)]  was == snap[c]  s == job[c].spec IN
                      /\ Managed(d) /\ d.meta = s
                      /\ d.size = IF s.size = was.meta.size THEN was.size ELSE s.size
                      /\ d.filterref <=> IF s.filters = was.meta.filters THEN was.filterref
                                                                       ELSE s.filters # None
                      /\ s.filters # was.meta.filters => filt[NameOf(c)] = s.filters
    BY DEF DifferencesApplied
  <2>1. job[c].spec # None
    BY <1>1, ConstantsAssumption DEF TInv, LocalInv
  <2>2. ConvergeKnown(c)
    BY <1>1 DEF PInv, PartsKnown
  <2> QED
    BY <2>1, <2>2 DEF ConvergeKnown, Rewritten, Managed
<1> QED
  BY SpecPInv, <1>1, PTL

\* Two specs of one server that differ, differ in their size and in their filters.
NoFieldShared == \A s, t \in Wanted :
                   s.rest = t.rest /\ s # t => s.size # t.size /\ s.filters # t.filters

\* A convergence that ends well has applied its spec, also when an earlier try
\* changed the domain but could not write the metadata.
ConvergenceApplies ==
    \A c \in Clients :
        pc[c] = "ok" /\ job[c].op = "create" /\ snap[c].meta # job[c].spec
        => Applied(NameOf(c)) /\ dom[NameOf(c)].meta = job[c].spec

\* ConvergenceApplies holds, whatever fails, if no two specs of a server share one of
\* the fields that can be converged: a convergence then has no field to leave as an
\* earlier try that failed has left it.
THEOREM ConvergenceIsApplied ==
  OneProcess /\ NoFieldShared => (Spec => []ConvergenceApplies)
<1> SUFFICES ASSUME OneProcess, NoFieldShared PROVE Spec => []ConvergenceApplies
  OBVIOUS
<1>1. ASSUME TInv, PInv PROVE ConvergenceApplies
  <2> SUFFICES ASSUME NEW c \in Clients, pc[c] = "ok", job[c].op = "create",
                      snap[c].meta # job[c].spec
               PROVE  Applied(NameOf(c)) /\ dom[NameOf(c)].meta = job[c].spec
    BY DEF ConvergenceApplies
  <2>1. PICK s \in Wanted : s = job[c].spec /\ s # None
    BY <1>1, ConstantsAssumption DEF TInv, LocalInv
  <2>2. ConvergeKnown(c)
    BY <1>1 DEF PInv, PartsKnown
  <2>3. PICK t \in Wanted : t = snap[c].meta /\ t # s /\ t.rest = s.rest
    BY <2>1, <2>2 DEF ConvergeKnown
  <2>4. s.size # t.size /\ s.filters # t.filters
    BY <2>3 DEF NoFieldShared
  <2> QED
    BY <2>1, <2>2, <2>3, <2>4 DEF ConvergeKnown, Rewritten, Applied, Managed
<1> QED
  BY SpecPInv, <1>1, PTL

\* Every refusal libvirt can answer with.
LEMMA Refusals ==
  ASSUME TInv, SInv, PInv, NEW c \in Clients, pc[c] \in CallLabels, Refused(c)
  PROVE  LET n == NameOf(c) IN
         \/ pc[c] \in {"off", "acpi", "lease"} /\ Halted(c)
         \/ /\ pc[c] = "boot" /\ job[c].op \in {"start", "restart"}
            /\ overlay[n] = "absent" \/ seed[n] = "absent"
         \/ pc[c] \in {"filter", "cv_filter"} /\ filt[n] # None
<1> DEFINE n == NameOf(c)
<1>1. pc[c] # "idle"
  BY DEF CallLabels, TryLabels, TeardownLabels
<1>2. /\ job[c] \in Jobs /\ DomainKnown(c) /\ NameInv(n) /\ PartsKnown(c) /\ LocalInv(c)
  BY <1>1, InsideFacts DEF PInv, TInv
<1> USE <1>2 DEF PartsKnown, HandleKnown, SeedKnown, DiskKnown, DomainKnown, NewLabels, HaveLabels,
        ConvergeLabels, OffLabels
<1>3. pc[c] \in {"write", "cv_write", "boot", "off", "acpi", "check", "lease", "td_undefine"}
        => ~Stale(c)
  <2>1. pc[c] \in {"off", "check"} => job[c].op # "create"
    BY DEF LocalInv
  <2> QED BY <2>1
<1>4. CASE pc[c] = "boot"
  <2>1. dom[n] # None /\ ~dom[n].active /\ NetsOf[job[c].spec.rest] \subseteq up
    BY <1>3, <1>4 DEF Stale
  <2>2. overlay[n] = "absent" \/ seed[n] = "absent"
    BY <1>3, <1>4, <2>1 DEF Refused, CannotBoot, NameInv
  <2>3. job[c].op # "delete"
    BY <1>4 DEF RouteKnown
  <2>4. job[c].op # "stop"
    BY <1>4 DEF RouteKnown
  <2> QED BY <1>4, <2>1, <2>2, <2>3, <2>4 DEF Jobs
<1>5. CASE pc[c] \in {"off", "acpi", "lease"}
  BY <1>3, <1>5 DEF Refused, Stale, Halted
<1>6. CASE pc[c] \notin {"boot", "off", "acpi", "lease"}
  BY <1>3, <1>6 DEF Refused, Attached, Stale, Managed
<1> QED
  BY <1>4, <1>5, <1>6

\* RefusedForAReason holds, whatever fails: of the calls the platform makes, libvirt
\* refuses what needs a running guest of one that went off by itself, to start a
\* server without its disk or seed, to define a filter over another, and nothing else.
THEOREM RefusalsAreExplained == OneProcess => (Spec => []RefusedForAReason)
<1> SUFFICES ASSUME OneProcess PROVE Spec => []RefusedForAReason
  OBVIOUS
<1>1. ASSUME TInv, SInv, PInv PROVE RefusedForAReason
  BY <1>1, Refusals DEF RefusedForAReason
<1> QED
  BY SpecPInv, <1>1, PTL

--------------------------------------------------------------------------------
(* As long as no call has failed: the client that moves.                   *)

\* What create finds under its name.
LEMMA FindCalm ==
  ASSUME TInv, SInv, PInv, NEW c \in Clients, CalmClient(c), Find(c) PROVE CalmClient(c)'
<1>1. PICK next \in {"net", "conflict", "get", "running", "cv_filter", "cv_define"} :
        /\ Step(c, "find", next)
        /\ next = "net" => dom[NameOf(c)] = None
        /\ next = "get" => FindEqual(c)
        /\ next \in {"cv_filter", "cv_define"} => FindDifferent(c)
  BY DEF Find, FindNothing, FindConflict, FindEqual, FindRunning, FindDifferent
<1>2. PICK n \in Names :
        /\ NameOf(c) = n /\ NameOf(c)' = n
        /\ pc[c] = "find" /\ pc'[c] = next /\ job' = job /\ job[c] \in Jobs
        /\ dom[n] \in Domains \cup {None}
        /\ DomainKnown(c) /\ LocalInv(c)
  BY <1>1, CallEffect DEF InsideLabels, CallLabels, TryLabels, TeardownLabels, Outcomes
<1>3. UNCHANGED hostVars
  BY DEF Find, FindNothing, FindConflict, FindEqual, FindRunning, FindDifferent
<1>4. PICK s \in Wanted : s = job[c].spec /\ job[c].op = "create" /\ s # None
  BY <1>2, ConstantsAssumption DEF LocalInv, DomainKnown
<1>5. next \in {"get", "cv_filter", "cv_define"} =>
        /\ snap'[c] = dom[n] /\ dom[n] # None /\ dom[n].meta # None
        /\ next = "cv_define" => s.filters \in {None, dom[n].meta.filters}
  BY <1>1, <1>2, <1>4 DEF FindEqual, FindDifferent, Changeable, Managed, Step, Goto, TInv, TypeOK
<1>6. Settled(n)
  BY <1>2 DEF CalmClient
<1>7. /\ next \in {"conflict", "running"} => Settled(n)'
      /\ next = "net" => Nothing(n)'
      /\ next \in {"get", "cv_filter", "cv_define"} => Whole(n) /\ Whole(n)'
  BY <1>1, <1>2, <1>3, <1>5, <1>6
     DEF hostVars, Settled, Whole, Works, Applied, Nothing, Managed
<1>8. next \in {"cv_filter", "cv_define"} =>
        /\ overlay'[n] # "absent" /\ seed'[n] = "ready"
        /\ snap'[c].size = snap'[c].meta.size
        /\ snap'[c].filterref <=> snap'[c].meta.filters # None
        /\ filt'[n] = snap'[c].meta.filters
  BY <1>3, <1>5, <1>7 DEF hostVars, Whole, Works, Applied
<1> QED
  BY <1>2, <1>4, <1>5, <1>7, <1>8
     DEF CalmClient, New, NewLabels, ConvergeLabels, TeardownLabels, Outcomes

\* The calls that prepare networks, filter, seed and disk.
LEMMA PrepareCalm ==
  ASSUME TInv, SInv, PInv, NEW c \in Clients, CalmClient(c),
         \/ EnsureNetwork(c) \/ DefineFilter(c) \/ DeleteOldSeed(c) \/ CreateSeed(c)
         \/ UploadSeed(c) \/ DeleteOldDisk(c) \/ CreateDisk(c)
  PROVE  CalmClient(c)'
<1>1. PICK l \in InsideLabels, next \in InsideLabels : Step(c, l, next)
  BY DEF EnsureNetwork, DefineFilter, DeleteOldSeed, CreateSeed, UploadSeed, DeleteOldDisk,
     CreateDisk, InsideLabels, CallLabels, TryLabels
<1>2. PICK n \in Names :
        /\ NameOf(c) = n /\ NameOf(c)' = n
        /\ pc[c] = l /\ pc'[c] = next /\ job' = job /\ job[c] \in Jobs
        /\ dom[n] \in Domains \cup {None}
        /\ PartsKnown(c) /\ DomainKnown(c) /\ LocalInv(c)
  BY <1>1, CallEffect
<1>3. dom' = dom /\ snap' = snap
  BY DEF EnsureNetwork, DefineFilter, DeleteOldSeed, CreateSeed, UploadSeed, DeleteOldDisk,
     CreateDisk
<1> USE <1>2, <1>3 DEF CalmClient, New, NewLabels, ConvergeLabels, TeardownLabels, Outcomes,
        Whole, Works, WholeDefinition, Applied, Managed, Nothing, Step, Goto, TInv, TypeOK
<1>4. CASE EnsureNetwork(c)
  BY <1>4 DEF EnsureNetwork
<1>5. CASE DefineFilter(c)
  <2>1. /\ filt'[n] = job[c].spec.filters /\ overlay' = overlay /\ seed' = seed
        /\ job[c].op = "create"
        /\ \/ l = "filter" /\ next = "seed"
           \/ l = "cv_filter" /\ next = "cv_define" /\ job[c].spec.filters # None
    BY <1>5 DEF DefineFilter, LocalInv, DomainKnown, FilterReady, SInv, ClientInv
  <2> QED BY <2>1
<1>6. CASE DeleteOldSeed(c)
  BY <1>6 DEF DeleteOldSeed
<1>7. CASE CreateSeed(c)
  BY <1>7 DEF CreateSeed
<1>8. CASE UploadSeed(c)
  BY <1>8 DEF UploadSeed, LocalInv
<1>9. CASE DeleteOldDisk(c)
  BY <1>9 DEF DeleteOldDisk
<1>10. CASE CreateDisk(c)
  BY <1>10 DEF CreateDisk, PartsKnown, SeedKnown
<1> QED
  BY <1>4, <1>5, <1>6, <1>7, <1>8, <1>9, <1>10

\* The calls that define, describe, boot and register the server.
LEMMA DefineCalm ==
  ASSUME TInv, SInv, PInv, NEW c \in Clients, CalmClient(c),
         DefineDomain(c) \/ WriteSpec(c) \/ Boot(c) \/ RegisterDns(c)
  PROVE  CalmClient(c)'
<1>1. PICK l \in InsideLabels, next \in InsideLabels : Step(c, l, next)
  BY DEF DefineDomain, WriteSpec, Boot, RegisterDns, InsideLabels, CallLabels, TryLabels, Outcomes
<1>2. PICK n \in Names :
        /\ NameOf(c) = n /\ NameOf(c)' = n
        /\ pc[c] = l /\ pc'[c] = next /\ job' = job /\ job[c] \in Jobs
        /\ dom[n] \in Domains \cup {None}
        /\ PartsKnown(c) /\ DomainKnown(c) /\ LocalInv(c)
  BY <1>1, CallEffect
<1> USE DEF NewLabels, ConvergeLabels, TeardownLabels, Outcomes
<1>3. CASE DefineDomain(c)
  <2>1. /\ l = "define" /\ next = "write" /\ job[c].op = "create" /\ filt' = filt
    BY <1>2, <1>3 DEF DefineDomain, Step, Goto, DomainKnown, TInv, TypeOK
  <2> QED BY <1>2, <2>1 DEF CalmClient
<1>4. CASE WriteSpec(c)
  <2>1. PICK s \in Wanted : s = job[c].spec /\ s \in Specs /\ s # None
    BY <1>2, <1>4, ConstantsAssumption DEF WriteSpec, Step, LocalInv
  <2>2. /\ \/ l = "write" /\ next = "boot"
           \/ l = "cv_write" /\ next = "get"
        /\ job[c].op = "create"
        /\ dom' = [dom EXCEPT ![n].meta = s]
        /\ UNCHANGED <<filt, overlay, seed, up, snap>>
    BY <1>2, <1>4, <2>1 DEF WriteSpec, Step, Goto, DomainKnown, TInv, TypeOK
  <2>3. dom[n] \in Domains /\ dom[n] # None
    BY <1>2, <2>2 DEF PartsKnown, HandleKnown, Stale
  <2>4. dom'[n] = [dom[n] EXCEPT !.meta = s] /\ dom'[n] \in Domains
    BY <1>2, <2>1, <2>2, <2>3 DEF Domains, TInv, TypeOK
  <2>5. /\ dom'[n] # None /\ dom'[n].meta = s /\ dom'[n].size = dom[n].size
        /\ dom'[n].filterref = dom[n].filterref
    BY <2>3, <2>4, ConstantsAssumption DEF Domains
  <2>6. CASE l = "write"
    BY <1>2, <2>2, <2>6 DEF CalmClient, New
  <2>7. CASE l = "cv_write"
    <3>1. /\ Rewritten(n, snap[c], s) /\ filt[n] = s.filters
          /\ overlay[n] # "absent" /\ seed[n] = "ready"
          /\ snap[c].size = snap[c].meta.size
          /\ snap[c].filterref <=> snap[c].meta.filters # None
      BY <1>2, <2>1, <2>7 DEF CalmClient, PartsKnown, ConvergeKnown
    <3>2. Whole(n)'
      BY <2>1, <2>2, <2>5, <3>1 DEF Rewritten, Whole, Works, Applied, Managed
    <3> QED
      BY <1>2, <2>1, <2>2, <2>7, <3>1, <3>2 DEF CalmClient, New
  <2> QED BY <1>2, <1>4, <2>2, <2>6, <2>7
<1>5. CASE Boot(c)
  <2>1. /\ l = "boot"
        /\ next = IF job[c].op \in {"create", "reinstall"} THEN "dns" ELSE "get"
        /\ dom' = [dom EXCEPT ![n].active = TRUE] /\ overlay'[n] = "booted"
        /\ UNCHANGED <<filt, seed, up, snap>>
    BY <1>2, <1>5 DEF Boot, Step, Goto, TInv, TypeOK
  <2>2. dom[n] \in Domains
    BY <1>2, <2>1 DEF PartsKnown, HandleKnown, Stale
  <2>3. dom'[n] = [dom[n] EXCEPT !.active = TRUE] /\ dom'[n] \in Domains
    BY <1>2, <2>1, <2>2 DEF Domains, TInv, TypeOK
  <2>4. /\ dom'[n] # None /\ dom'[n].meta = dom[n].meta /\ dom'[n].size = dom[n].size
        /\ dom'[n].filterref = dom[n].filterref
    BY <2>2, <2>3, ConstantsAssumption DEF Domains
  <2>5. Whole(n) => Whole(n)'
    BY <2>1, <2>4 DEF Whole, Works, Applied, Managed
  <2> QED
    BY <1>2, <2>1, <2>5 DEF CalmClient, New
<1>6. CASE RegisterDns(c)
  <2>1. /\ l = "dns" /\ next = "get" /\ UNCHANGED <<dom, filt, overlay, seed, up, snap>>
    BY <1>2, <1>6 DEF RegisterDns, Step, Goto, TInv, TypeOK
  <2>2. Whole(n)
    <3>1. CASE job[c].op = "create"
      <4>1. job[c].spec # None
        BY <1>2, <2>1, ConstantsAssumption DEF LocalInv
      <4> QED
        BY <1>2, <2>1, <3>1, <4>1 DEF CalmClient, New, PartsKnown, NewKnown, Whole, Works, Applied,
           Managed
    <3>2. CASE job[c].op # "create"
      BY <1>2, <2>1, <3>2 DEF CalmClient
    <3> QED BY <3>1, <3>2
  <2>3. Whole(n)'
    BY <2>1, <2>2 DEF Whole, Works, Applied, Managed
  <2>4. New(c) => filt[n] = job[c].spec.filters
    BY <1>2 DEF CalmClient
  <2> QED
    BY <1>2, <2>1, <2>3, <2>4 DEF CalmClient, New
<1> QED
  BY <1>3, <1>4, <1>5, <1>6

\* Convergence, and the final get.
LEMMA ConvergeCalm ==
  ASSUME TInv, SInv, PInv, NEW c \in Clients, CalmClient(c), Converge(c) \/ Read(c)
  PROVE  CalmClient(c)'
<1>1. PICK l \in InsideLabels, next \in InsideLabels : Step(c, l, next)
  BY DEF Converge, RedefineDomain, UndefineFilter, Read, Get, ReadLease, Reported, InsideLabels,
     CallLabels, TryLabels,
     Outcomes
<1>2. PICK n \in Names :
        /\ NameOf(c) = n /\ NameOf(c)' = n
        /\ pc[c] = l /\ pc'[c] = next /\ job' = job /\ job[c] \in Jobs
        /\ dom[n] \in Domains \cup {None}
        /\ PartsKnown(c) /\ DomainKnown(c) /\ LocalInv(c)
  BY <1>1, CallEffect
<1>3. snap' = snap /\ overlay' = overlay /\ seed' = seed
  BY SameHandle DEF Converge, RedefineDomain, UndefineFilter, Read, Get, ReadLease, hostVars
<1> USE <1>2, <1>3 DEF CalmClient, New, NewLabels, ConvergeLabels, TeardownLabels, Outcomes
<1>4. CASE RedefineDomain(c)
  <2>1. /\ l = "cv_define" /\ filt' = filt
        /\ next = IF DropsFilter(c) THEN "cv_undefine" ELSE "cv_write"
    BY <1>4 DEF RedefineDomain, Step, Goto, TInv, TypeOK
  <2>2. next = "cv_write" => filt[n] = job[c].spec.filters
    BY <2>1 DEF DropsFilter
  <2> QED BY <2>1, <2>2
<1>5. CASE UndefineFilter(c)
  <2>1. /\ l = "cv_undefine" /\ next = "cv_write" /\ filt'[n] = None
        /\ job[c].spec.filters = None
    BY <1>5 DEF UndefineFilter, Step, Goto, PartsKnown, ConvergeKnown, TInv, TypeOK
  <2> QED BY <2>1
<1>6. CASE Read(c)
  <2>1. /\ l \in {"get", "lease"} /\ UNCHANGED <<dom, filt>>
        /\ next \in {"notfound", "lease", "created", "ok"}
        /\ next = "created" => job[c].op = "create" /\ snap[c].meta = None
    BY <1>6 DEF Read, Get, ReadLease, Reported, Step, Goto, hostVars, TInv, TypeOK
  <2>2. Whole(n)
    BY <2>1
  <2>3. Whole(n)' /\ Settled(n)'
    BY <2>1, <2>2 DEF Settled, Whole, Works, Applied, Managed
  <2> QED BY <2>1, <2>3
<1> QED
  BY <1>4, <1>5, <1>6 DEF Converge

\* start, stop, restart and reinstall.
LEMMA OperateCalm ==
  ASSUME TInv, SInv, PInv, NEW c \in Clients, CalmClient(c), Operate(c) PROVE CalmClient(c)'
<1>1. CASE LookupServer(c)
  <2>1. /\ pc[c] = "lookup" /\ job[c] \in Jobs /\ job[c].op # "create"
        /\ pc[c] # "idle"
    BY <1>1 DEF LookupServer, TInv, LocalInv
  <2>2. PICK n \in Names : NameOf(c) = n /\ dom[n] \in Domains /\ Managed(dom[n])
    BY <1>1, <2>1, InsideFacts DEF LookupServer, Managed
  <2>3. /\ UNCHANGED hostVars
        /\ job' = [job EXCEPT ![c].spec = dom[n].meta]
    BY <1>1, <2>2 DEF LookupServer, TInv, TypeOK
  <2>4. job'[c].name = job[c].name /\ job'[c].op = job[c].op
    BY <2>1, <2>3 DEF Jobs, TInv, TypeOK
  <2>5. NameOf(c)' = n
    BY <2>2, <2>4 DEF NameOf
  <2>6. PICK next \in {"td_find", "seed", "get", "off", "acpi", "net", "notrunning"} :
          /\ pc'[c] = next
          /\ next = "td_find" => job[c].op = "delete"
    BY <1>1, <2>1 DEF LookupServer, Goto, WhenOn, WhenOff, Jobs, TInv, TypeOK
  <2>7. Whole(n)
    BY <2>1, <2>2 DEF CalmClient, Settled, Nothing, Managed
  <2>8. Whole(n)' /\ Settled(n)'
    BY <2>3, <2>7 DEF hostVars, Settled, Whole, Works, Applied, Managed
  <2> QED
    BY <2>1, <2>4, <2>5, <2>6, <2>8
       DEF CalmClient, New, NewLabels, ConvergeLabels, TeardownLabels, Outcomes
<1>2. CASE LookupNothing(c) \/ CheckActive(c) \/ PowerOff(c) \/ AskGuest(c)
  <2>1. PICK l \in InsideLabels, next \in InsideLabels : Step(c, l, next)
    BY <1>2 DEF LookupNothing, CheckActive, PowerOff, AskGuest, TInv, LocalInv, Jobs, Step,
       InsideLabels, CallLabels, TryLabels, TeardownLabels, Outcomes
  <2>2. PICK n \in Names :
          /\ NameOf(c) = n /\ NameOf(c)' = n
          /\ pc[c] = l /\ pc'[c] = next /\ job' = job /\ job[c] \in Jobs
          /\ dom[n] \in Domains \cup {None}
          /\ PartsKnown(c) /\ DomainKnown(c) /\ LocalInv(c)
    BY <2>1, CallEffect
  <2>3. UNCHANGED <<filt, overlay, seed, up, snap>>
    BY <1>2 DEF LookupNothing, CheckActive, PowerOff, AskGuest, hostVars
  <2>4. SameParts(n)
    <3>1. CASE PowerOff(c)
      <4>1. dom[n] \in Domains /\ dom[n] # None
        BY <2>2, <3>1 DEF PowerOff, Step, PartsKnown, HandleKnown, HaveLabels, DomainKnown, Stale
      <4>2. dom'[n] = [dom[n] EXCEPT !.active = FALSE]
        BY <2>2, <3>1 DEF PowerOff, TInv, TypeOK
      <4>3. dom'[n] \in Domains
        BY <4>1, <4>2 DEF Domains
      <4>4. dom'[n] # None
        BY <4>3, ConstantsAssumption
      <4> QED BY <2>3, <4>1, <4>2, <4>4 DEF SameParts, Domains
    <3>2. CASE ~PowerOff(c)
      BY <1>2, <2>3, <3>2 DEF LookupNothing, CheckActive, AskGuest, hostVars, SameParts
    <3> QED BY <3>1, <3>2
  <2>5. /\ l \in {"lookup", "check", "acpi", "off"}
        /\ l = "lookup" => next = "notfound"
        /\ l = "check" => next \in {"off", "disk_delete"} /\ job[c].op = "reinstall"
        /\ l = "acpi" => next = "get" /\ job[c].op # "create"
        /\ l = "off" => /\ next \in {"td_undefine", "get", "net", "disk_delete"}
                        /\ next = "td_undefine" => job[c].op = "delete"
                        /\ job[c].op # "create"
    BY <1>2, <2>2 DEF LookupNothing, CheckActive, AskGuest, PowerOff, Step, Goto, LocalInv, Jobs,
       DomainKnown, PartsKnown, RouteKnown, TInv, TypeOK
  <2>6. (Whole(n) => Whole(n)') /\ (Settled(n) => Settled(n)')
    BY <2>4, NameKept
  <2> QED
    BY <2>2, <2>3, <2>5, <2>6
       DEF CalmClient, New, NewLabels, ConvergeLabels, TeardownLabels, Outcomes
<1> QED
  BY <1>1, <1>2 DEF Operate

\* The calls of teardown, which only delete makes as long as nothing fails.
LEMMA TeardownCalm ==
  ASSUME TInv, SInv, PInv, NEW c \in Clients, CalmClient(c), Teardown(c) PROVE CalmClient(c)'
<1>1. PICK l \in InsideLabels, next \in InsideLabels : Step(c, l, next)
  BY DEF Teardown, FindDomain, WithoutDomain, UndefineDomain, RemoveFilter, RemoveDisk,
     RemoveSeed, UnregisterDns, InsideLabels, CallLabels, TryLabels, TeardownLabels, Outcomes
<1>2. PICK n \in Names :
        /\ NameOf(c) = n /\ NameOf(c)' = n
        /\ pc[c] = l /\ pc'[c] = next /\ job' = job /\ job[c] \in Jobs
        /\ dom[n] \in Domains \cup {None}
        /\ PartsKnown(c) /\ DomainKnown(c) /\ LocalInv(c)
  BY <1>1, CallEffect
<1> USE <1>2 DEF CalmClient, New, NewLabels, ConvergeLabels, TeardownLabels, Outcomes, Step, Goto
<1>3. CASE FindDomain(c)
  <2>1. /\ l = "td_find" /\ job[c].op = "delete" /\ Whole(n)
        /\ next \in {"td_filter", "off", "td_undefine"}
        /\ UNCHANGED hostVars
    BY <1>3 DEF FindDomain, WithoutDomain, TInv, TypeOK
  <2>2. Whole(n)'
    BY <2>1 DEF hostVars, Whole, Works, Applied, Managed
  <2> QED BY <2>1, <2>2
<1>4. CASE UndefineDomain(c)
  <2>1. l = "td_undefine" /\ next = "td_filter" /\ job[c].op = "delete"
    BY <1>4 DEF UndefineDomain, TInv, TypeOK
  <2> QED BY <2>1
<1>5. CASE RemoveFilter(c) \/ RemoveDisk(c)
  <2>1. l \in {"td_filter", "td_disk"} /\ next \in {"td_disk", "td_seed"} /\ job[c].op = "delete"
    BY <1>5 DEF RemoveFilter, RemoveDisk, TInv, TypeOK
  <2> QED BY <2>1
<1>6. CASE RemoveSeed(c)
  <2>1. l = "td_seed" /\ next = "td_dns"
    BY <1>6 DEF RemoveSeed, TInv, TypeOK
  <2> QED BY <2>1
<1>7. CASE UnregisterDns(c)
  <2>1. l = "td_dns" /\ next = "ok" /\ UNCHANGED <<dom, filt, overlay, seed, snap>>
    BY <1>7 DEF UnregisterDns, TInv, TypeOK
  <2>2. job[c].op # "create" /\ Settled(n)'
    BY <2>1 DEF PartsKnown, TeardownKnown, RouteKnown, Settled, Nothing
  <2> QED BY <2>1, <2>2
<1> QED
  BY <1>3, <1>4, <1>5, <1>6, <1>7 DEF Teardown

\* A call that is refused: the guest has gone off, or there is a filter already.
LEMMA FailCalm ==
  ASSUME TInv, SInv, PInv, NEW c \in Clients, CalmClient(c), Fail(c), faults' = 0
  PROVE  CalmClient(c)'
<1>1. /\ pc[c] \in CallLabels /\ pc[c] # "idle" /\ Refused(c)
      /\ pc'[c] = HandlerOf(c)
      /\ UNCHANGED <<dom, filt, overlay, seed, job, snap>>
  BY DEF Fail, Goto, hostVars, TInv, TypeOK, CallLabels, TryLabels, TeardownLabels
<1>2. PICK n \in Names :
        /\ NameOf(c) = n /\ NameOf(c)' = n /\ PartsKnown(c) /\ DomainKnown(c) /\ LocalInv(c)
  BY <1>1, InsideFacts DEF NameOf, PInv, TInv
<1>3. \/ pc[c] \in {"off", "acpi", "lease"}
      \/ pc[c] = "boot" /\ job[c].op \in {"start", "restart"}
         /\ (overlay[n] = "absent" \/ seed[n] = "absent")
      \/ pc[c] \in {"filter", "cv_filter"} /\ filt[n] # None
  BY <1>1, <1>2, Refusals
<1>4. job[c].op # "create" \/ pc[c] \in {"lease", "cv_filter"}
  BY <1>2, <1>3 DEF CalmClient, DomainKnown, PartsKnown, RouteKnown, LocalInv, Nothing
<1>5. pc'[c] = "error"
  BY <1>1, <1>4 DEF HandlerOf, TryLabels
<1>6. Whole(n)
  <2>1. pc[c] = "filter" => job[c].op = "create"
    BY <1>2 DEF LocalInv
  <2> QED BY <1>2, <1>3, <1>4, <2>1 DEF CalmClient
<1>7. Settled(n)'
  BY <1>1, <1>6 DEF Settled, Whole, Works, Applied, Managed
<1> QED
  BY <1>1, <1>2, <1>5, <1>7
     DEF CalmClient, New, NewLabels, ConvergeLabels, TeardownLabels

\* The client that moves inside its operation.
LEMMA AdvanceCalm ==
  ASSUME TInv, SInv, PInv, NEW c \in Clients, CalmClient(c), Advance(c), pc'[c] # "idle",
         faults' = 0
  PROVE  CalmClient(c)'
<1>1. ~Return(c)
  BY DEF Return, Goto, TInv, TypeOK
<1> QED
  BY <1>1, FindCalm, PrepareCalm, DefineCalm, ConvergeCalm, OperateCalm, TeardownCalm, FailCalm
     DEF Advance, Provision

--------------------------------------------------------------------------------
(* As long as no call has failed: all clients and all names.               *)

\* A client works on one name from the beginning of its operation to the end.
LEMMA NameStays ==
  ASSUME TInv, NEW c \in Clients, Advance(c), pc'[c] # "idle"
  PROVE  NameOf(c)' = NameOf(c)
<1>1. ~Return(c)
  BY DEF Return, Goto, TInv, TypeOK
<1>2. CASE LookupServer(c)
  BY <1>2 DEF LookupServer, NameOf, TInv, TypeOK, LocalInv, Jobs
<1>3. CASE ~LookupServer(c)
  <2>1. job' = job
    BY <1>1, <1>3
       DEF Advance, Find, FindNothing, FindConflict, FindEqual, FindRunning, FindDifferent,
       Provision, EnsureNetwork, DefineFilter, DeleteOldSeed, CreateSeed, UploadSeed,
       DeleteOldDisk, CreateDisk, DefineDomain, WriteSpec, Boot, RegisterDns,
       Converge, RedefineDomain, UndefineFilter, Read, Get, ReadLease, Operate, LookupNothing,
       CheckActive, PowerOff, AskGuest, Teardown, FindDomain, UndefineDomain, RemoveFilter,
       RemoveDisk, RemoveSeed, UnregisterDns, Fail, Step
  <2> QED BY <2>1 DEF NameOf
<1> QED
  BY <1>2, <1>3

\* A failure is not forgotten.
LEMMA FaultsStay ==
  ASSUME TInv, [Next]_vars PROVE faults' >= faults
<1> USE DEF TInv, TypeOK
<1>1. ASSUME NEW c \in Clients, Fail(c) PROVE faults' >= faults
  BY <1>1 DEF Fail
<1>2. ASSUME NEW c \in Clients, Begin(c) \/ (Advance(c) /\ ~Fail(c)) PROVE faults' = faults
  BY <1>2 DEF Begin, Advance, Find, FindNothing, FindConflict, FindEqual, FindRunning,
     FindDifferent, Provision, EnsureNetwork, DefineFilter, DeleteOldSeed, CreateSeed,
     UploadSeed, DeleteOldDisk, CreateDisk, DefineDomain, WriteSpec, Boot, RegisterDns,
     Converge, RedefineDomain, UndefineFilter, Read, Get, ReadLease, Operate, LookupNothing,
     LookupServer,
     CheckActive, PowerOff, AskGuest, Teardown, FindDomain, UndefineDomain, RemoveFilter,
     RemoveDisk, RemoveSeed, UnregisterDns, Return, Step
<1>3. ASSUME \/ \E n \in Names : GuestHalt(n)
             \/ \E m \in Managers : Crash(m)
             \/ Reboot \/ UNCHANGED vars
      PROVE  faults' = faults
  BY <1>3 DEF GuestHalt, Crash, Reboot, Die, vars
<1> QED
  BY <1>1, <1>2, <1>3 DEF Next

\* Clients that stay in their operations keep working on their names.
LEMMA WorkedOnKept ==
  ASSUME NEW n \in Names, NEW d \in Clients, Inside(d), NameOf(d) = n,
         pc'[d] = pc[d], job'[d] = job[d]
  PROVE  CalmName(n)'
<1>1. Inside(d)' /\ NameOf(d)' = n
  BY DEF Inside, NameOf
<1> QED
  BY <1>1 DEF CalmName

\* What a client does inside its operation, or at the end of it.
LEMMA AdvanceCalmInv ==
  ASSUME OneProcess, TInv, SInv, PInv, CalmInv, TInv', faults = 0, faults' = 0,
         NEW c \in Clients, Advance(c)
  PROVE  CalmInv'
<1>1. \A d \in Clients : pc[d] # "idle" => CalmClient(d)
  BY DEF CalmInv
<1>2. CalmClient(c)
  BY <1>1, AdvanceFrame
<1>3. ASSUME NEW d \in Clients, pc'[d] # "idle" PROVE CalmClient(d)'
  BY <1>1, <1>2, <1>3, AdvanceCalm, OthersKept
<1>4. ASSUME NEW n \in Names PROVE CalmName(n)'
  <2>1. CASE n = NameOf(c) /\ pc'[c] # "idle"
    <3>1. Inside(c)' /\ NameOf(c)' = n
      BY <2>1, NameStays DEF Inside, Labels, TInv, TypeOK
    <3> QED BY <3>1 DEF CalmName
  <2>2. CASE n = NameOf(c) /\ pc'[c] = "idle"
    <3>1. pc[c] \in Outcomes /\ UNCHANGED hostVars
      BY <2>2 DEF Advance, Find, FindNothing, FindConflict, FindEqual, FindRunning,
         FindDifferent, Provision, EnsureNetwork, DefineFilter, DeleteOldSeed, CreateSeed,
         UploadSeed, DeleteOldDisk, CreateDisk, DefineDomain, WriteSpec, Boot, RegisterDns,
         Converge, RedefineDomain, UndefineFilter, Read, Get, ReadLease, Reported, Operate,
         LookupNothing, LookupServer,
         WhenOn, WhenOff, CheckActive, PowerOff, AskGuest, Teardown, FindDomain, WithoutDomain,
         UndefineDomain, RemoveFilter, RemoveDisk, RemoveSeed, UnregisterDns, Fail, HandlerOf,
         Return, Step, Goto, TInv, TypeOK, LocalInv, Jobs, Outcomes
    <3>2. Settled(n)
      BY <1>2, <2>2, <3>1 DEF CalmClient
    <3>3. Settled(n)'
      BY <3>1, <3>2 DEF hostVars, Settled, Whole, Works, Applied, Managed, Nothing
    <3> QED BY <3>3 DEF CalmName
  <2>3. CASE n # NameOf(c)
    <3>1. SameParts(n)
      BY <2>3, AdvanceFrame DEF SameParts
    <3>2. CASE Settled(n)
      BY <3>1, <3>2, NameKept DEF CalmName
    <3>3. CASE \E d \in Clients : Inside(d) /\ NameOf(d) = n
      BY <2>3, <3>3, AdvanceFrame, WorkedOnKept
    <3> QED BY <3>2, <3>3 DEF CalmInv, CalmName
  <2> QED BY <2>1, <2>2, <2>3
<1> QED
  BY <1>3, <1>4 DEF CalmInv

\* A request that gets the lock of its name finds it settled.
LEMMA BeginCalmInv ==
  ASSUME OneProcess, TInv, SInv, PInv, CalmInv, faults = 0, NEW c \in Clients, Begin(c)
  PROVE  CalmInv'
<1>1. PICK j \in Jobs :
        /\ pc[c] = "idle" /\ holder[ManagerOf[c]][j.name] = None
        /\ job' = [job EXCEPT ![c] = j]
        /\ pc' = [pc EXCEPT ![c] = IF j.op = "create" THEN "find" ELSE "lookup"]
        /\ UNCHANGED <<dom, filt, overlay, seed, up, snap>>
  BY DEF Begin, LockIsFree, Goto, hostVars, CreateJobs, OtherJobs, Jobs
<1>2. \A n \in Names : SameParts(n)
  BY <1>1 DEF SameParts
<1>3. pc'[c] \in {"find", "lookup"} /\ job'[c] = j /\ NameOf(c)' = j.name /\ j.name \in Names
  BY <1>1 DEF NameOf, Jobs, TInv, TypeOK
<1>4. \A d \in Clients \ {c} : pc'[d] = pc[d] /\ job'[d] = job[d] /\ snap'[d] = snap[d]
  BY <1>1 DEF TInv, TypeOK
<1>5. Settled(j.name)
  <2>1. ASSUME NEW d \in Clients, Inside(d), NameOf(d) = j.name PROVE FALSE
    <3>1. pc[d] # "idle" /\ holder[ManagerOf[d]][j.name] = d
      BY <2>1 DEF Inside, InsideLabels, CallLabels, TryLabels, TeardownLabels, Outcomes, SInv,
         ClientInv, HasLock
    <3>2. d = None
      BY <1>1, <3>1 DEF OneProcess
    <3> QED BY <3>2, ConstantsAssumption
  <2> QED BY <1>3, <2>1 DEF CalmInv, CalmName
<1>6. Settled(j.name)'
  BY <1>2, <1>3, <1>5, NameKept
<1>7. CalmClient(c)'
  BY <1>3, <1>6 DEF CalmClient, New, NewLabels, ConvergeLabels, TeardownLabels, Outcomes
<1>8. ASSUME NEW d \in Clients, pc'[d] # "idle" PROVE CalmClient(d)'
  <2>1. CASE d # c
    BY <1>1, <1>2, <1>4, <1>8, <2>1, StandingKept DEF CalmInv
  <2> QED BY <1>7, <2>1
<1>9. ASSUME NEW n \in Names PROVE CalmName(n)'
  <2>1. CASE Settled(n)
    BY <1>2, <2>1, NameKept DEF CalmName
  <2>2. ASSUME NEW d \in Clients, Inside(d), NameOf(d) = n PROVE CalmName(n)'
    <3>1. d # c
      BY <1>1, <2>2 DEF Inside, InsideLabels, CallLabels, TryLabels, TeardownLabels, Outcomes
    <3> QED BY <1>4, <2>2, <3>1, WorkedOnKept
  <2> QED BY <2>1, <2>2 DEF CalmInv, CalmName
<1> QED
  BY <1>8, <1>9 DEF CalmInv

\* A step that changes no client, and nothing of a name but the power of its domain.
LEMMA QuietCalmInv ==
  ASSUME TInv, SInv, PInv, CalmInv, faults = 0, \A n \in Names : SameParts(n),
         UNCHANGED <<up, pc, job, snap>>
  PROVE  CalmInv'
<1>1. ASSUME NEW d \in Clients, pc'[d] # "idle" PROVE CalmClient(d)'
  BY <1>1, StandingKept DEF CalmInv
<1>2. ASSUME NEW n \in Names PROVE CalmName(n)'
  <2>1. CASE Settled(n)
    BY <2>1, NameKept DEF CalmName
  <2>2. ASSUME NEW d \in Clients, Inside(d), NameOf(d) = n PROVE CalmName(n)'
    BY <2>2, WorkedOnKept
  <2> QED BY <2>1, <2>2 DEF CalmInv, CalmName
<1> QED
  BY <1>1, <1>2 DEF CalmInv

\* Neither a process nor the host crashes.
NoCrash == Environment \subseteq {"halt"}

\* Every step preserves the invariant.
LEMMA NextCalmInv ==
  ASSUME OneProcess, NoCrash, TInv, SInv, PInv, CalmInv, TInv', [Next]_vars PROVE CalmInv'
<1> SUFFICES ASSUME faults' = 0 PROVE CalmInv'
  BY DEF CalmInv
<1>1. faults = 0
  BY FaultsStay DEF TInv, TypeOK
<1>2. ASSUME NEW c \in Clients, Advance(c) PROVE CalmInv'
  BY <1>1, <1>2, AdvanceCalmInv
<1>3. ASSUME NEW c \in Clients, Begin(c) PROVE CalmInv'
  BY <1>1, <1>3, BeginCalmInv
<1>4. ASSUME NEW n \in Names, GuestHalt(n) PROVE CalmInv'
  BY <1>1, <1>4, HaltParts, QuietCalmInv DEF GuestHalt
<1>5. ASSUME UNCHANGED vars PROVE CalmInv'
  BY <1>1, <1>5, QuietCalmInv DEF vars, SameParts
<1>6. ~Reboot /\ \A m \in Managers : ~Crash(m)
  BY DEF NoCrash, Reboot, Crash
<1> QED
  BY <1>2, <1>3, <1>4, <1>5, <1>6 DEF Next

\* The invariant holds in every reachable state of one process that does not crash.
LEMMA SpecCalmInv ==
  ASSUME OneProcess, NoCrash PROVE Spec => [](TInv /\ SInv /\ PInv /\ CalmInv)
<1>1. Init => CalmInv
  <2>1. ASSUME Init, NEW n \in Names PROVE Settled(n)
    BY <2>1 DEF Init, Settled, Nothing
  <2> QED BY <2>1 DEF Init, CalmInv, CalmName
<1>2. TInv /\ SInv /\ PInv /\ CalmInv /\ TInv' /\ [Next]_vars => CalmInv'
  BY NextCalmInv
<1> QED
  BY <1>1, <1>2, SpecPInv, PTL DEF Spec

\* NeverRefused holds as long as no call has failed: libvirt refuses only what needs a
\* running guest of one that went off by itself, and the convergence from one list of
\* rules to another.
THEOREM CalmNeverRefused ==
  OneProcess /\ NoCrash => (Spec => []NeverRefused)
<1> SUFFICES ASSUME OneProcess, NoCrash PROVE Spec => []NeverRefused
  OBVIOUS
<1>1. ASSUME TInv, SInv, PInv, CalmInv PROVE NeverRefused
  <2> SUFFICES ASSUME faults = 0, NEW c \in Clients, pc[c] \in CallLabels, Refused(c),
                      ~(pc[c] \in {"off", "acpi", "lease"} /\ Halted(c))
               PROVE  pc[c] = "cv_filter" /\ snap[c].meta.filters # None
    BY DEF NeverRefused
  <2>1. pc[c] # "idle" /\ CalmClient(c) /\ DomainKnown(c) /\ LocalInv(c)
    BY <1>1, InsideFacts DEF CalmInv, TInv, CallLabels, TryLabels, TeardownLabels
  <2>2. \/ /\ pc[c] = "boot" /\ job[c].op \in {"start", "restart"}
           /\ overlay[NameOf(c)] = "absent" \/ seed[NameOf(c)] = "absent"
        \/ pc[c] \in {"filter", "cv_filter"} /\ filt[NameOf(c)] # None
    BY <1>1, Refusals
  <2>3. pc[c] # "boot"
    BY <2>1, <2>2 DEF CalmClient, Whole, Works
  <2>4. pc[c] # "filter"
    BY <2>1, <2>2, <2>3 DEF CalmClient, LocalInv, Nothing
  <2> QED BY <2>1, <2>2, <2>3, <2>4 DEF CalmClient, DomainKnown, ConvergeLabels, Whole
<1> QED
  BY SpecCalmInv, <1>1, PTL

\* QuietIsWhole holds as long as no call has failed: a name nobody works on is a
\* complete server, or nothing of it is left, or another tool's domain.
THEOREM CalmQuietIsWhole ==
  OneProcess /\ NoCrash => (Spec => []QuietIsWhole)
<1> SUFFICES ASSUME OneProcess, NoCrash PROVE Spec => []QuietIsWhole
  OBVIOUS
<1>1. ASSUME TInv, CalmInv PROVE QuietIsWhole
  <2> SUFFICES ASSUME faults = 0, NEW n \in Names
               PROVE  \/ Whole(n) \/ Nothing(n) \/ Foreign(n)
                      \/ \E c \in Clients : Inside(c) /\ NameOf(c) = n
    BY DEF QuietIsWhole
  <2>1. Building(n) => \E c \in Clients : Inside(c) /\ NameOf(c) = n
    BY DEF Building, Inside, NameOf, InsideLabels, CallLabels, TryLabels, TeardownLabels
  <2> QED
    BY <1>1, <2>1 DEF CalmInv, CalmName, Settled, Foreign
<1> QED
  BY SpecCalmInv, <1>1, PTL

\* CreateApplies holds as long as no call has failed: a create that succeeded returns
\* a server that is what its spec says, and has left no filter over.
THEOREM CalmCreateApplies ==
  OneProcess /\ NoCrash => (Spec => []CreateApplies)
<1> SUFFICES ASSUME OneProcess, NoCrash PROVE Spec => []CreateApplies
  OBVIOUS
<1>1. ASSUME TInv, PInv, CalmInv PROVE CreateApplies
  <2> SUFFICES ASSUME faults = 0, NEW c \in Clients, pc[c] \in {"ok", "created"}, job[c].op = "create"
               PROVE  Whole(NameOf(c)) /\ dom[NameOf(c)].meta = job[c].spec
    BY DEF CreateApplies
  <2>1. job[c].spec # None
    BY <1>1, ConstantsAssumption DEF TInv, LocalInv
  <2>2. NewKnown(c) /\ ConvergeKnown(c) /\ Settled(NameOf(c))
    BY <1>1 DEF PInv, PartsKnown, CalmInv, CalmClient, Outcomes
  <2>3. dom[NameOf(c)] # None /\ dom[NameOf(c)].meta = job[c].spec
    BY <2>2 DEF NewKnown, New, ConvergeKnown
  <2> QED
    BY <2>1, <2>2, <2>3 DEF Settled, Nothing
<1> QED
  BY SpecCalmInv, <1>1, PTL

--------------------------------------------------------------------------------
(* With at most one failure.                                               *)

\* What is known of a fresh disk does not depend on a client that works elsewhere.
LEMMA FreshKept ==
  ASSUME NEW n \in Names, Fresh(n), overlay'[n] = overlay[n], seed'[n] = seed[n],
         faults = MaxFaults => faults' = MaxFaults,
         \A d \in Clients : (Fitted(d) \/ Reseeding(d)) /\ NameOf(d) = n
                              => pc'[d] = pc[d] /\ job'[d] = job[d]
  PROVE  Fresh(n)'
<1> SUFFICES ASSUME overlay'[n] = "fresh"
             PROVE  \/ \E c \in Clients : Fitted(c)' /\ NameOf(c)' = n
                    \/ /\ faults' = MaxFaults
                       /\ \/ seed'[n] = "ready"
                          \/ \E c \in Clients : Reseeding(c)' /\ NameOf(c)' = n
  BY DEF Fresh
<1>1. ASSUME NEW d \in Clients, Fitted(d), NameOf(d) = n PROVE Fitted(d)' /\ NameOf(d)' = n
  BY <1>1 DEF Fitted, NameOf
<1>2. ASSUME NEW d \in Clients, Reseeding(d), NameOf(d) = n
      PROVE  Reseeding(d)' /\ NameOf(d)' = n
  BY <1>2 DEF Reseeding, NameOf
<1> QED
  BY <1>1, <1>2 DEF Fresh

\* The disk of the client that moves, when it was fresh and still is: the client was
\* about to boot it, or the failure is spent and its seed is there or being rebuilt.
LEMMA FreshOwn ==
  ASSUME OneProcess, TInv, SInv, NEW c \in Clients, Fresh(NameOf(c)), pc[c] # "idle",
         overlay[NameOf(c)] = "fresh"
  PROVE  \/ Fitted(c)
         \/ faults = MaxFaults /\ (seed[NameOf(c)] = "ready" \/ Reseeding(c))
<1>1. ASSUME NEW d \in Clients, Fitted(d) \/ Reseeding(d), NameOf(d) = NameOf(c) PROVE d = c
  BY <1>1, NamesDiffer DEF Fitted, Reseeding
<1> QED
  BY <1>1, InsideFacts DEF Fresh

\* The client that moves, and the disk of its name.
LEMMA FreshAdvance ==
  ASSUME OneProcess, MaxFaults <= 1, TInv, TInv', SInv, PInv, NEW c \in Clients, Advance(c),
         Fresh(NameOf(c)), overlay'[NameOf(c)] = "fresh", faults = MaxFaults => faults' = MaxFaults
  PROVE  \/ pc'[c] # "idle" /\ Fitted(c)'
         \/ faults' = MaxFaults /\ (seed'[NameOf(c)] = "ready" \/ Reseeding(c)')
<1>1. PICK n \in Names : n = NameOf(c) /\ pc[c] # "idle" /\ job[c] \in Jobs
  BY AdvanceFrame
<1>2. PartsKnown(c) /\ DomainKnown(c) /\ LocalInv(c)
  BY <1>1, InsideFacts DEF PInv, TInv
<1>3. overlay[n] = "fresh" =>
        Fitted(c) \/ (faults = MaxFaults /\ (seed[n] = "ready" \/ Reseeding(c)))
  BY <1>1, FreshOwn
<1> USE <1>1, <1>2 DEF Step, Goto, TInv, TypeOK, Fitted, Reseeding, TeardownLabels
<1>4. CASE Fail(c)
  <2>1. overlay' = overlay /\ seed' = seed /\ pc[c] \in CallLabels
    BY <1>4 DEF Fail, hostVars
  <2>2. CASE Refused(c)
    <3>1. ~Fitted(c) /\ ~Reseeding(c)
      BY <2>1, <2>2, Refusals
    <3> QED BY <1>3, <2>1, <3>1
  <2>3. CASE ~Refused(c)
    <3>1. faults < MaxFaults /\ faults' = MaxFaults
      BY <1>4, <2>3, ConstantsAssumption DEF Fail
    <3>2. Fitted(c)
      BY <1>3, <2>1, <3>1
    <3>3. seed[n] = "ready"
      BY <3>2 DEF PartsKnown, SeedKnown, DomainKnown
    <3> QED BY <2>1, <3>1, <3>3
  <2> QED BY <2>2, <2>3
<1>5. CASE CreateDisk(c)
  <2>1. pc[c] = "disk_create" /\ job' = job
        /\ pc'[c] = IF job[c].op = "create" THEN "define" ELSE "net"
    BY <1>5 DEF CreateDisk
  <2> QED BY <2>1 DEF PartsKnown, RouteKnown
<1>6. CASE DefineDomain(c) \/ WriteSpec(c) \/ EnsureNetwork(c)
  <2>1. /\ overlay' = overlay /\ seed' = seed /\ job' = job /\ faults' = faults
        /\ \/ pc[c] = "define" /\ pc'[c] = "write"
           \/ pc[c] = "write" /\ pc'[c] = "boot"
           \/ pc[c] = "cv_write" /\ pc'[c] = "get"
           \/ pc[c] = "net" /\ (job[c].op # "create" => pc'[c] = "boot")
    BY <1>6 DEF DefineDomain, WriteSpec, EnsureNetwork
  <2> QED BY <1>3, <2>1 DEF DomainKnown, ConvergeLabels
<1>7. CASE DeleteOldSeed(c) \/ CreateSeed(c) \/ UploadSeed(c)
  <2>1. /\ overlay' = overlay /\ faults' = faults
        /\ \/ pc[c] = "seed" /\ pc'[c] = "seed_create"
           \/ pc[c] = "seed_create" /\ pc'[c] = "seed_upload"
           \/ pc[c] = "seed_upload" /\ seed'[n] = "ready"
    BY <1>7 DEF DeleteOldSeed, CreateSeed, UploadSeed
  <2> QED BY <1>3, <2>1
<1>8. CASE Boot(c) \/ DeleteOldDisk(c) \/ RemoveDisk(c)
  <2>1. overlay'[n] # "fresh"
    BY <1>8 DEF Boot, DeleteOldDisk, RemoveDisk
  <2> QED BY <2>1
<1>9. CASE RemoveSeed(c)
  <2>1. overlay[n] = "absent" /\ overlay' = overlay
    BY <1>9 DEF RemoveSeed, PartsKnown, TeardownKnown
  <2> QED BY <2>1
<1>10. CASE \/ Find(c) \/ DefineFilter(c) \/ RegisterDns(c) \/ Converge(c) \/ Read(c)
            \/ Operate(c) \/ FindDomain(c) \/ UndefineDomain(c) \/ RemoveFilter(c)
            \/ UnregisterDns(c) \/ Return(c)
  <2>1. /\ overlay' = overlay /\ seed' = seed /\ faults' = faults
        /\ ~Fitted(c) /\ ~Reseeding(c)
    BY <1>10 DEF Find, FindNothing, FindConflict, FindEqual, FindRunning, FindDifferent,
       DefineFilter, RegisterDns, Converge, RedefineDomain, UndefineFilter, Read, Get, ReadLease,
       Operate,
       LookupNothing, LookupServer, CheckActive, PowerOff, AskGuest, FindDomain, UndefineDomain,
       RemoveFilter, UnregisterDns, Return, Outcomes, hostVars
  <2> QED BY <1>3, <2>1
<1> QED
  BY <1>4, <1>5, <1>6, <1>7, <1>8, <1>9, <1>10 DEF Advance, Provision, Teardown

\* Every step preserves the invariant.
LEMMA NextFreshInv ==
  ASSUME OneProcess, NoCrash, MaxFaults <= 1, TInv, TInv', SInv, PInv, FreshInv, [Next]_vars
  PROVE  FreshInv'
<1> SUFFICES ASSUME NEW n \in Names PROVE Fresh(n)'
  BY DEF FreshInv
<1>1. Fresh(n) /\ (faults = MaxFaults => faults' = MaxFaults)
  BY FaultsStay, ConstantsAssumption DEF FreshInv, TInv, TypeOK
<1>2. ASSUME NEW c \in Clients, Advance(c) PROVE Fresh(n)'
  <2>1. CASE n = NameOf(c)
    <3>1. SUFFICES ASSUME overlay'[n] = "fresh" PROVE Fresh(n)'
      BY DEF Fresh
    <3>2. \/ pc'[c] # "idle" /\ Fitted(c)'
          \/ faults' = MaxFaults /\ (seed'[n] = "ready" \/ Reseeding(c)')
      BY <1>1, <1>2, <2>1, <3>1, FreshAdvance
    <3>3. Fitted(c)' \/ Reseeding(c)' => NameOf(c)' = n
      BY <1>2, <2>1, NameStays DEF Fitted, Reseeding
    <3> QED BY <3>2, <3>3 DEF Fresh
  <2>2. CASE n # NameOf(c)
    <3>1. \A d \in Clients : (Fitted(d) \/ Reseeding(d)) /\ NameOf(d) = n
                                => pc'[d] = pc[d] /\ job'[d] = job[d]
      BY <1>2, <2>2, AdvanceFrame
    <3>2. overlay'[n] = overlay[n] /\ seed'[n] = seed[n]
      BY <1>2, <2>2, AdvanceFrame
    <3> QED BY <1>1, <3>1, <3>2, FreshKept
  <2> QED BY <2>1, <2>2
<1>3. ASSUME NEW c \in Clients, Begin(c) PROVE Fresh(n)'
  <2>1. /\ UNCHANGED hostVars /\ pc[c] = "idle"
        /\ \A d \in Clients \ {c} : pc'[d] = pc[d] /\ job'[d] = job[d]
    BY <1>3 DEF Begin, Goto, TInv, TypeOK
  <2> QED BY <1>1, <2>1, FreshKept DEF hostVars, Fitted, Reseeding
<1>4. ASSUME UNCHANGED <<overlay, seed, pc, job>> PROVE Fresh(n)'
  BY <1>1, <1>4, FreshKept
<1>5. ~Reboot /\ \A m \in Managers : ~Crash(m)
  BY DEF NoCrash, Reboot, Crash
<1> QED
  BY <1>2, <1>3, <1>4, <1>5 DEF Next, GuestHalt, vars

\* The invariant holds in every reachable state of one process that does not crash.
LEMMA SpecFreshInv ==
  ASSUME OneProcess, NoCrash, MaxFaults <= 1 PROVE Spec => [](TInv /\ SInv /\ PInv /\ FreshInv)
<1>1. Init => FreshInv
  BY DEF Init, FreshInv, Fresh
<1>2. TInv /\ TInv' /\ SInv /\ PInv /\ FreshInv /\ [Next]_vars => FreshInv'
  BY NextFreshInv
<1> QED
  BY <1>1, <1>2, SpecPInv, PTL DEF Spec

\* FirstBootSeeded holds if one call fails at most: a disk is initialised only from a
\* complete seed, also by a start after the reinstall that failed.
THEOREM FirstBootIsSeeded ==
  OneProcess /\ NoCrash /\ MaxFaults <= 1 => (Spec => FirstBootSeeded)
<1> SUFFICES ASSUME OneProcess, NoCrash, MaxFaults <= 1 PROVE Spec => FirstBootSeeded
  OBVIOUS
<1> DEFINE Step1 == \A n \in Names : overlay[n] = "fresh" /\ overlay'[n] = "booted"
                                       => seed[n] = "ready"
<1>1. ASSUME TInv, SInv, PInv, FreshInv, [Next]_vars PROVE [Step1]_vars
  <2> SUFFICES ASSUME NEW n \in Names, overlay[n] = "fresh", overlay'[n] = "booted"
               PROVE  seed[n] = "ready"
    OBVIOUS
  <2>1. PICK c \in Clients : Boot(c) /\ NameOf(c) = n
    <3>1. PICK c \in Clients : Advance(c)
      BY <1>1 DEF Next, Begin, GuestHalt, Crash, Reboot, Die, vars, hostVars
    <3>2. NameOf(c) = n
      BY <1>1, <3>1, AdvanceFrame
    <3>3. Boot(c)
      BY <1>1, <3>1, <3>2
         DEF Advance, Find, FindNothing, FindConflict, FindEqual, FindRunning,
         FindDifferent, Provision, EnsureNetwork, DefineFilter, DeleteOldSeed, CreateSeed,
         UploadSeed, DeleteOldDisk, CreateDisk, DefineDomain, WriteSpec, RegisterDns,
         Converge, RedefineDomain, UndefineFilter, Read, Get, ReadLease, Operate, LookupNothing,
         LookupServer,
         CheckActive, PowerOff, AskGuest, Teardown, FindDomain, UndefineDomain, RemoveFilter,
         RemoveDisk, RemoveSeed, UnregisterDns, Fail, Return, hostVars, TInv, TypeOK
    <3> QED BY <3>1, <3>2, <3>3
  <2>2. pc[c] = "boot"
    BY <2>1 DEF Boot, Step
  <2>3. Fitted(c) \/ (faults = MaxFaults /\ (seed[n] = "ready" \/ Reseeding(c)))
    BY <1>1, <2>1, <2>2, FreshOwn DEF FreshInv
  <2>4. CASE Fitted(c)
    BY <1>1, <2>1, <2>2, <2>4 DEF Fitted, PInv, PartsKnown, SeedKnown
  <2> QED BY <2>2, <2>3, <2>4 DEF Reseeding
<1> QED
  BY SpecFreshInv, <1>1, PTL DEF Spec, FirstBootSeeded

================================================================================
