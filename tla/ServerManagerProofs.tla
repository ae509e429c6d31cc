-------------------------- MODULE ServerManagerProofs --------------------------
(***************************************************************************)
(* Proofs about ServerManager for any clients, names, specs, failures and  *)
(* environment.                                                            *)
(***************************************************************************)
EXTENDS ServerManager, TLAPS

\* What client c knows: its job, the spec of its server and its handle.
LocalInv(c) ==
    /\ pc[c] \in {"lookup", "acpi"} => job[c].op # "create"
    /\ pc[c] = "find" => job[c].op = "create"
    /\ pc[c] = "off" => job[c].op # "start"
    /\ pc[c] = "filter" => job[c].op = "create"
    /\ pc[c] \in {"seed", "seed_create", "seed_upload"} => job[c].op \in {"create", "reinstall"}
    /\ pc[c] = "check" => job[c].op = "reinstall"
    /\ pc[c] \in TeardownLabels => job[c].op \in {"create", "delete"}
    /\ pc[c] # "idle" => job[c] \in Jobs
    /\ pc[c] # "idle" /\ (job[c].op = "create" \/ pc[c] \notin {"lookup", "error", "notfound"})
         => job[c].spec \in Wanted
    /\ \/ /\ pc[c] \notin {"idle", "lookup", "error", "notfound"}
          /\ job[c].op # "create"
       \/ pc[c] \in {"cv_filter", "cv_define", "cv_undefine", "cv_write",
                     "write", "boot", "dns", "get", "lease"}
       => snap[c] \in Domains

TInv == TypeOK /\ \A c \in Clients : LocalInv(c)

\* The typing invariant holds initially.
LEMMA InitTInv == ASSUME Init PROVE TInv
  BY ConstantsAssumption DEF Init, TInv, TypeOK, LocalInv, Domains, Labels, InsideLabels,
     TeardownLabels

\* A successful call stays within the labels and keeps the rest of the state.
LEMMA StepEffect ==
  ASSUME TInv, NEW c \in Clients, NEW l \in InsideLabels, NEW next \in InsideLabels,
         Step(c, l, next)
  PROVE  /\ pc[c] = l /\ ~Refused(c)
         /\ pc' \in [Clients -> Labels]
         /\ pc' = [pc EXCEPT ![c] = next]
         /\ pc'[c] = next
         /\ job[c] \in Jobs
         /\ holder' = holder /\ job' = job /\ faults' = faults
  BY DEF Step, Goto, TInv, TypeOK, LocalInv, Labels, InsideLabels, CallLabels, TryLabels,
     TeardownLabels, Outcomes

\* Only what c itself knows changes when c moves.
LEMMA LocalFrame ==
  ASSUME TInv, NEW c \in Clients, NEW next, pc' = [pc EXCEPT ![c] = next],
         \A d \in Clients \ {c} : job'[d] = job[d] /\ snap'[d] = snap[d],
         LocalInv(c)'
  PROVE  \A d \in Clients : LocalInv(d)'
  BY DEF TInv, TypeOK, LocalInv

\* A request that gets its lock keeps the types.
LEMMA BeginTInv == ASSUME TInv, NEW c \in Clients, Begin(c) PROVE TInv'
<1> USE DEF TInv, TypeOK
<1>1. PICK j \in CreateJobs \cup OtherJobs :
        /\ holder' = [holder EXCEPT ![ManagerOf[c]][j.name] = c]
        /\ job' = [job EXCEPT ![c] = j]
        /\ pc' = [pc EXCEPT ![c] = IF j.op = "create" THEN "find" ELSE "lookup"]
  BY DEF Begin, Goto
<1>2. /\ j \in Jobs
      /\ j.op = "create" => j.spec \in Wanted
  BY DEF CreateJobs, OtherJobs, Jobs
<1>3. TypeOK'
  BY <1>1, <1>2, ConstantsAssumption
     DEF Begin, hostVars, Labels, InsideLabels, CallLabels, Jobs
<1>4. LocalInv(c)'
  BY <1>1, <1>2 DEF LocalInv, Begin, TeardownLabels
<1> QED
  BY <1>1, <1>3, <1>4, LocalFrame DEF Begin

\* Leaving an operation keeps the types.
LEMMA ReturnTInv == ASSUME TInv, NEW c \in Clients, Return(c) PROVE TInv'
<1>1. TypeOK'
  BY ConstantsAssumption DEF TInv, TypeOK, Return, Goto, hostVars, Labels
<1>2. LocalInv(c)'
  BY DEF TInv, TypeOK, Return, Goto, LocalInv, TeardownLabels
<1> QED
  BY <1>1, <1>2, LocalFrame DEF TInv, TypeOK, Return, Goto

\* A call that raises keeps the types.
LEMMA FailTInv == ASSUME TInv, NEW c \in Clients, Fail(c) PROVE TInv'
<1>0. faults' \in 0 .. MaxFaults
  BY ConstantsAssumption DEF Fail, TInv, TypeOK
<1>1. /\ HandlerOf(c) \in {"td_find", "error"}
      /\ HandlerOf(c) = "td_find" => job[c].op = "create"
  BY DEF HandlerOf
<1>2. TypeOK'
  BY <1>0, <1>1 DEF TInv, TypeOK, Fail, Goto, hostVars, Labels, InsideLabels, CallLabels,
     TeardownLabels, Outcomes
<1>3. LocalInv(c)'
  BY <1>1 DEF TInv, TypeOK, Fail, Goto, LocalInv, CallLabels, TryLabels, TeardownLabels
<1> QED
  BY <1>2, <1>3, LocalFrame DEF TInv, TypeOK, Fail, Goto

\* What create finds under its name keeps the types.
LEMMA FindTInv == ASSUME TInv, NEW c \in Clients, Find(c) PROVE TInv'
<1> USE DEF hostVars, Changeable, Managed, InsideLabels, CallLabels, TryLabels, Outcomes,
            TeardownLabels
<1>1. \E next \in {"net", "conflict", "get", "running", "cv_filter", "cv_define"} :
        Step(c, "find", next)
  BY DEF Find, FindNothing, FindConflict, FindEqual, FindRunning, FindDifferent
<1>2. PICK next \in {"net", "conflict", "get", "running", "cv_filter", "cv_define"} :
        Step(c, "find", next)
  BY <1>1
<1>3. /\ pc[c] = "find" /\ job[c] \in Jobs
      /\ pc' \in [Clients -> Labels] /\ pc' = [pc EXCEPT ![c] = next] /\ pc'[c] = next
      /\ holder' = holder /\ job' = job /\ faults' = faults
  BY <1>2, StepEffect
<1>4. /\ UNCHANGED hostVars
      /\ \/ snap' = snap /\ next \in {"net", "conflict", "running"}
         \/ dom[NameOf(c)] # None /\ snap' = [snap EXCEPT ![c] = dom[NameOf(c)]]
  BY <1>3 DEF Find, FindNothing, FindConflict, FindEqual, FindRunning, FindDifferent, Step, Goto,
              TInv, TypeOK
<1>5. NameOf(c) \in Names /\ (dom[NameOf(c)] # None => dom[NameOf(c)] \in Domains)
  BY <1>3 DEF TInv, TypeOK, NameOf, Jobs
<1>6. TypeOK'
  BY <1>3, <1>4, <1>5 DEF TInv, TypeOK
<1>7. LocalInv(c)'
  BY <1>3, <1>4, <1>5 DEF TInv, TypeOK, LocalInv
<1> QED
  BY <1>3, <1>4, <1>6, <1>7, LocalFrame DEF TInv, TypeOK

\* The calls that build a server keep the types.
LEMMA ProvisionTInv == ASSUME TInv, NEW c \in Clients, Provision(c) PROVE TInv'
<1> DEFINE n == NameOf(c)  s == job[c].spec
<1> USE ConstantsAssumption DEF InsideLabels, CallLabels, TryLabels, Outcomes, TeardownLabels
<1>1. PICK l \in InsideLabels, next \in InsideLabels :
        /\ Step(c, l, next)
        /\ l \in TryLabels \cup {"cv_filter", "cv_write", "dns"}
        /\ next \in TryLabels \cup {"cv_define", "check", "dns", "get"}
        /\ next = "cv_define" => l = "cv_filter"
        /\ next = "filter" => job[c].op = "create"
        /\ next = "seed" => job[c].op = "create" \/ l = "filter"
        /\ next = "seed_create" => l = "seed"
        /\ next = "seed_upload" => l = "seed_create"
        /\ next = "check" => l = "seed_upload" /\ job[c].op # "create"
        /\ next = "write" => l = "define"
        /\ next = "boot" => l = "write" \/ job[c].op # "create"
        /\ next = "dns" => l = "boot"
        /\ next = "get" => l \in {"boot", "cv_write", "dns"}
  BY DEF Provision, EnsureNetwork, DefineFilter, DeleteOldSeed, CreateSeed, UploadSeed,
     DeleteOldDisk, CreateDisk, DefineDomain, WriteSpec, Boot, RegisterDns
<1>2. /\ pc[c] = l /\ job[c] \in Jobs /\ ~Refused(c)
      /\ pc' \in [Clients -> Labels] /\ pc' = [pc EXCEPT ![c] = next] /\ pc'[c] = next
      /\ holder' = holder /\ job' = job /\ faults' = faults
  BY <1>1, StepEffect
<1>3. n \in Names /\ s \in Wanted /\ s \in Specs
  BY <1>1, <1>2 DEF TInv, TypeOK, LocalInv, NameOf, Jobs
<1>4. \/ snap' = snap
      \/ l = "define" /\ \E d \in Domains : snap' = [snap EXCEPT ![c] = d]
  BY <1>2, <1>3 DEF Provision, EnsureNetwork, DefineFilter, DeleteOldSeed, CreateSeed, UploadSeed,
     DeleteOldDisk, CreateDisk, DefineDomain, WriteSpec, Boot, RegisterDns, Step, Goto,
     Domains, FreshUuids, Specs, TInv, TypeOK
<1>5. dom' \in [Names -> Domains \cup {None}]
  <2>1. CASE DefineDomain(c)
    BY <1>3, <2>1 DEF DefineDomain, Domains, FreshUuids, Specs, TInv, TypeOK
  <2>2. CASE WriteSpec(c)
    <3>1. dom[n] \in Domains
      BY <1>2, <1>3, <2>2 DEF WriteSpec, Step, Refused, Stale, TInv, TypeOK
    <3> QED BY <1>3, <2>2, <3>1 DEF WriteSpec, Domains, TInv, TypeOK
  <2>3. CASE Boot(c)
    <3>1. dom[n] \in Domains
      BY <1>2, <1>3, <2>3 DEF Boot, Step, Refused, Stale, TInv, TypeOK
    <3> QED BY <1>3, <2>3, <3>1 DEF Boot, Domains, TInv, TypeOK
  <2> QED
    BY <2>1, <2>2, <2>3 DEF Provision, EnsureNetwork, DefineFilter, DeleteOldSeed, CreateSeed,
       UploadSeed, DeleteOldDisk, CreateDisk, RegisterDns, TInv, TypeOK
<1>6. /\ filt' \in [Names -> Rules \cup {None}]
      /\ overlay' \in [Names -> {"absent", "fresh", "booted"}]
      /\ seed' \in [Names -> {"absent", "empty", "ready"}]
      /\ up' \subseteq Nets
      /\ dns' \subseteq Names
  BY <1>3 DEF Provision, EnsureNetwork, DefineFilter, DeleteOldSeed, CreateSeed, UploadSeed,
     DeleteOldDisk, CreateDisk, DefineDomain, WriteSpec, Boot, RegisterDns, Specs, TInv, TypeOK
<1>7. TypeOK'
  BY <1>2, <1>4, <1>5, <1>6 DEF TInv, TypeOK
<1>8. LocalInv(c)'
  <2>1. LocalInv(c)
    BY DEF TInv
  <2>2. l = "define" => snap'[c] \in Domains
    <3>1. ASSUME l = "define" PROVE DefineDomain(c)
      BY <1>2, <3>1 DEF Provision, EnsureNetwork, DefineFilter, DeleteOldSeed, CreateSeed,
         UploadSeed, DeleteOldDisk, CreateDisk, WriteSpec, Boot, RegisterDns, Step
    <3>2. ASSUME DefineDomain(c) PROVE snap'[c] \in Domains
      BY <1>3, <3>2 DEF DefineDomain, Domains, FreshUuids, Specs, TInv, TypeOK
    <3> QED BY <3>1, <3>2
  <2>3. snap[c] \in Domains => snap'[c] \in Domains
    BY <1>4, <2>2 DEF TInv, TypeOK
  <2>4. job[c].op # "create" \/ next \in {"cv_define", "write", "boot", "dns", "get"}
          => snap'[c] \in Domains
    BY <1>1, <1>2, <2>1, <2>2, <2>3 DEF LocalInv
  <2> QED BY <1>1, <1>2, <1>3, <2>1, <2>4 DEF LocalInv
<1> QED
  BY <1>2, <1>4, <1>7, <1>8, LocalFrame DEF TInv, TypeOK

\* Convergence and the final read keep the types.
LEMMA ConvergeTInv == ASSUME TInv, NEW c \in Clients, Converge(c) \/ Read(c) PROVE TInv'
<1> DEFINE n == NameOf(c)  s == job[c].spec
<1> USE ConstantsAssumption DEF InsideLabels, CallLabels, TryLabels, Outcomes, TeardownLabels
<1>1. PICK l \in {"cv_define", "cv_undefine", "get", "lease"},
            next \in {"cv_undefine", "cv_write", "notfound", "lease", "created", "ok"} :
        /\ Step(c, l, next)
        /\ next \in {"cv_undefine", "cv_write"} => l \in {"cv_define", "cv_undefine"}
        /\ next = "notfound" => l = "get"
  BY DEF Converge, RedefineDomain, UndefineFilter, Read, Get, ReadLease, Reported
<1>2. /\ pc[c] = l /\ job[c] \in Jobs /\ ~Refused(c)
      /\ pc' \in [Clients -> Labels] /\ pc' = [pc EXCEPT ![c] = next] /\ pc'[c] = next
      /\ holder' = holder /\ job' = job /\ faults' = faults
  BY <1>1, StepEffect
<1>3. n \in Names /\ s \in Wanted /\ s \in Specs
  BY <1>1, <1>2 DEF TInv, TypeOK, LocalInv, NameOf, Jobs
<1>4. /\ \A d \in Clients \ {c} : snap'[d] = snap[d]
      /\ snap' \in [Clients -> Domains \cup {None}]
      /\ snap'[c] \in Domains
  <2>1. snap[c] \in Domains
    BY <1>1, <1>2 DEF TInv, LocalInv
  <2>2. CASE snap' = snap
    BY <2>1, <2>2 DEF TInv, TypeOK
  <2>3. CASE dom[n] # None /\ snap' = [snap EXCEPT ![c].uuid = dom[n].uuid]
    <3>1. dom[n].uuid \in Uuids
      BY <1>3, <2>3 DEF TInv, TypeOK, Domains
    <3>2. [snap[c] EXCEPT !.uuid = dom[n].uuid] \in Domains
      BY <2>1, <3>1 DEF Domains
    <3> QED BY <2>3, <3>2 DEF TInv, TypeOK
  <2> QED BY <2>2, <2>3 DEF Converge, RedefineDomain, UndefineFilter, Read, Get, ReadLease
<1>5. dom' \in [Names -> Domains \cup {None}]
  <2>1. CASE RedefineDomain(c)
    <3>1. snap[c] \in Domains
      BY <1>2, <2>1 DEF RedefineDomain, Step, TInv, LocalInv
    <3>2. Edited(snap[c], s) \in Domains
      BY <1>3, <3>1 DEF Edited, Domains, Specs
    <3>3. (dom[n] # None /\ dom[n].active) \in BOOLEAN
      BY <1>3 DEF TInv, TypeOK, Domains
    <3>4. [Edited(snap[c], s) EXCEPT !.active = dom[n] # None /\ dom[n].active] \in Domains
      BY <3>2, <3>3 DEF Domains
    <3> QED BY <1>3, <2>1, <3>4 DEF RedefineDomain, TInv, TypeOK
  <2> QED
    BY <2>1 DEF Converge, UndefineFilter, Read, Get, ReadLease, hostVars, TInv, TypeOK
<1>6. /\ filt' \in [Names -> Rules \cup {None}]
      /\ UNCHANGED <<overlay, seed, up, dns>>
  BY <1>3 DEF Converge, RedefineDomain, UndefineFilter, Read, Get, ReadLease, hostVars, TInv, TypeOK
<1>7. TypeOK'
  BY <1>2, <1>4, <1>5, <1>6 DEF TInv, TypeOK
<1>8. LocalInv(c)'
  BY <1>1, <1>2, <1>3, <1>4 DEF TInv, TypeOK, LocalInv
<1> QED
  BY <1>2, <1>4, <1>7, <1>8, LocalFrame DEF TInv, TypeOK

\* The lookup of the other operations keeps the types.
LEMMA LookupTInv == ASSUME TInv, NEW c \in Clients, LookupServer(c) PROVE TInv'
<1> DEFINE d == dom[NameOf(c)]
           next == IF d.active THEN WhenOn(job[c]) ELSE WhenOff(job[c])
<1>1. /\ pc[c] = "lookup" /\ job[c] \in Jobs
      /\ d \in Domains /\ d.meta \in Wanted
  BY DEF LookupServer, Managed, NameOf, Jobs, Domains, TInv, TypeOK, LocalInv
<1>2. /\ next \in {"td_find", "seed", "get", "off", "acpi", "net", "notrunning"}
      /\ next = "off" => job[c].op # "start"
      /\ next = "td_find" => job[c].op = "delete"
      /\ next = "seed" => job[c].op = "reinstall"
  BY <1>1 DEF WhenOn, WhenOff, Jobs, TInv, LocalInv
<1>3. next \in Labels
  BY <1>2 DEF Labels, InsideLabels, CallLabels, TryLabels, TeardownLabels, Outcomes
<1>4. TypeOK'
  BY <1>1, <1>3 DEF LookupServer, Goto, hostVars, Jobs, TInv, TypeOK
<1>5. LocalInv(c)'
  BY <1>1, <1>2 DEF LookupServer, Goto, Jobs, TInv, TypeOK, LocalInv, TeardownLabels
<1> QED
  BY <1>4, <1>5, LocalFrame DEF LookupServer, Goto, TInv, TypeOK

\* start, stop, restart and reinstall keep the types.
LEMMA OperateTInv == ASSUME TInv, NEW c \in Clients, Operate(c) PROVE TInv'
<1> DEFINE n == NameOf(c)
<1> USE DEF InsideLabels, CallLabels, TryLabels, Outcomes, TeardownLabels
<1>1. CASE LookupServer(c)
  BY <1>1, LookupTInv
<1>2. CASE LookupNothing(c) \/ CheckActive(c) \/ PowerOff(c) \/ AskGuest(c)
  <2>1. PICK l \in InsideLabels, next \in InsideLabels :
          /\ Step(c, l, next)
          /\ \/ l = "lookup" /\ next = "notfound"
             \/ l = "check" /\ next = "disk_delete"
             \/ l = "check" /\ next = "off" /\ job[c].op # "start"
             \/ l = "off" /\ next = "td_undefine" /\ job[c].op \in {"create", "delete"}
             \/ l = "off" /\ next \in {"get", "net", "disk_delete"} /\ job[c].op # "create"
             \/ l = "acpi" /\ next = "get"
    BY <1>2 DEF LookupNothing, CheckActive, PowerOff, AskGuest, TInv, LocalInv, Jobs, Step
  <2>2. /\ pc[c] = l /\ job[c] \in Jobs /\ ~Refused(c)
        /\ pc' \in [Clients -> Labels] /\ pc' = [pc EXCEPT ![c] = next] /\ pc'[c] = next
        /\ holder' = holder /\ job' = job /\ faults' = faults
    BY <2>1, StepEffect
  <2>3. n \in Names
    BY <2>2 DEF NameOf, Jobs
  <2>4. /\ dom' \in [Names -> Domains \cup {None}]
        /\ UNCHANGED <<filt, overlay, seed, up, dns, snap>>
    <3>1. CASE PowerOff(c)
      <4>1. dom[n] \in Domains
        BY <2>2, <2>3, <3>1 DEF PowerOff, Step, Refused, Stale, TInv, TypeOK
      <4> QED BY <2>3, <3>1, <4>1 DEF PowerOff, Domains, TInv, TypeOK
    <3> QED BY <1>2, <3>1 DEF LookupNothing, CheckActive, AskGuest, hostVars, TInv, TypeOK
  <2>5. TypeOK'
    BY <2>2, <2>4 DEF TInv, TypeOK
  <2>6. LocalInv(c)'
    BY <2>1, <2>2, <2>4 DEF TInv, TypeOK, LocalInv
  <2> QED
    BY <2>2, <2>4, <2>5, <2>6, LocalFrame DEF TInv, TypeOK
<1> QED
  BY <1>1, <1>2 DEF Operate

\* The calls of teardown keep the types.
LEMMA TeardownTInv == ASSUME TInv, NEW c \in Clients, Teardown(c) PROVE TInv'
<1> DEFINE n == NameOf(c)
<1> USE DEF InsideLabels, CallLabels, TryLabels, Outcomes, TeardownLabels
<1>1. PICK l \in TeardownLabels \cup {"td_dns"},
            next \in TeardownLabels \cup {"off", "td_dns", "rolled_back", "ok"} :
        /\ Step(c, l, next)
        /\ next \in TeardownLabels \cup {"off"} => l \in TeardownLabels
  BY DEF Teardown, FindDomain, WithoutDomain, UndefineDomain, RemoveFilter, RemoveDisk,
     RemoveSeed, UnregisterDns
<1>2. /\ pc[c] = l /\ job[c] \in Jobs /\ ~Refused(c)
      /\ pc' \in [Clients -> Labels] /\ pc' = [pc EXCEPT ![c] = next] /\ pc'[c] = next
      /\ holder' = holder /\ job' = job /\ faults' = faults
  BY <1>1, StepEffect
<1>3. n \in Names
  BY <1>2 DEF NameOf, Jobs
<1>4. /\ snap' \in [Clients -> Domains \cup {None}]
      /\ \A d \in Clients \ {c} : snap'[d] = snap[d]
      /\ snap[c] \in Domains => snap'[c] \in Domains
  BY <1>3 DEF Teardown, FindDomain, UndefineDomain, RemoveFilter, RemoveDisk, RemoveSeed,
     UnregisterDns, TInv, TypeOK
<1>5. /\ dom' \in [Names -> Domains \cup {None}]
      /\ filt' \in [Names -> Rules \cup {None}]
      /\ overlay' \in [Names -> {"absent", "fresh", "booted"}]
      /\ seed' \in [Names -> {"absent", "empty", "ready"}]
      /\ up' = up
      /\ dns' \subseteq Names
  BY <1>3 DEF Teardown, FindDomain, UndefineDomain, RemoveFilter, RemoveDisk, RemoveSeed,
     UnregisterDns, hostVars, TInv, TypeOK
<1>6. TypeOK'
  BY <1>2, <1>4, <1>5 DEF TInv, TypeOK
<1>7. LocalInv(c)'
  BY <1>1, <1>2, <1>4 DEF TInv, TypeOK, LocalInv
<1> QED
  BY <1>2, <1>4, <1>6, <1>7, LocalFrame DEF TInv, TypeOK

\* Guests, crashes and reboots keep the types.
LEMMA EnvironmentTInv ==
  ASSUME TInv,
         (\E n \in Names : GuestHalt(n)) \/ (\E m \in Managers : Crash(m)) \/ Reboot
  PROVE  TInv'
<1>1. ASSUME NEW n \in Names, GuestHalt(n) PROVE TInv'
  <2>1. dom[n] \in Domains
    BY <1>1 DEF GuestHalt, TInv, TypeOK
  <2> QED BY <1>1, <2>1 DEF GuestHalt, TInv, TypeOK, LocalInv, Domains
<1>2. ASSUME NEW ms, Die(ms), dom' \in [Names -> Domains \cup {None}], up' \subseteq Nets
      PROVE  TInv'
  <2>1. TypeOK'
    BY <1>2 DEF Die, TInv, TypeOK, Labels
  <2>2. ASSUME NEW c \in Clients PROVE LocalInv(c)'
    BY <1>2, <2>2 DEF Die, TInv, TypeOK, LocalInv, TeardownLabels
  <2> QED BY <2>1, <2>2 DEF TInv
<1>3. ASSUME NEW m \in Managers, Crash(m) PROVE TInv'
  BY <1>2, <1>3 DEF Crash, TInv, TypeOK
<1>4. ASSUME Reboot PROVE TInv'
  <2>1. dom' \in [Names -> Domains \cup {None}]
    <3>1. ASSUME NEW n \in Names, dom[n] # None
          PROVE  [dom[n] EXCEPT !.active = FALSE] \in Domains
      <4>1. dom[n] \in Domains
        BY <3>1 DEF TInv, TypeOK
      <4> QED BY <4>1 DEF Domains
    <3> QED BY <1>4, <3>1 DEF Reboot
  <2> QED BY <1>2, <1>4, <2>1 DEF Reboot
<1> QED
  BY <1>1, <1>3, <1>4

\* Every step preserves the typing invariant.
LEMMA NextTInv == ASSUME TInv, [Next]_vars PROVE TInv'
<1>1. ASSUME UNCHANGED vars PROVE TInv'
  BY <1>1 DEF vars, TInv, TypeOK, LocalInv
<1> QED
  BY <1>1, BeginTInv, FindTInv, ProvisionTInv, ConvergeTInv, OperateTInv, TeardownTInv,
     FailTInv, ReturnTInv, EnvironmentTInv DEF Next, Advance

\* The typing invariant holds in every reachable state.
LEMMA SpecTInv == Spec => []TInv
  BY InitTInv, NextTInv, PTL DEF Spec

\* Every variable keeps its type, for any clients, processes, names and specs.
THEOREM TypeCorrect == Spec => []TypeOK
<1>1. ASSUME TInv PROVE TypeOK
  BY <1>1 DEF TInv
<1> QED
  BY SpecTInv, <1>1, PTL
================================================================================
