--------------------------- MODULE ServerSafetyProofs ---------------------------
(***************************************************************************)
(* Safety of the write operations of one process, proved for any clients,  *)
(* names, specs, failures and environment.  The locks of two processes do  *)
(* not know of each other, hence the hypothesis OneProcess.                *)
(***************************************************************************)
EXTENDS ServerManagerProofs

\* All clients call the same ServerManager.
OneProcess == \A c, d \in Clients : ManagerOf[c] = ManagerOf[d]

\* The calls of create on a name that has no domain yet.
NewLabels == {"net", "filter", "seed", "seed_create", "seed_upload",
              "disk_delete", "disk_create", "define"}

\* The calls made on a server that was found, or removes it.
HaveLabels == {"seed", "seed_create", "seed_upload", "check", "off", "disk_delete",
               "disk_create", "net", "boot", "td_find", "td_undefine"}

ConvergeLabels == {"cv_filter", "cv_define", "cv_undefine", "cv_write"}

\* The calls made on a domain that is off, if there is one.
OffLabels == {"net", "filter", "disk_delete", "disk_create", "define", "write", "boot",
              "td_undefine", "td_filter", "td_disk", "td_seed"} \cup ConvergeLabels

\* The filter named by the definition that c is about to make is there.
FilterReady(c) ==
    /\ pc[c] \in {"filter", "cv_filter"} => job[c].spec.filters # None
    /\ pc[c] \in NewLabels \ {"net", "filter"} /\ job[c].op = "create"
         /\ job[c].spec.filters # None => filt[NameOf(c)] # None
    /\ pc[c] = "cv_define" /\ Edited(snap[c], job[c].spec).filterref
         => filt[NameOf(c)] # None

\* What the position of c says about the domain of its name.
DomainKnown(c) == LET d == dom[NameOf(c)] IN
    /\ pc[c] \in NewLabels /\ job[c].op = "create" => d = None
    /\ pc[c] \in {"write", "boot"} /\ job[c].op = "create" =>
         d # None /\ snap[c] # None /\ d.uuid = snap[c].uuid
    /\ pc[c] = "td_find" /\ job[c].op = "create" /\ d # None =>
         snap[c] # None /\ d.uuid = snap[c].uuid
    /\ pc[c] \in HaveLabels /\ job[c].op # "create" => Managed(d)
    /\ pc[c] = "boot" => Managed(d)
    /\ pc[c] = "write" => d.meta = None
    /\ pc[c] \in ConvergeLabels => /\ Managed(d) /\ d.meta = snap[c].meta
                                   /\ d.meta.rest = job[c].spec.rest
    /\ pc[c] \in ConvergeLabels \cup {"find", "define", "write"} => job[c].op = "create"
    /\ pc[c] = "cv_undefine" => ~d.filterref
    /\ pc[c] = "off" => job[c].op # "create"
    /\ pc[c] = "td_find" /\ job[c].op = "create" => d = None \/ ~d.active
    /\ pc[c] \in OffLabels => d = None \/ ~d.active
    /\ pc[c] \in {"td_filter", "td_disk", "td_seed", "td_dns"} => d = None

\* c is in an operation only with the lock of its name.
HasLock(c) == pc[c] # "idle" => holder[ManagerOf[c]][NameOf(c)] = c

ClientInv(c) == HasLock(c) /\ DomainKnown(c) /\ FilterReady(c)

NameInv(n) == /\ Managed(dom[n]) /\ dom[n].active => overlay[n] # "absent"
              /\ Attached(n) => filt[n] # None

\* The inductive invariant.
SInv == (\A c \in Clients : ClientInv(c)) /\ (\A n \in Names : NameInv(n))

\* Initially nobody works and no domain refers to a filter.
LEMMA InitSInv == ASSUME Init PROVE SInv
<1>1. ASSUME NEW c \in Clients PROVE ClientInv(c)
  BY <1>1 DEF Init, ClientInv, HasLock, DomainKnown, FilterReady, NewLabels, HaveLabels,
     ConvergeLabels, OffLabels
<1>2. ASSUME NEW n \in Names PROVE NameInv(n)
  BY <1>2 DEF Init, NameInv, Managed, Attached
<1> QED
  BY <1>1, <1>2 DEF SInv

\* Two clients of one process never work on the same name.
LEMMA NamesDiffer ==
  ASSUME OneProcess, SInv, NEW c \in Clients, NEW d \in Clients, c # d,
         pc[c] # "idle", pc[d] # "idle"
  PROVE  NameOf(c) # NameOf(d)
  BY DEF OneProcess, SInv, ClientInv, HasLock

\* A call of c concerns no other client and no other name.
LEMMA CallFrame ==
  ASSUME OneProcess, TInv, SInv, NEW c \in Clients, NEW next,
         pc[c] # "idle", pc' = [pc EXCEPT ![c] = next], holder' = holder,
         NameOf(c)' = NameOf(c), NameOf(c) \in Names,
         \A d \in Clients \ {c} : job'[d] = job[d] /\ snap'[d] = snap[d],
         \A n \in Names \ {NameOf(c)} :
           dom'[n] = dom[n] /\ filt'[n] = filt[n] /\ overlay'[n] = overlay[n],
         DomainKnown(c)', FilterReady(c)', NameInv(NameOf(c))'
  PROVE  SInv'
<1>1. ASSUME NEW d \in Clients \ {c} PROVE ClientInv(d)'
  <2>1. pc'[d] = pc[d] /\ job'[d] = job[d] /\ snap'[d] = snap[d]
    BY DEF TInv, TypeOK
  <2>2. CASE pc[d] = "idle"
    BY <2>1, <2>2 DEF ClientInv, HasLock, DomainKnown, FilterReady, NewLabels, HaveLabels,
       ConvergeLabels, OffLabels
  <2>3. CASE pc[d] # "idle"
    <3>1. NameOf(d)' = NameOf(d) /\ NameOf(d) \in Names \ {NameOf(c)}
      BY <2>1, <2>3, NamesDiffer DEF TInv, LocalInv, Jobs, NameOf
    <3>2. dom'[NameOf(d)] = dom[NameOf(d)] /\ filt'[NameOf(d)] = filt[NameOf(d)]
      BY <3>1
    <3>3. ClientInv(d)
      BY DEF SInv
    <3>4. HasLock(d)'
      BY <2>1, <3>1, <3>3 DEF ClientInv, HasLock
    <3>5. DomainKnown(d)'
      BY <2>1, <3>1, <3>2, <3>3 DEF ClientInv, DomainKnown, Managed
    <3>6. FilterReady(d)'
      BY <2>1, <3>1, <3>2, <3>3 DEF ClientInv, FilterReady, Edited
    <3> QED BY <3>4, <3>5, <3>6 DEF ClientInv
  <2> QED BY <2>2, <2>3
<1>2. HasLock(c)'
  BY DEF SInv, ClientInv, HasLock, NameOf
<1>3. ASSUME NEW n \in Names PROVE NameInv(n)'
  BY DEF SInv, NameInv, Managed, Attached
<1> QED
  BY <1>1, <1>2, <1>3 DEF SInv, ClientInv

\* What follows from c being in an operation.
LEMMA InsideFacts ==
  ASSUME TInv, SInv, NEW c \in Clients, pc[c] # "idle"
  PROVE  /\ NameOf(c) \in Names /\ job[c] \in Jobs
         /\ dom[NameOf(c)] \in Domains \cup {None}
         /\ DomainKnown(c) /\ FilterReady(c) /\ NameInv(NameOf(c))
  BY DEF TInv, TypeOK, LocalInv, Jobs, NameOf, SInv, ClientInv

\* A call that succeeds and touches neither another client nor another name
\* preserves the invariant if what c knows and its name's invariant hold after.
LEMMA StepFrame ==
  ASSUME OneProcess, TInv, SInv, NEW c \in Clients,
         NEW l \in InsideLabels, NEW next \in InsideLabels, Step(c, l, next),
         \A d \in Clients \ {c} : snap'[d] = snap[d],
         \A n \in Names \ {NameOf(c)} :
           dom'[n] = dom[n] /\ filt'[n] = filt[n] /\ overlay'[n] = overlay[n],
         DomainKnown(c)', FilterReady(c)', NameInv(NameOf(c))'
  PROVE  SInv'
<1>1. /\ pc[c] = l /\ job[c] \in Jobs /\ holder' = holder /\ job' = job
      /\ pc' = [pc EXCEPT ![c] = next]
  BY StepEffect
<1>2. pc[c] # "idle"
  BY <1>1 DEF InsideLabels, CallLabels, TryLabels, TeardownLabels, Outcomes
<1> QED
  BY <1>1, <1>2, CallFrame DEF NameOf, Jobs

\* The calls by which create looks at its name preserve the invariant.
LEMMA FindSInv ==
  ASSUME OneProcess, TInv, SInv, NEW c \in Clients, Find(c) PROVE SInv'
<1> DEFINE n == NameOf(c)
<1>1. PICK next \in {"net", "conflict", "get", "running", "cv_filter", "cv_define"} :
        /\ Step(c, "find", next)
        /\ next = "net" => dom[n] = None
        /\ next \in {"cv_filter", "cv_define"} => FindDifferent(c)
  BY DEF Find, FindNothing, FindConflict, FindEqual, FindRunning, FindDifferent
<1>2. /\ pc[c] = "find" /\ job[c] \in Jobs /\ job' = job
      /\ pc' = [pc EXCEPT ![c] = next] /\ pc'[c] = next
  BY <1>1, StepEffect DEF InsideLabels, CallLabels, TryLabels, TeardownLabels, Outcomes
<1>3. /\ n \in Names /\ dom[n] \in Domains \cup {None}
      /\ DomainKnown(c) /\ FilterReady(c) /\ NameInv(n)
  BY <1>2, InsideFacts
<1>4. UNCHANGED hostVars /\ \A d \in Clients \ {c} : snap'[d] = snap[d]
  BY DEF Find, FindNothing, FindConflict, FindEqual, FindRunning, FindDifferent, TInv, TypeOK
<1>5. DomainKnown(c)' /\ FilterReady(c)'
  <2>1. CASE next \in {"cv_filter", "cv_define"}
    <3>1. /\ pc'[c] = next /\ job' = job /\ dom' = dom /\ filt' = filt
          /\ Managed(dom[n]) /\ ~dom[n].active
          /\ snap'[c] = dom[n] /\ job[c].op = "create"
          /\ dom[n].meta.rest = job[c].spec.rest
          /\ next = "cv_filter" => job[c].spec.filters \notin {None, dom[n].meta.filters}
          /\ next = "cv_define" => job[c].spec.filters \in {None, dom[n].meta.filters}
      BY <1>1, <1>2, <1>3, <2>1 DEF FindDifferent, Changeable, OnlyMutableDiffer, MayConverge,
         Step, Goto, hostVars,
         DomainKnown, TInv, TypeOK
    <3>2. DomainKnown(c)'
      BY <2>1, <3>1 DEF DomainKnown, Managed, NameOf, NewLabels, HaveLabels, ConvergeLabels,
         OffLabels
    <3>3. next = "cv_define" /\ Edited(dom[n], job[c].spec).filterref => filt[n] # None
      <4>1. dom[n] \in Domains
        BY <1>3, <3>1 DEF Managed
      <4>2. Edited(dom[n], job[c].spec).filterref =
              IF job[c].spec.filters = dom[n].meta.filters THEN dom[n].filterref
                                                           ELSE job[c].spec.filters # None
        BY <4>1 DEF Edited, Domains
      <4> QED BY <1>3, <3>1, <4>1, <4>2 DEF NameInv, Attached, Managed
    <3>4. FilterReady(c)'
      BY <2>1, <3>1, <3>3 DEF FilterReady, NewLabels, NameOf
    <3> QED BY <3>2, <3>4
  <2>2. CASE next \in {"net", "conflict", "get", "running"}
    BY <1>1, <1>2, <1>3, <1>4, <2>2
       DEF DomainKnown, FilterReady, hostVars, NameOf, NewLabels, HaveLabels, ConvergeLabels,
       OffLabels
  <2> QED BY <2>1, <2>2
<1>6. NameInv(n)'
  BY <1>2, <1>3, <1>4 DEF NameInv, Managed, Attached, hostVars, NameOf
<1> QED
  BY <1>1, <1>4, <1>5, <1>6, StepFrame
     DEF hostVars, InsideLabels, CallLabels, TryLabels, TeardownLabels, Outcomes

\* The calls that build a server preserve the invariant.
LEMMA ProvisionSInv ==
  ASSUME OneProcess, TInv, SInv, NEW c \in Clients, Provision(c) PROVE SInv'
<1>1. PICK l \in InsideLabels, next \in InsideLabels :
        /\ Step(c, l, next)
        /\ l \in TryLabels \cup {"cv_filter", "cv_write", "dns"}
  BY DEF Provision, EnsureNetwork, DefineFilter, DeleteOldSeed, CreateSeed, UploadSeed,
     DeleteOldDisk, CreateDisk, DefineDomain, WriteSpec, Boot, RegisterDns,
     InsideLabels, CallLabels, TryLabels, TeardownLabels, Outcomes
<1>2. /\ pc[c] = l /\ job[c] \in Jobs /\ ~Refused(c) /\ job' = job
      /\ pc' = [pc EXCEPT ![c] = next] /\ pc'[c] = next
      /\ pc[c] # "idle"
  BY <1>1, StepEffect DEF TryLabels
<1>3. PICK n \in Names :
        /\ NameOf(c) = n /\ NameOf(c)' = n
        /\ dom[n] \in Domains \cup {None}
        /\ DomainKnown(c) /\ FilterReady(c) /\ NameInv(n)
  BY <1>2, InsideFacts DEF NameOf
<1>4. PICK s \in Wanted : LocalInv(c) /\ s = job[c].spec /\ s \in Specs
  BY <1>1, <1>2, ConstantsAssumption DEF TInv, LocalInv, TryLabels
<1>5. /\ \A d \in Clients \ {c} : snap'[d] = snap[d]
      /\ \A m \in Names \ {n} : dom'[m] = dom[m] /\ filt'[m] = filt[m] /\ overlay'[m] = overlay[m]
  BY <1>3 DEF Provision, EnsureNetwork, DefineFilter, DeleteOldSeed, CreateSeed, UploadSeed,
     DeleteOldDisk, CreateDisk, DefineDomain, WriteSpec, Boot, RegisterDns, TInv, TypeOK
<1>6. DomainKnown(c)' /\ FilterReady(c)' /\ NameInv(n)'
  <2> USE <1>2, <1>3, <1>4 DEF DomainKnown, FilterReady, NewLabels, HaveLabels, ConvergeLabels,
  OffLabels
  <2>1. CASE EnsureNetwork(c)
    BY <1>4, <2>1 DEF EnsureNetwork, Step, Goto, NameInv, Managed, Attached, TInv, TypeOK, NameOf
  <2>2. CASE DefineFilter(c)
    <3>1. /\ filt'[n] = s.filters /\ dom' = dom /\ overlay' = overlay /\ snap' = snap
          /\ l \in {"filter", "cv_filter"}
          /\ next = IF l = "filter" THEN "seed" ELSE "cv_define"
      BY <2>2 DEF DefineFilter, Step, Goto, TInv, TypeOK
    <3>2. s.filters # None
      BY <3>1
    <3>3. NameInv(n)'
      BY <3>1, <3>2 DEF NameInv, Managed, Attached
    <3>4. FilterReady(c)'
      BY <3>1, <3>2
    <3>5. DomainKnown(c)'
      BY <1>4, <3>1 DEF Managed, LocalInv
    <3> QED BY <3>3, <3>4, <3>5
  <2>3. CASE DeleteOldSeed(c)
    BY <2>3 DEF DeleteOldSeed, Step, Goto, NameInv, Managed, Attached, TInv, TypeOK, NameOf
  <2>4. CASE CreateSeed(c)
    BY <2>4 DEF CreateSeed, Step, Goto, NameInv, Managed, Attached, TInv, TypeOK, NameOf
  <2>5. CASE UploadSeed(c)
    BY <1>4, <2>5 DEF UploadSeed, Step, Goto, NameInv, Managed, Attached, TInv, TypeOK, NameOf,
       LocalInv
  <2>6. CASE DeleteOldDisk(c)
    BY <2>6 DEF DeleteOldDisk, Step, Goto, NameInv, Managed, Attached, TInv, TypeOK, NameOf
  <2>7. CASE CreateDisk(c)
    BY <2>7 DEF CreateDisk, Step, Goto, NameInv, Managed, Attached, TInv, TypeOK, NameOf
  <2>8. CASE DefineDomain(c)
    <3>1. PICK u \in FreshUuids :
            \E b \in BOOLEAN :
              LET d == [uuid |-> u, meta |-> None, size |-> s.size,
                        filterref |-> b, active |-> FALSE] IN
              dom'[n] = d /\ snap'[c] = d /\ (b <=> s.filters # None)
      BY <2>8 DEF DefineDomain, TInv, TypeOK
    <3>2. /\ l = "define" /\ next = "write" /\ filt' = filt /\ overlay' = overlay
          /\ dom[n] = None
      BY <2>8 DEF DefineDomain, Step, Goto, Refused, TInv, TypeOK
    <3>3. job[c].op = "create"
      BY <3>2
    <3>4. dom'[n] \in Domains /\ snap'[c] \in Domains
      BY <1>4, <3>1 DEF Domains, FreshUuids, Specs
    <3>5. dom'[n] # None /\ snap'[c] # None
      BY <3>4, ConstantsAssumption
    <3>6. NameInv(n)'
      <4>1. dom'[n].meta = None
        BY <3>1
      <4>2. dom'[n].filterref => s.filters # None
        BY <3>1
      <4>3. s.filters # None => filt[n] # None
        BY <3>2, <3>3
      <4> QED BY <3>2, <4>1, <4>2, <4>3 DEF NameInv, Managed, Attached
    <3>7. FilterReady(c)'
      BY <3>2
    <3>8. DomainKnown(c)'
      BY <3>1, <3>2, <3>3, <3>5
    <3> QED BY <3>6, <3>7, <3>8
  <2>9. CASE WriteSpec(c)
    <3>1. /\ \/ l = "write" /\ next = "boot"
             \/ l = "cv_write" /\ next = "get"
          /\ dom' = [dom EXCEPT ![n].meta = s]
          /\ filt' = filt /\ overlay' = overlay /\ snap' = snap
      BY <2>9 DEF WriteSpec, Step, Goto, TInv, TypeOK
    <3>2. dom[n] # None /\ ~Stale(c)
      BY <3>1 DEF Refused, Stale
    <3>3. /\ dom'[n] = [dom[n] EXCEPT !.meta = s]
          /\ dom'[n] \in Domains
      BY <1>4, <3>1, <3>2 DEF Domains, TInv, TypeOK
    <3>4. /\ dom'[n] # None /\ dom'[n].meta # None
          /\ dom'[n].active = dom[n].active /\ dom'[n].uuid = dom[n].uuid
          /\ dom'[n].filterref = dom[n].filterref
      BY <1>4, <3>2, <3>3, ConstantsAssumption DEF Domains
    <3>5. ~dom[n].active
      BY <3>1, <3>2
    <3>6. NameInv(n)'
      BY <3>1, <3>2, <3>4, <3>5 DEF NameInv, Managed, Attached
    <3>7. FilterReady(c)'
      BY <3>1
    <3>8. DomainKnown(c)'
      BY <3>1, <3>2, <3>4, <3>5 DEF Managed
    <3> QED BY <3>6, <3>7, <3>8
  <2>10. CASE Boot(c)
    <3>1. /\ next \in {"dns", "get"} /\ dom' = [dom EXCEPT ![n].active = TRUE]
          /\ overlay'[n] = "booted" /\ filt' = filt
      BY <2>10 DEF Boot, Step, Goto, TInv, TypeOK
    <3>2. dom[n] # None
      BY <2>10 DEF Boot, Step, Refused, Stale
    <3>3. /\ dom'[n] # None /\ dom'[n].meta = dom[n].meta
          /\ dom'[n].filterref = dom[n].filterref
      <4>1. dom'[n] = [dom[n] EXCEPT !.active = TRUE] /\ dom'[n] \in Domains
        BY <3>1, <3>2 DEF Domains, TInv, TypeOK
      <4> QED BY <3>2, <4>1, ConstantsAssumption DEF Domains
    <3>4. NameInv(n)'
      BY <3>1, <3>2, <3>3 DEF NameInv, Managed, Attached
    <3> QED BY <3>1, <3>4
  <2>11. CASE RegisterDns(c)
    BY <2>11 DEF RegisterDns, Step, Goto, NameInv, Managed, Attached, TInv, TypeOK, NameOf
  <2> QED
    BY <2>1, <2>2, <2>3, <2>4, <2>5, <2>6, <2>7, <2>8, <2>9, <2>10, <2>11 DEF Provision
<1> QED
  BY <1>1, <1>3, <1>5, <1>6, StepFrame

\* Convergence, and the final read, preserve the invariant.
LEMMA ConvergeSInv ==
  ASSUME OneProcess, TInv, SInv, NEW c \in Clients, Converge(c) \/ Read(c) PROVE SInv'
<1>1. PICK l \in InsideLabels, next \in InsideLabels :
        /\ Step(c, l, next)
        /\ l \in {"cv_define", "cv_undefine", "get", "lease"}
        /\ l \in {"get", "lease"} => next \in {"notfound", "lease", "created", "ok"}
  BY DEF Converge, RedefineDomain, UndefineFilter, Read, Get, ReadLease, Reported,
     InsideLabels, CallLabels, TryLabels, TeardownLabels, Outcomes
<1>2. /\ pc[c] = l /\ job[c] \in Jobs /\ job' = job
      /\ pc' = [pc EXCEPT ![c] = next] /\ pc'[c] = next
      /\ pc[c] # "idle"
  BY <1>1, StepEffect
<1>3. PICK n \in Names :
        /\ NameOf(c) = n /\ NameOf(c)' = n
        /\ dom[n] \in Domains \cup {None}
        /\ DomainKnown(c) /\ FilterReady(c) /\ NameInv(n)
  BY <1>2, InsideFacts DEF NameOf
<1>4. PICK s \in Wanted : LocalInv(c) /\ s = job[c].spec /\ s \in Specs
  BY <1>1, <1>2, ConstantsAssumption DEF TInv, LocalInv
<1>5. /\ \A d \in Clients \ {c} : snap'[d] = snap[d]
      /\ \A m \in Names \ {n} : dom'[m] = dom[m] /\ filt'[m] = filt[m] /\ overlay'[m] = overlay[m]
  BY <1>3 DEF Converge, RedefineDomain, UndefineFilter, Read, Get, ReadLease, hostVars, TInv, TypeOK
<1>6. DomainKnown(c)' /\ FilterReady(c)' /\ NameInv(n)'
  <2> USE <1>2, <1>3, <1>4 DEF DomainKnown, FilterReady, NewLabels, HaveLabels, ConvergeLabels,
  OffLabels
  <2>1. CASE RedefineDomain(c)
    <3>1. /\ l = "cv_define"
          /\ next = IF DropsFilter(c) THEN "cv_undefine" ELSE "cv_write"
          /\ filt' = filt /\ overlay' = overlay /\ snap' = snap
      BY <2>1 DEF RedefineDomain, Step, Goto, TInv, TypeOK
    <3>2. /\ dom[n] # None /\ ~dom[n].active /\ dom[n].meta # None
          /\ snap[c] \in Domains /\ snap[c].meta # None /\ snap[c].meta.rest = s.rest
      BY <3>1 DEF LocalInv, Managed
    <3>3. Edited(snap[c], s) \in Domains /\ Edited(snap[c], s).meta = snap[c].meta
      BY <3>2 DEF Edited, Domains, Specs
    <3>4. dom'[n] = [Edited(snap[c], s) EXCEPT !.active = dom[n] # None /\ dom[n].active]
      BY <2>1 DEF RedefineDomain, TInv, TypeOK
    <3>5. dom'[n] = [Edited(snap[c], s) EXCEPT !.active = FALSE]
      BY <3>2, <3>4
    <3>6. /\ dom'[n] \in Domains /\ dom'[n].meta # None /\ ~dom'[n].active
          /\ dom'[n].meta = snap[c].meta
          /\ dom'[n].filterref = Edited(snap[c], s).filterref
      BY <3>2, <3>3, <3>5 DEF Domains
    <3>7. dom'[n] # None
      BY <3>6, ConstantsAssumption
    <3>8. DropsFilter(c) => ~dom'[n].filterref
      <4>1. DropsFilter(c) => s.filters = None /\ snap[c].meta.filters # None
        BY DEF DropsFilter
      <4>2. Edited(snap[c], s).filterref =
              IF s.filters = snap[c].meta.filters THEN snap[c].filterref ELSE s.filters # None
        BY <3>2 DEF Edited, Domains
      <4> QED BY <3>6, <4>1, <4>2
    <3>9. DomainKnown(c)'
      BY <3>1, <3>2, <3>6, <3>7, <3>8 DEF Managed
    <3>10. FilterReady(c)'
      BY <3>1
    <3>11. NameInv(n)'
      BY <3>1, <3>6 DEF NameInv, Managed, Attached
    <3> QED BY <3>9, <3>10, <3>11
  <2>2. CASE UndefineFilter(c)
    BY <2>2 DEF UndefineFilter, Step, Goto, NameInv, Managed, Attached, TInv, TypeOK
  <2>3. CASE Read(c)
    BY <1>1, <2>3 DEF Read, Get, ReadLease, Step, Goto, hostVars, NameInv, Managed, Attached,
       TInv, TypeOK
  <2> QED
    BY <2>1, <2>2, <2>3 DEF Converge
<1> QED
  BY <1>1, <1>3, <1>5, <1>6, StepFrame

\* The lookup of the operations other than create preserves the invariant.
LEMMA LookupSInv ==
  ASSUME OneProcess, TInv, SInv, NEW c \in Clients, LookupServer(c) PROVE SInv'
<1>1. /\ pc[c] = "lookup" /\ job[c] \in Jobs /\ LocalInv(c) /\ job[c].op # "create"
      /\ pc[c] # "idle"
  BY DEF LookupServer, TInv, LocalInv
<1>2. PICK n \in Names :
        /\ NameOf(c) = n /\ dom[n] \in Domains
        /\ Managed(dom[n]) /\ NameInv(n)
  BY <1>1, InsideFacts DEF LookupServer, Managed
<1>3. PICK next \in InsideLabels :
        /\ pc' = [pc EXCEPT ![c] = next] /\ pc'[c] = next
        /\ next = "net" => ~dom[n].active
        /\ next \in {"td_find", "seed", "get", "off", "acpi", "net", "notrunning"}
  BY <1>1, <1>2 DEF LookupServer, Goto, WhenOn, WhenOff, Jobs, TInv, TypeOK,
     InsideLabels, CallLabels, TryLabels, TeardownLabels, Outcomes
<1>4. /\ UNCHANGED <<dom, filt, overlay, holder>>
      /\ job' = [job EXCEPT ![c].spec = dom[n].meta]
      /\ \A d \in Clients \ {c} : job'[d] = job[d] /\ snap'[d] = snap[d]
  BY <1>2 DEF LookupServer, hostVars, TInv, TypeOK
<1>5. job'[c].name = job[c].name /\ job'[c].op = job[c].op
  BY <1>1, <1>4 DEF Jobs, TInv, TypeOK
<1>6. NameOf(c)' = n
  BY <1>2, <1>5 DEF NameOf
<1>7. DomainKnown(c)'
  BY <1>1, <1>2, <1>3, <1>4, <1>5, <1>6
     DEF DomainKnown, NewLabels, HaveLabels, ConvergeLabels, OffLabels, Managed
<1>8. FilterReady(c)'
  BY <1>1, <1>3, <1>5 DEF FilterReady, NewLabels
<1>9. NameInv(n)'
  BY <1>2, <1>4 DEF NameInv, Attached
<1> QED
  BY <1>1, <1>2, <1>3, <1>4, <1>6, <1>7, <1>8, <1>9, CallFrame

\* start, stop, restart and reinstall preserve the invariant.
LEMMA OperateSInv ==
  ASSUME OneProcess, TInv, SInv, NEW c \in Clients, Operate(c) PROVE SInv'
<1>1. CASE LookupServer(c)
  BY <1>1, LookupSInv
<1>2. CASE LookupNothing(c) \/ CheckActive(c) \/ PowerOff(c) \/ AskGuest(c)
  <2>1. PICK l \in InsideLabels, next \in InsideLabels :
          /\ Step(c, l, next)
          /\ l \in {"lookup", "check", "off", "acpi"}
          /\ l = "lookup" => next = "notfound"
          /\ l = "check" => next = IF dom[NameOf(c)].active THEN "off" ELSE "disk_delete"
          /\ l = "off" => next = CASE job[c].op \in {"create", "delete"} -> "td_undefine"
                                   [] job[c].op = "stop" -> "get"
                                   [] job[c].op = "restart" -> "net"
                                   [] job[c].op = "reinstall" -> "disk_delete"
          /\ l = "acpi" => next = "get"
    BY <1>2 DEF LookupNothing, CheckActive, PowerOff, AskGuest, TInv, LocalInv, Jobs, Step,
       InsideLabels, CallLabels, TryLabels, TeardownLabels, Outcomes
  <2>2. /\ pc[c] = l /\ job[c] \in Jobs /\ ~Refused(c) /\ job' = job
        /\ pc' = [pc EXCEPT ![c] = next] /\ pc'[c] = next
        /\ pc[c] # "idle"
    BY <2>1, StepEffect
  <2>3. PICK n \in Names :
          /\ NameOf(c) = n /\ NameOf(c)' = n
          /\ dom[n] \in Domains \cup {None}
          /\ DomainKnown(c) /\ FilterReady(c) /\ NameInv(n)
    BY <2>2, InsideFacts DEF NameOf
  <2>4. /\ l = "check" => job[c].op = "reinstall"
        /\ l = "off" => job[c].op # "start"
    BY <2>2 DEF TInv, LocalInv
  <2>5. /\ UNCHANGED <<filt, overlay, snap>>
        /\ \A m \in Names \ {n} : dom'[m] = dom[m]
    BY <1>2, <2>3 DEF LookupNothing, CheckActive, PowerOff, AskGuest, hostVars, TInv, TypeOK
  <2>6. /\ dom[n] # None => dom'[n] # None /\ dom'[n].meta = dom[n].meta
        /\ dom[n] = None => dom'[n] = None
        /\ Attached(n)' => Attached(n)
        /\ dom'[n] # None /\ dom'[n].active => dom[n].active
        /\ l = "off" => dom'[n] # None /\ ~dom'[n].active
        /\ l # "off" => dom' = dom
    <3>1. CASE PowerOff(c)
      <4>1. l = "off" /\ dom[n] \in Domains
        BY <2>2, <2>3, <3>1 DEF PowerOff, Step, Refused, Stale
      <4>2. dom'[n] = [dom[n] EXCEPT !.active = FALSE]
        BY <2>3, <3>1 DEF PowerOff, TInv, TypeOK
      <4>3. dom'[n] \in Domains /\ dom[n] # None /\ dom'[n] # None
        BY <4>1, <4>2, ConstantsAssumption DEF Domains
      <4> QED BY <4>1, <4>2, <4>3 DEF Attached, Domains
    <3>2. CASE LookupNothing(c) \/ CheckActive(c) \/ AskGuest(c)
      BY <2>2, <3>2 DEF LookupNothing, CheckActive, AskGuest, hostVars, Attached, Step
    <3> QED BY <1>2, <3>1, <3>2
  <2>7. DomainKnown(c)'
    BY <2>1, <2>2, <2>3, <2>4, <2>5, <2>6
       DEF DomainKnown, Jobs, Managed, NewLabels, HaveLabels, ConvergeLabels, OffLabels
  <2>8. FilterReady(c)'
    BY <2>1, <2>2, <2>3, <2>4 DEF FilterReady, Jobs, NewLabels
  <2>9. NameInv(n)'
    BY <2>3, <2>5, <2>6 DEF NameInv, Managed
  <2> QED
    BY <2>1, <2>3, <2>5, <2>7, <2>8, <2>9, StepFrame
<1> QED
  BY <1>1, <1>2 DEF Operate

\* The calls of teardown preserve the invariant.
LEMMA TeardownSInv ==
  ASSUME OneProcess, TInv, SInv, NEW c \in Clients, Teardown(c) PROVE SInv'
<1>1. PICK l \in InsideLabels, next \in InsideLabels :
        /\ Step(c, l, next)
        /\ l \in TeardownLabels \cup {"td_dns"}
  BY DEF Teardown, FindDomain, WithoutDomain, UndefineDomain, RemoveFilter, RemoveDisk,
     RemoveSeed, UnregisterDns, InsideLabels, CallLabels, TryLabels, TeardownLabels, Outcomes
<1>2. /\ pc[c] = l /\ job[c] \in Jobs /\ job' = job /\ ~Refused(c)
      /\ pc' = [pc EXCEPT ![c] = next] /\ pc'[c] = next
      /\ pc[c] # "idle"
  BY <1>1, StepEffect DEF TeardownLabels
<1>3. PICK n \in Names :
        /\ NameOf(c) = n /\ NameOf(c)' = n
        /\ dom[n] \in Domains \cup {None}
        /\ DomainKnown(c) /\ FilterReady(c) /\ NameInv(n)
  BY <1>2, InsideFacts DEF NameOf
<1>4. /\ \A d \in Clients \ {c} : snap'[d] = snap[d]
      /\ \A m \in Names \ {n} : dom'[m] = dom[m] /\ filt'[m] = filt[m] /\ overlay'[m] = overlay[m]
  BY <1>3 DEF Teardown, FindDomain, UndefineDomain, RemoveFilter, RemoveDisk, RemoveSeed,
     UnregisterDns, hostVars, TInv, TypeOK
<1>5. DomainKnown(c)' /\ FilterReady(c)' /\ NameInv(n)'
  <2> USE <1>2, <1>3 DEF DomainKnown, FilterReady, NewLabels, HaveLabels, ConvergeLabels, OffLabels
  <2>1. CASE FindDomain(c)
    BY <2>1 DEF FindDomain, WithoutDomain, Step, Goto, hostVars, NameInv, Managed, Attached,
       TInv, TypeOK
  <2>2. CASE UndefineDomain(c)
    BY <2>2 DEF UndefineDomain, Step, Goto, NameInv, Managed, Attached, TInv, TypeOK
  <2>3. CASE RemoveFilter(c)
    BY <2>3 DEF RemoveFilter, Step, Goto, NameInv, Managed, Attached, TInv, TypeOK
  <2>4. CASE RemoveDisk(c)
    BY <2>4 DEF RemoveDisk, Step, Goto, NameInv, Managed, Attached, TInv, TypeOK
  <2>5. CASE RemoveSeed(c)
    BY <2>5 DEF RemoveSeed, Step, Goto, NameInv, Managed, Attached, TInv, TypeOK
  <2>6. CASE UnregisterDns(c)
    BY <2>6 DEF UnregisterDns, Step, Goto, NameInv, Managed, Attached, TInv, TypeOK
  <2> QED
    BY <2>1, <2>2, <2>3, <2>4, <2>5, <2>6 DEF Teardown
<1> QED
  BY <1>1, <1>3, <1>4, <1>5, StepFrame

\* A call that raises preserves the invariant: where the handler of create
\* starts its rollback, the domain of that name, if any, is its own.
LEMMA FailSInv ==
  ASSUME OneProcess, TInv, SInv, NEW c \in Clients, Fail(c) PROVE SInv'
<1>1. /\ pc[c] \in CallLabels /\ pc[c] # "idle"
      /\ pc' = [pc EXCEPT ![c] = HandlerOf(c)] /\ pc'[c] = HandlerOf(c)
      /\ UNCHANGED <<dom, filt, overlay, holder, job, snap>>
  BY DEF Fail, Goto, hostVars, TInv, TypeOK, CallLabels, TryLabels, TeardownLabels
<1>2. PICK n \in Names :
        /\ NameOf(c) = n /\ NameOf(c)' = n
        /\ DomainKnown(c) /\ FilterReady(c) /\ NameInv(n)
  BY <1>1, InsideFacts DEF NameOf
<1>3. DomainKnown(c)'
  BY <1>1, <1>2 DEF DomainKnown, HandlerOf, TryLabels, NewLabels, HaveLabels, ConvergeLabels,
     OffLabels
<1>4. FilterReady(c)'
  BY <1>1, <1>2 DEF FilterReady, HandlerOf, NewLabels
<1>5. NameInv(n)'
  BY <1>1, <1>2 DEF NameInv, Managed, Attached
<1> QED
  BY <1>1, <1>2, <1>3, <1>4, <1>5, CallFrame

\* A request that takes its lock preserves the invariant: nobody else in the
\* process works on that name.
LEMMA BeginSInv ==
  ASSUME OneProcess, TInv, SInv, NEW c \in Clients, Begin(c) PROVE SInv'
<1>1. PICK j \in Jobs :
        /\ pc[c] = "idle" /\ holder[ManagerOf[c]][j.name] = None
        /\ holder' = [holder EXCEPT ![ManagerOf[c]][j.name] = c]
        /\ job' = [job EXCEPT ![c] = j]
        /\ pc' = [pc EXCEPT ![c] = IF j.op = "create" THEN "find" ELSE "lookup"]
        /\ UNCHANGED <<dom, filt, overlay, snap>>
  BY DEF Begin, Goto, LockIsFree, hostVars, CreateJobs, OtherJobs, Jobs
<1>2. ASSUME NEW d \in Clients \ {c} PROVE ClientInv(d)'
  <2>1. pc'[d] = pc[d] /\ job'[d] = job[d] /\ ClientInv(d)
    BY <1>1 DEF TInv, TypeOK, SInv
  <2>2. ASSUME pc[d] # "idle" PROVE HasLock(d)'
    <3>1. /\ holder[ManagerOf[d]][NameOf(d)] = d /\ NameOf(d)' = NameOf(d)
          /\ NameOf(d) \in Names
      BY <2>1, <2>2, InsideFacts DEF ClientInv, HasLock, NameOf
    <3>2. d # None /\ ManagerOf[d] = ManagerOf[c] /\ ManagerOf[c] \in Managers
      BY ConstantsAssumption DEF OneProcess
    <3>3. NameOf(d) # j.name
      BY <1>1, <3>1, <3>2
    <3>4. j.name \in Names /\ holder \in [Managers -> [Names -> Clients \cup {None}]]
      BY DEF Jobs, TInv, TypeOK
    <3>5. holder'[ManagerOf[d]][NameOf(d)] = d
      BY <1>1, <3>1, <3>2, <3>3, <3>4
    <3> QED BY <3>1, <3>5 DEF HasLock
  <2>3. HasLock(d)'
    BY <2>1, <2>2 DEF HasLock
  <2>4. DomainKnown(d)' /\ FilterReady(d)'
    BY <1>1, <2>1 DEF ClientInv, DomainKnown, FilterReady, NameOf, Managed, Edited
  <2> QED BY <2>3, <2>4 DEF ClientInv
<1>3. ClientInv(c)'
  <2>1. /\ pc'[c] = IF j.op = "create" THEN "find" ELSE "lookup"
        /\ job'[c] = j
    BY <1>1 DEF TInv, TypeOK
  <2>2. holder'[ManagerOf[c]][j.name] = c
    BY <1>1, ConstantsAssumption DEF Jobs, TInv, TypeOK
  <2>3. HasLock(c)'
    BY <2>1, <2>2 DEF HasLock, NameOf
  <2>4. DomainKnown(c)' /\ FilterReady(c)'
    BY <2>1 DEF DomainKnown, FilterReady, NewLabels, HaveLabels, ConvergeLabels, OffLabels
  <2> QED BY <2>3, <2>4 DEF ClientInv
<1>4. ASSUME NEW n \in Names PROVE NameInv(n)'
  BY <1>1 DEF SInv, NameInv, Managed, Attached
<1> QED
  BY <1>2, <1>3, <1>4 DEF SInv

\* Leaving an operation preserves the invariant.
LEMMA ReturnSInv ==
  ASSUME OneProcess, TInv, SInv, NEW c \in Clients, Return(c) PROVE SInv'
<1>1. /\ pc[c] # "idle"
      /\ holder' = [holder EXCEPT ![ManagerOf[c]][NameOf(c)] = None]
      /\ pc' = [pc EXCEPT ![c] = "idle"]
      /\ job' = [job EXCEPT ![c] = None] /\ snap' = [snap EXCEPT ![c] = None]
      /\ UNCHANGED <<dom, filt, overlay>>
  BY DEF Return, Goto, hostVars, Outcomes
<1>2. ASSUME NEW d \in Clients \ {c} PROVE ClientInv(d)'
  <2>1. pc'[d] = pc[d] /\ job'[d] = job[d] /\ snap'[d] = snap[d] /\ ClientInv(d)
    BY <1>1 DEF TInv, TypeOK, SInv
  <2>2. ASSUME pc[d] # "idle" PROVE HasLock(d)'
    <3>1. /\ holder[ManagerOf[d]][NameOf(d)] = d /\ NameOf(d)' = NameOf(d)
          /\ NameOf(d) \in Names /\ NameOf(c) \in Names
      BY <1>1, <2>1, <2>2, InsideFacts DEF ClientInv, HasLock, NameOf
    <3>2. NameOf(d) # NameOf(c)
      BY <1>1, <2>2, NamesDiffer
    <3>3. holder \in [Managers -> [Names -> Clients \cup {None}]] /\ ManagerOf[d] \in Managers
      BY ConstantsAssumption DEF TInv, TypeOK
    <3>4. holder'[ManagerOf[d]][NameOf(d)] = d
      BY <1>1, <3>1, <3>2, <3>3
    <3> QED BY <3>1, <3>4 DEF HasLock
  <2>3. HasLock(d)'
    BY <2>1, <2>2 DEF HasLock
  <2>4. DomainKnown(d)' /\ FilterReady(d)'
    BY <1>1, <2>1 DEF ClientInv, DomainKnown, FilterReady, NameOf, Managed, Edited
  <2> QED BY <2>3, <2>4 DEF ClientInv
<1>3. ClientInv(c)'
  <2>1. pc'[c] = "idle"
    BY <1>1 DEF TInv, TypeOK
  <2> QED
    BY <2>1 DEF ClientInv, HasLock, DomainKnown, FilterReady, NewLabels, HaveLabels,
       ConvergeLabels, OffLabels
<1>4. ASSUME NEW n \in Names PROVE NameInv(n)'
  BY <1>1 DEF SInv, NameInv, Managed, Attached
<1> QED
  BY <1>2, <1>3, <1>4 DEF SInv


\* A domain that keeps everything but its power, which may go off.
PowerMayGo(n) == \/ dom'[n] = dom[n]
                 \/ dom[n] # None /\ dom'[n] = [dom[n] EXCEPT !.active = FALSE]

\* When all that happens to domains is a power-off, what a client that goes on
\* knows about its name, and the invariant of the names, still hold.
LEMMA PowerOffKeeps ==
  ASSUME TInv, SInv, UNCHANGED <<filt, overlay>>, \A n \in Names : PowerMayGo(n)
  PROVE  /\ \A n \in Names : NameInv(n)'
         /\ \A c \in Clients : /\ pc[c] # "idle" /\ pc'[c] = pc[c]
                               /\ job'[c] = job[c] /\ snap'[c] = snap[c]
                               => DomainKnown(c)' /\ FilterReady(c)'
<1>1. ASSUME NEW n \in Names
      PROVE  /\ dom'[n] = None <=> dom[n] = None
             /\ dom[n] # None => /\ dom'[n].meta = dom[n].meta /\ dom'[n].uuid = dom[n].uuid
                                 /\ dom'[n].filterref = dom[n].filterref
                                 /\ dom'[n].active => dom[n].active
  <2>1. CASE dom'[n] = dom[n]
    BY <2>1
  <2>2. CASE dom[n] # None /\ dom'[n] = [dom[n] EXCEPT !.active = FALSE]
    <3>1. dom[n] \in Domains
      BY <2>2 DEF TInv, TypeOK
    <3>2. dom'[n] \in Domains
      BY <2>2, <3>1 DEF Domains
    <3>3. dom'[n] # None
      BY <3>2, ConstantsAssumption
    <3> QED BY <2>2, <3>1, <3>3 DEF Domains
  <2> QED BY <2>1, <2>2 DEF PowerMayGo
<1>2. ASSUME NEW n \in Names PROVE NameInv(n)'
  BY <1>1 DEF SInv, NameInv, Managed, Attached
<1>3. ASSUME NEW c \in Clients, pc[c] # "idle", pc'[c] = pc[c],
             job'[c] = job[c], snap'[c] = snap[c]
      PROVE  DomainKnown(c)' /\ FilterReady(c)'
  <2>1. PICK n \in Names : NameOf(c) = n /\ NameOf(c)' = n /\ DomainKnown(c) /\ FilterReady(c)
    BY <1>3, InsideFacts DEF NameOf
  <2>2. DomainKnown(c)'
    <3>1. /\ dom'[n] = None <=> dom[n] = None
          /\ dom[n] # None => /\ dom'[n].meta = dom[n].meta /\ dom'[n].uuid = dom[n].uuid
                              /\ dom'[n].filterref = dom[n].filterref
                              /\ dom'[n].active => dom[n].active
      BY <1>1
    <3>2. Managed(dom[n]) => Managed(dom'[n])
      BY <3>1 DEF Managed
    <3>3. pc[c] = "cv_undefine" => dom[n] # None
      BY <2>1 DEF DomainKnown, ConvergeLabels, Managed
    <3> QED BY <1>3, <2>1, <3>1, <3>2, <3>3 DEF DomainKnown, Managed
  <2>3. FilterReady(c)'
    BY <1>3, <2>1 DEF FilterReady, Edited
  <2> QED BY <2>2, <2>3
<1> QED
  BY <1>2, <1>3

\* Guests, crashes and reboots preserve the invariant.
LEMMA EnvironmentSInv ==
  ASSUME TInv, SInv,
         (\E n \in Names : GuestHalt(n)) \/ (\E m \in Managers : Crash(m)) \/ Reboot
  PROVE  SInv'
<1>1. ASSUME NEW n \in Names, GuestHalt(n) PROVE SInv'
  <2>1. \A m \in Names : PowerMayGo(m)
    BY <1>1 DEF GuestHalt, PowerMayGo, TInv, TypeOK
  <2>2. ASSUME NEW c \in Clients PROVE ClientInv(c)'
    <3>1. UNCHANGED <<filt, overlay, holder, pc, job, snap>> /\ HasLock(c)
      BY <1>1 DEF GuestHalt, SInv, ClientInv
    <3>2. HasLock(c)'
      BY <3>1 DEF HasLock, NameOf
    <3>3. CASE pc[c] = "idle"
      BY <3>1, <3>2, <3>3 DEF ClientInv, DomainKnown, FilterReady, NewLabels, HaveLabels,
         ConvergeLabels, OffLabels
    <3>4. CASE pc[c] # "idle"
      BY <2>1, <3>1, <3>2, <3>4, PowerOffKeeps DEF ClientInv
    <3> QED BY <3>3, <3>4
  <2> QED BY <1>1, <2>1, <2>2, PowerOffKeeps DEF GuestHalt, SInv
<1>2. ASSUME NEW ms, Die(ms), \A n \in Names : PowerMayGo(n) PROVE SInv'
  <2>1. ASSUME NEW c \in Clients PROVE ClientInv(c)'
    <3>1. CASE ManagerOf[c] \in ms \/ pc[c] = "idle"
      <4>1. pc'[c] = "idle"
        BY <1>2, <3>1 DEF Die
      <4> QED BY <4>1 DEF ClientInv, HasLock, DomainKnown, FilterReady, NewLabels, HaveLabels,
                 ConvergeLabels, OffLabels
    <3>2. CASE ManagerOf[c] \notin ms /\ pc[c] # "idle"
      <4>1. /\ pc'[c] = pc[c] /\ job'[c] = job[c] /\ snap'[c] = snap[c]
            /\ holder'[ManagerOf[c]] = holder[ManagerOf[c]] /\ HasLock(c)
        BY <1>2, <3>2, ConstantsAssumption DEF Die, SInv, ClientInv
      <4>2. HasLock(c)'
        BY <4>1 DEF HasLock, NameOf
      <4> QED BY <1>2, <3>2, <4>1, <4>2, PowerOffKeeps DEF ClientInv, Die
    <3> QED BY <3>1, <3>2
  <2> QED BY <1>2, <2>1, PowerOffKeeps DEF SInv, Die
<1>3. ASSUME NEW m \in Managers, Crash(m) PROVE SInv'
  BY <1>2, <1>3 DEF Crash, PowerMayGo
<1>4. ASSUME Reboot PROVE SInv'
  <2>1. \A n \in Names : PowerMayGo(n)
    BY <1>4 DEF Reboot, PowerMayGo
  <2> QED BY <1>2, <1>4, <2>1 DEF Reboot
<1> QED
  BY <1>1, <1>3, <1>4

\* Every step preserves the invariant.
LEMMA NextSInv == ASSUME OneProcess, TInv, SInv, [Next]_vars PROVE SInv'
<1>1. ASSUME UNCHANGED vars PROVE SInv'
  BY <1>1 DEF vars, SInv, ClientInv, HasLock, DomainKnown, FilterReady, NameInv, NameOf, Managed,
     Attached, Edited
<1> QED
  BY <1>1, BeginSInv, FindSInv, ProvisionSInv, ConvergeSInv, OperateSInv, TeardownSInv,
     FailSInv, ReturnSInv, EnvironmentSInv DEF Next, Advance

\* The invariant holds in every reachable state of one process.
LEMMA SpecSInv == ASSUME OneProcess PROVE Spec => [](TInv /\ SInv)
<1>1. Init => TInv /\ SInv
  BY InitTInv, InitSInv
<1>2. TInv /\ SInv /\ [Next]_vars => (TInv /\ SInv)'
  BY NextTInv, NextSInv
<1> QED
  BY <1>1, <1>2, PTL DEF Spec

\* RunningDiskIntact (ServerManager.tla) holds in every reachable state of one
\* process: a managed server never runs without its disk.
THEOREM DiskIntact == OneProcess => (Spec => []RunningDiskIntact)
<1> SUFFICES ASSUME OneProcess PROVE Spec => []RunningDiskIntact
  OBVIOUS
<1>1. ASSUME SInv PROVE RunningDiskIntact
  BY <1>1 DEF SInv, NameInv, RunningDiskIntact
<1> QED
  BY SpecSInv, <1>1, PTL

\* FilterBacked holds: a domain that refers to its filter finds it.
THEOREM FilterFound == OneProcess => (Spec => []FilterBacked)
<1> SUFFICES ASSUME OneProcess PROVE Spec => []FilterBacked
  OBVIOUS
<1>1. ASSUME SInv PROVE FilterBacked
  BY <1>1 DEF SInv, NameInv, FilterBacked
<1> QED
  BY SpecSInv, <1>1, PTL

\* Nobody ever undefines a filter that a domain refers to, which libvirt
\* would refuse half way through a teardown or a convergence.
FilterFreeWhenUndefined ==
    \A c \in Clients : pc[c] \in {"td_filter", "cv_undefine"} => ~Attached(NameOf(c))

\* FilterFreeWhenUndefined holds: nobody undefines a filter still referred to.
THEOREM FilterFree == OneProcess => (Spec => []FilterFreeWhenUndefined)
<1> SUFFICES ASSUME OneProcess PROVE Spec => []FilterFreeWhenUndefined
  OBVIOUS
<1>1. ASSUME SInv PROVE FilterFreeWhenUndefined
  BY <1>1 DEF SInv, ClientInv, DomainKnown, FilterFreeWhenUndefined, Attached
<1> QED
  BY SpecSInv, <1>1, PTL

\* RollbackOwnsDomain holds: the rollback of a create removes, if anything, the
\* domain this create defined.
THEOREM RollbackOwns == OneProcess => (Spec => []RollbackOwnsDomain)
<1> SUFFICES ASSUME OneProcess PROVE Spec => []RollbackOwnsDomain
  OBVIOUS
<1>1. ASSUME SInv PROVE RollbackOwnsDomain
  BY <1>1 DEF SInv, ClientInv, DomainKnown, RollbackOwnsDomain
<1> QED
  BY SpecSInv, <1>1, PTL

\* The calls that change a domain, its filter or its volumes, but destroy().
TouchLabels == {"filter", "seed", "seed_create", "seed_upload", "disk_delete", "disk_create",
                "define", "write", "boot", "td_undefine", "td_filter", "td_disk", "td_seed"}
               \cup ConvergeLabels

\* A client changes nothing of the host, or cuts the power of the server of its
\* name, or is at a call that touches that name and no other.
LEMMA Touches ==
  ASSUME TInv, NEW c \in Clients, Advance(c)
  PROVE  \/ UNCHANGED <<dom, filt, overlay, seed>>
         \/ PowerOff(c)
         \/ /\ pc[c] \in TouchLabels
            /\ \A n \in Names \ {NameOf(c)} :
                 /\ dom'[n] = dom[n] /\ filt'[n] = filt[n]
                 /\ overlay'[n] = overlay[n] /\ seed'[n] = seed[n]
            /\ pc[c] \in {"seed", "seed_create", "seed_upload"} => dom' = dom /\ filt' = filt
<1> USE DEF hostVars, Step, TouchLabels, ConvergeLabels, TInv, TypeOK
<1>1. CASE Find(c)
  BY <1>1 DEF Find, FindNothing, FindConflict, FindEqual, FindRunning, FindDifferent
<1>2. CASE Provision(c)
  BY <1>2 DEF Provision, EnsureNetwork, DefineFilter, DeleteOldSeed, CreateSeed, UploadSeed,
     DeleteOldDisk, CreateDisk, DefineDomain, WriteSpec, Boot, RegisterDns
<1>3. CASE Converge(c) \/ Read(c) \/ Fail(c) \/ Return(c)
  BY <1>3 DEF Converge, RedefineDomain, UndefineFilter, Read, Get, ReadLease, Fail, Return
<1>4. CASE Operate(c)
  BY <1>4 DEF Operate, LookupNothing, LookupServer, CheckActive, AskGuest
<1>5. CASE Teardown(c)
  BY <1>5 DEF Teardown, FindDomain, UndefineDomain, RemoveFilter, RemoveDisk, RemoveSeed,
     UnregisterDns
<1> QED
  BY <1>1, <1>2, <1>3, <1>4, <1>5 DEF Advance

\* Where a client is about to touch its name, the domain is not another tool's
\* and not a stranded one, and it is off unless only the seed is rebuilt.
LEMMA TouchesOwn ==
  ASSUME TInv, SInv, NEW c \in Clients, pc[c] \in TouchLabels
  PROVE  LET d == dom[NameOf(c)] IN
         /\ ~Foreign(NameOf(c))
         /\ pc[c] \notin {"seed", "seed_create", "seed_upload"} => d = None \/ ~d.active
<1>1. pc[c] # "idle"
  BY DEF TouchLabels, ConvergeLabels
<1>2. PICK n \in Names : /\ NameOf(c) = n /\ job[c].name = n
                         /\ DomainKnown(c) /\ LocalInv(c) /\ job[c] \in Jobs
  BY <1>1, InsideFacts DEF NameOf, TInv
<1>3. pc[c] \in {"write", "td_undefine"} /\ job[c].op = "create" => Building(n)
  BY <1>2 DEF Building
<1>4. Foreign(n) => dom[n] # None /\ ~Managed(dom[n]) /\ ~Building(n)
  BY DEF Foreign, Managed
<1>5. ~Foreign(n)
  BY <1>2, <1>3, <1>4 DEF TouchLabels, DomainKnown, NewLabels, HaveLabels, ConvergeLabels, LocalInv
<1> QED
  BY <1>2, <1>5 DEF TouchLabels, DomainKnown, OffLabels

\* LiveVmNotReconfigured holds: no step changes the definition or the filter of
\* a VM that keeps running.
THEOREM LiveVmUntouched == OneProcess => (Spec => LiveVmNotReconfigured)
<1> SUFFICES ASSUME OneProcess PROVE Spec => LiveVmNotReconfigured
  OBVIOUS
<1> DEFINE Kept(n) == dom[n] # None /\ dom[n].active /\ dom'[n] # None /\ dom'[n].active
                        => dom'[n] = dom[n] /\ filt'[n] = filt[n]
<1>1. ASSUME TInv, SInv, [Next]_vars, NEW n \in Names PROVE Kept(n)
  <2>1. ASSUME NEW c \in Clients, Advance(c) PROVE Kept(n)
    <3>1. CASE UNCHANGED <<dom, filt, overlay, seed>>
      BY <3>1
    <3>2. CASE PowerOff(c)
      <4>1. filt' = filt /\ dom' = [dom EXCEPT ![NameOf(c)].active = FALSE]
        BY <3>2 DEF PowerOff
      <4> QED BY <1>1, <4>1 DEF TInv, TypeOK, Domains
    <3>3. CASE /\ pc[c] \in TouchLabels
               /\ \A m \in Names \ {NameOf(c)} : dom'[m] = dom[m] /\ filt'[m] = filt[m]
               /\ pc[c] \in {"seed", "seed_create", "seed_upload"} => dom' = dom /\ filt' = filt
      BY <1>1, <3>3, TouchesOwn
    <3> QED BY <1>1, <2>1, <3>1, <3>2, <3>3, Touches
  <2>2. ASSUME NEW c \in Clients, Begin(c) PROVE Kept(n)
    BY <2>2 DEF Begin, hostVars
  <2>3. ASSUME NEW m \in Names, GuestHalt(m) PROVE Kept(n)
    BY <1>1, <2>3 DEF GuestHalt, TInv, TypeOK, Domains
  <2>4. ASSUME NEW m \in Managers, Crash(m) PROVE Kept(n)
    BY <2>4 DEF Crash, Die
  <2>5. ASSUME Reboot PROVE Kept(n)
    BY <1>1, <2>5 DEF Reboot, Die, TInv, TypeOK, Domains
  <2>6. ASSUME UNCHANGED vars PROVE Kept(n)
    BY <2>6 DEF vars
  <2> QED BY <1>1, <2>1, <2>2, <2>3, <2>4, <2>5, <2>6 DEF Next
<1>2. TInv /\ SInv /\ [Next]_vars => [\A n \in Names : Kept(n)]_vars
  BY <1>1
<1> QED
  BY SpecSInv, <1>2, PTL DEF Spec, LiveVmNotReconfigured

\* UnmanagedUntouched holds: no step changes a domain of another tool, or one
\* stranded without metadata, but for its power, nor what bears its name.
THEOREM UnmanagedSafe == OneProcess => (Spec => UnmanagedUntouched)
<1> SUFFICES ASSUME OneProcess PROVE Spec => UnmanagedUntouched
  OBVIOUS
<1> DEFINE Left(n) ==
             /\ dom'[n] # None
             /\ \E a \in BOOLEAN : dom'[n] = [dom[n] EXCEPT !.active = a /\ @]
             /\ <<filt'[n], overlay'[n], seed'[n]>> = <<filt[n], overlay[n], seed[n]>>
<1>1. ASSUME TInv, SInv, [Next]_vars, NEW n \in Names, Foreign(n) PROVE Left(n)
  <2>1. dom[n] \in Domains /\ dom[n] # None
    BY <1>1 DEF Foreign, TInv, TypeOK
  <2>2. ASSUME dom'[n] \in {dom[n], [dom[n] EXCEPT !.active = FALSE]},
               filt'[n] = filt[n], overlay'[n] = overlay[n], seed'[n] = seed[n]
        PROVE  Left(n)
    <3>1. CASE dom'[n] = dom[n]
      <4>1. dom'[n] = [dom[n] EXCEPT !.active = TRUE /\ @]
        BY <2>1, <3>1 DEF Domains
      <4> QED BY <2>1, <2>2, <3>1, <4>1
    <3>2. CASE dom'[n] = [dom[n] EXCEPT !.active = FALSE]
      <4>1. dom'[n] = [dom[n] EXCEPT !.active = FALSE /\ @]
        BY <3>2
      <4>2. dom'[n] \in Domains
        BY <2>1, <3>2 DEF Domains
      <4>3. dom'[n] # None
        BY <4>2, ConstantsAssumption
      <4> QED BY <2>2, <4>1, <4>3
    <3> QED BY <2>2, <3>1, <3>2
  <2>3. ASSUME NEW c \in Clients, Advance(c) PROVE Left(n)
    <3>1. CASE UNCHANGED <<dom, filt, overlay, seed>>
      BY <2>2, <3>1
    <3>2. CASE PowerOff(c)
      BY <1>1, <2>2, <3>2 DEF PowerOff, TInv, TypeOK
    <3>3. CASE /\ pc[c] \in TouchLabels
               /\ \A m \in Names \ {NameOf(c)} :
                    /\ dom'[m] = dom[m] /\ filt'[m] = filt[m]
                    /\ overlay'[m] = overlay[m] /\ seed'[m] = seed[m]
      <4>1. n # NameOf(c)
        BY <1>1, <3>3, TouchesOwn
      <4> QED BY <2>2, <3>3, <4>1
    <3> QED BY <1>1, <2>3, <3>1, <3>2, <3>3, Touches
  <2>4. ASSUME NEW c \in Clients, Begin(c) PROVE Left(n)
    BY <2>2, <2>4 DEF Begin, hostVars
  <2>5. ASSUME NEW m \in Names, GuestHalt(m) PROVE Left(n)
    BY <1>1, <2>2, <2>5 DEF GuestHalt, TInv, TypeOK
  <2>6. ASSUME NEW m \in Managers, Crash(m) PROVE Left(n)
    BY <2>2, <2>6 DEF Crash, Die
  <2>7. ASSUME Reboot PROVE Left(n)
    BY <2>1, <2>2, <2>7 DEF Reboot, Die
  <2>8. ASSUME UNCHANGED vars PROVE Left(n)
    BY <2>2, <2>8 DEF vars
  <2> QED BY <1>1, <2>3, <2>4, <2>5, <2>6, <2>7, <2>8 DEF Next
<1>2. TInv /\ SInv /\ [Next]_vars => [\A n \in Names : Foreign(n) => Left(n)]_vars
  BY <1>1
<1> QED
  BY SpecSInv, <1>2, PTL DEF Spec, UnmanagedUntouched

\* DnsRemovedAfterVm holds: a name leaves DNS only after its domain is gone.
THEOREM DnsAfterVm == OneProcess => (Spec => DnsRemovedAfterVm)
<1> SUFFICES ASSUME OneProcess PROVE Spec => DnsRemovedAfterVm
  OBVIOUS
<1> DEFINE Gone(n) == n \notin dns' => dom[n] = None /\ dom'[n] = None
<1>1. ASSUME TInv, SInv, [Next]_vars, NEW n \in dns PROVE Gone(n)
  <2>1. ASSUME NEW c \in Clients, Advance(c) PROVE Gone(n)
    <3>1. CASE UnregisterDns(c)
      <4>1. pc[c] = "td_dns" /\ pc[c] # "idle" /\ dom' = dom
        BY <3>1 DEF UnregisterDns, Step
      <4>2. dom[NameOf(c)] = None
        BY <1>1, <4>1, InsideFacts DEF DomainKnown
      <4> QED BY <3>1, <4>1, <4>2 DEF UnregisterDns
    <3>2. CASE ~UnregisterDns(c)
      <4>1. dns \subseteq dns'
        BY <2>1, <3>2 DEF Advance, Find, FindNothing, FindConflict, FindEqual, FindRunning,
           FindDifferent, Provision, EnsureNetwork, DefineFilter, DeleteOldSeed, CreateSeed,
           UploadSeed, DeleteOldDisk, CreateDisk, DefineDomain, WriteSpec, Boot, RegisterDns,
           Converge, RedefineDomain, UndefineFilter, Read, Get, ReadLease, Operate,
           LookupNothing, LookupServer,
           CheckActive, PowerOff, AskGuest, Teardown, FindDomain, UndefineDomain, RemoveFilter,
           RemoveDisk, RemoveSeed, Fail, Return, hostVars
      <4> QED BY <1>1, <4>1
    <3> QED BY <3>1, <3>2
  <2>2. ASSUME ~\E c \in Clients : Advance(c) PROVE dns' = dns
    BY <1>1, <2>2 DEF Next, Begin, GuestHalt, Crash, Reboot, Die, hostVars, vars
  <2> QED BY <1>1, <2>1, <2>2
<1>2. TInv /\ SInv /\ [Next]_vars => [\A n \in dns : Gone(n)]_vars
  BY <1>1
<1> QED
  BY SpecSInv, <1>2, PTL DEF Spec, DnsRemovedAfterVm

================================================================================
