-------------------------- MODULE ServerRegistryProofs --------------------------
(***************************************************************************)
(* The write operations of one process implement ServerRegistry: every     *)
(* step of ServerManager is a step of the registry or none.                *)
(***************************************************************************)
EXTENDS ServerSafetyProofs

\* What the registry knows of n, and the names that are on (Registry in
\* ServerManager.tla).
RegOf(n) == IF dom[n] = None THEN None
            ELSE IF dom[n].meta # None THEN dom[n].meta
            ELSE IF Building(n) THEN None ELSE Unmanaged

Running == {n \in Names : dom[n] # None /\ dom[n].active}

\* Steps that change neither are none of the registry's.
LEMMA RegistryStutters ==
  ASSUME \A n \in Names : RegOf(n)' = RegOf(n), Running' = Running
  PROVE  UNCHANGED Registry!vars
  BY DEF Registry!vars, RegOf, Running

\* A change of one entry, made as Create, Update or Remove make it.
LEMMA RegistryWrites ==
  ASSUME NEW n \in Names,
         \A m \in Names \ {n} : RegOf(m)' = RegOf(m),
         n \notin Running, Running' = Running,
         \/ RegOf(n) = None /\ RegOf(n)' \in Wanted
         \/ RegOf(n) \in Wanted /\ RegOf(n)' \in Wanted /\ RegOf(n)'.rest = RegOf(n).rest
         \/ RegOf(n) \in Wanted /\ RegOf(n)' = None
  PROVE  Registry!Next
<1> DEFINE reg == [m \in Names |-> RegOf(m)]
<1>1. reg' = [reg EXCEPT ![n] = RegOf(n)']
  OBVIOUS
<1>2. CASE RegOf(n) = None /\ RegOf(n)' \in Wanted
  BY <1>1, <1>2 DEF Registry!Next, Registry!Create, RegOf, Running
<1>3. CASE RegOf(n) \in Wanted /\ RegOf(n)' \in Wanted /\ RegOf(n)'.rest = RegOf(n).rest
  BY <1>1, <1>3 DEF Registry!Next, Registry!Update, RegOf, Running
<1>4. CASE RegOf(n) \in Wanted /\ RegOf(n)' = None
  BY <1>1, <1>4 DEF Registry!Next, Registry!Remove, RegOf, Running
<1> QED
  BY <1>2, <1>3, <1>4

\* A server that is powered on.
LEMMA RegistryPowersOn ==
  ASSUME NEW n \in Names, \A m \in Names : RegOf(m)' = RegOf(m),
         RegOf(n) \in Wanted, Running' = Running \cup {n}
  PROVE  Registry!Next
  BY DEF Registry!Next, Registry!PowerOn, RegOf, Running

\* A name that is powered off.
LEMMA RegistryPowersOff ==
  ASSUME NEW n \in Names, \A m \in Names : RegOf(m)' = RegOf(m), Running' = Running \ {n}
  PROVE  Registry!Next
  BY DEF Registry!Next, Registry!PowerOff, RegOf, Running

\* Domains stranded by a rollback that fails, a crash or a restart of the host.
LEMMA RegistryStrands ==
  ASSUME \A n \in Names : RegOf(n)' = RegOf(n) \/ (RegOf(n) = None /\ RegOf(n)' = Unmanaged),
         Running' \in {Running, {}}
  PROVE  Registry!Next
<1> DEFINE S == {n \in Names : RegOf(n)' # RegOf(n)}
           reg == [m \in Names |-> RegOf(m)]
<1>1. S \in SUBSET Names /\ \A n \in S : reg[n] = None
  OBVIOUS
<1>2. reg' = [n \in Names |-> IF n \in S THEN Unmanaged ELSE reg[n]]
  OBVIOUS
<1> HIDE DEF S
<1> QED
  BY <1>1, <1>2 DEF Registry!Next, Registry!Strand, RegOf, Running
\* A client that neither fails nor ends its operation nor looks a server up
\* makes a call.
LEMMA CallsStep ==
  ASSUME TInv, NEW c \in Clients, Advance(c), ~Fail(c), ~Return(c), ~LookupServer(c)
  PROVE  \E l \in InsideLabels, next \in InsideLabels : Step(c, l, next)
<1> USE DEF InsideLabels, CallLabels, TryLabels, TeardownLabels, Outcomes
<1>1. CASE Find(c)
  BY <1>1 DEF Find, FindNothing, FindConflict, FindEqual, FindRunning, FindDifferent
<1>2. CASE Provision(c)
  BY <1>2 DEF Provision, EnsureNetwork, DefineFilter, DeleteOldSeed, CreateSeed, UploadSeed,
     DeleteOldDisk, CreateDisk, DefineDomain, WriteSpec, Boot, RegisterDns
<1>3. CASE Converge(c) \/ Read(c)
  BY <1>3 DEF Converge, RedefineDomain, UndefineFilter, Read, Get, ReadLease, Reported
<1>4. CASE Operate(c)
  BY <1>4 DEF Operate, LookupNothing, CheckActive, PowerOff, AskGuest, TInv, LocalInv, Jobs, Step
<1>5. CASE Teardown(c)
  BY <1>5 DEF Teardown, FindDomain, WithoutDomain, UndefineDomain, RemoveFilter, RemoveDisk,
     RemoveSeed, UnregisterDns
<1> QED
  BY <1>1, <1>2, <1>3, <1>4, <1>5 DEF Advance

\* c is between the definition of a new domain and its metadata.
Builds(c) == pc[c] \in {"write", "td_find", "td_undefine"} /\ job[c].op = "create"

\* A step of an operation moves its client alone and keeps its job's name.
LEMMA Moves ==
  ASSUME TInv, NEW c \in Clients, Advance(c)
  PROVE  /\ pc[c] # "idle"
         /\ \A d \in Clients \ {c} : pc'[d] = pc[d] /\ job'[d] = job[d]
         /\ \/ NameOf(c)' = NameOf(c) /\ job'[c].op = job[c].op
            \/ Return(c) /\ pc'[c] = "idle"
<1> USE DEF Step, Goto, TInv, TypeOK, NameOf
<1>1. CASE \E l \in InsideLabels, next \in InsideLabels : Step(c, l, next)
  <2>1. PICK l \in InsideLabels, next \in InsideLabels : Step(c, l, next)
    BY <1>1
  <2>2. /\ pc[c] = l /\ l # "idle" /\ job' = job
        /\ pc' = [pc EXCEPT ![c] = next]
    BY <2>1 DEF InsideLabels, CallLabels, TryLabels, TeardownLabels, Outcomes
  <2> QED BY <2>2
<1>2. CASE LookupServer(c)
  <2>1. /\ pc[c] = "lookup" /\ job[c] \in Jobs
        /\ job' = [job EXCEPT ![c].spec = dom[NameOf(c)].meta]
        /\ \A d \in Clients \ {c} : pc'[d] = pc[d]
    BY <1>2 DEF LookupServer, LocalInv
  <2>2. \A d \in Clients \ {c} : job'[d] = job[d]
    BY <2>1
  <2>3. job'[c].name = job[c].name /\ job'[c].op = job[c].op
    BY <2>1 DEF Jobs
  <2> QED BY <2>1, <2>2, <2>3
<1>3. CASE Fail(c)
  BY <1>3 DEF Fail, CallLabels, TryLabels, TeardownLabels
<1>4. CASE Return(c)
  BY <1>4 DEF Return, Outcomes
<1>5. CASE ~Fail(c) /\ ~Return(c) /\ ~LookupServer(c)
  BY <1>1, <1>5, CallsStep
<1> QED
  BY <1>2, <1>3, <1>4, <1>5

\* What it leaves of the registry: all names but its own.
LEMMA OthersKeep ==
  ASSUME OneProcess, TInv, SInv, NEW c \in Clients, Advance(c),
         \A n \in Names \ {NameOf(c)} : dom'[n] = dom[n]
  PROVE  /\ \A n \in Names \ {NameOf(c)} :
              RegOf(n)' = RegOf(n) /\ (n \in Running' <=> n \in Running)
         /\ Building(NameOf(c)) <=> Builds(c)
         /\ ~Return(c) => (Building(NameOf(c))' <=> Builds(c)')
         /\ Return(c) => \A n \in Names : Building(n)' <=> Building(n)
<1>1. /\ pc[c] # "idle"
      /\ \A d \in Clients \ {c} : pc'[d] = pc[d] /\ job'[d] = job[d]
      /\ \/ NameOf(c)' = NameOf(c) /\ job'[c].op = job[c].op
         \/ Return(c) /\ pc'[c] = "idle"
  BY Moves
<1>2. ASSUME NEW d \in Clients \ {c}, pc[d] # "idle" PROVE NameOf(d) # NameOf(c)
  BY <1>1, <1>2, NamesDiffer
<1>3. Building(NameOf(c)) <=> Builds(c)
  BY <1>2 DEF Building, Builds, NameOf
<1>4. ASSUME NEW n \in Names \ {NameOf(c)} PROVE Building(n)' <=> Building(n)
  <2>1. ~(Builds(c) /\ NameOf(c) = n) /\ ~(Builds(c) /\ NameOf(c) = n)'
    BY <1>1 DEF Builds
  <2> QED BY <1>1, <2>1 DEF Building, Builds, NameOf
<1>5. ASSUME ~Return(c) PROVE Building(NameOf(c))' <=> Builds(c)'
  BY <1>1, <1>2, <1>5 DEF Building, Builds, NameOf
<1>6. ASSUME Return(c) PROVE \A n \in Names : Building(n)' <=> Building(n)
  <2>1. ~Builds(c) /\ ~Builds(c)'
    BY <1>6 DEF Return, Goto, Builds, Outcomes, TInv, TypeOK
  <2> QED BY <1>1, <2>1, <1>3 DEF Building, Builds, NameOf
<1> QED
  BY <1>3, <1>4, <1>5, <1>6 DEF RegOf, Running

\* The calls that leave domains alone are no step of the registry; a rollback
\* that fails may strand a domain.
LEMMA QuietCallRefines ==
  ASSUME OneProcess, TInv, SInv, NEW c \in Clients, Advance(c), dom' = dom, ~WriteSpec(c)
  PROVE  Registry!Next \/ UNCHANGED Registry!vars
<1>1. PICK n \in Names : NameOf(c) = n /\ DomainKnown(c) /\ LocalInv(c)
  BY Moves, InsideFacts DEF TInv
<1>2. /\ \A m \in Names \ {n} : RegOf(m)' = RegOf(m)
      /\ Running' = Running
      /\ Building(n) <=> Builds(c)
      /\ ~Return(c) => (Building(n)' <=> Builds(c)')
      /\ Return(c) => (Building(n)' <=> Building(n))
  <2>1. Running' = Running
    BY DEF Running
  <2> QED BY <1>1, <2>1, OthersKeep, Moves
<1>3. ASSUME RegOf(n)' = RegOf(n) PROVE UNCHANGED Registry!vars
  BY <1>2, <1>3, RegistryStutters
<1>4. CASE Return(c)
  BY <1>2, <1>3, <1>4 DEF RegOf
<1>5. CASE Fail(c)
  <2>1. /\ pc'[c] = HandlerOf(c) /\ job' = job /\ pc[c] \in CallLabels
        /\ ~Return(c)
    BY <1>5 DEF Fail, Goto, Return, TInv, TypeOK, CallLabels, TryLabels, TeardownLabels, Outcomes
  <2>2. CASE Builds(c)' <=> Builds(c)
    BY <1>2, <1>3, <2>1, <2>2 DEF RegOf
  <2>3. CASE Builds(c) /\ ~Builds(c)'
    <3>1. RegOf(n)' = RegOf(n) \/ (RegOf(n) = None /\ RegOf(n)' = Unmanaged)
      <4>1. Building(n) /\ ~Building(n)'
        BY <1>2, <2>1, <2>3
      <4> QED BY <4>1 DEF RegOf
    <3>2. \A m \in Names : RegOf(m)' = RegOf(m) \/ (RegOf(m) = None /\ RegOf(m)' = Unmanaged)
      BY <1>2, <3>1
    <3> QED BY <1>2, <3>2, RegistryStrands
  <2>4. CASE ~Builds(c) /\ Builds(c)'
    <3>1. pc[c] \in TryLabels \ {"write"} /\ job[c].op = "create"
      BY <2>1, <2>4 DEF Builds, HandlerOf
    <3>2. dom[n] = None \/ dom[n].meta # None
      BY <1>1, <3>1 DEF DomainKnown, TryLabels, NewLabels, Managed
    <3> QED BY <1>3, <3>2 DEF RegOf
  <2> QED BY <2>2, <2>3, <2>4
<1>6. CASE ~Return(c) /\ ~Fail(c)
  <2>1. (Builds(c)' <=> Builds(c)) \/ dom[n] = None \/ dom[n].meta # None
    <3> USE <1>1, <1>6 DEF Step, Goto, TInv, TypeOK, Builds
    <3>1. CASE Find(c)
      BY <3>1 DEF Find, FindNothing, FindConflict, FindEqual, FindRunning, FindDifferent
    <3>5. CASE Provision(c)
      <4>1. CASE DefineDomain(c)
        BY <4>1 DEF DefineDomain, DomainKnown, NewLabels
      <4> QED
        BY <3>5, <4>1 DEF Provision, EnsureNetwork, DefineFilter, DeleteOldSeed, CreateSeed,
           UploadSeed, DeleteOldDisk, CreateDisk, Boot, RegisterDns
    <3>2. CASE Converge(c) \/ Read(c)
      BY <3>2 DEF Converge, RedefineDomain, UndefineFilter, Read, Get, ReadLease, Reported
    <3>3. CASE Operate(c)
      BY <3>3 DEF Operate, LookupNothing, LookupServer, CheckActive, PowerOff, AskGuest,
         WhenOn, WhenOff, LocalInv, Jobs, DomainKnown, Managed
    <3>4. CASE Teardown(c)
      BY <3>4 DEF Teardown, FindDomain, WithoutDomain, UndefineDomain, RemoveFilter,
         RemoveDisk, RemoveSeed, UnregisterDns, DomainKnown
    <3> QED BY <1>6, <3>1, <3>2, <3>3, <3>4, <3>5 DEF Advance
  <2> QED BY <1>2, <1>3, <1>6, <2>1 DEF RegOf
<1> QED
  BY <1>4, <1>5, <1>6

\* defineXML of a new domain, setMetadata, create(), defineXML of a convergence,
\* destroy() and undefine() are Create, Update, PowerOn, PowerOff and Remove of
\* the registry, or nothing to it.
LEMMA DomainCallRefines ==
  ASSUME OneProcess, TInv, SInv, NEW c \in Clients,
         \/ DefineDomain(c) \/ WriteSpec(c) \/ Boot(c) \/ RedefineDomain(c)
         \/ PowerOff(c) \/ UndefineDomain(c)
  PROVE  Registry!Next \/ UNCHANGED Registry!vars
<1> USE DEF Step, Goto
<1>1. Advance(c) /\ ~Return(c)
  <2>1. Advance(c)
    BY DEF Advance, Provision, Converge, Operate, Teardown
  <2>2. pc[c] \notin Outcomes
    BY DEF DefineDomain, WriteSpec, Boot, RedefineDomain, PowerOff, UndefineDomain, Outcomes
  <2> QED BY <2>1, <2>2 DEF Return
<1>2. PICK n \in Names : /\ NameOf(c) = n /\ dom[n] \in Domains \cup {None}
                         /\ DomainKnown(c) /\ LocalInv(c) /\ job[c] \in Jobs
  BY <1>1, Moves, InsideFacts DEF TInv
<1>3. \A m \in Names \ {n} : dom'[m] = dom[m]
  BY <1>2 DEF DefineDomain, WriteSpec, Boot, RedefineDomain, PowerOff, UndefineDomain, TInv, TypeOK
<1>4. /\ \A m \in Names \ {n} : RegOf(m)' = RegOf(m) /\ (m \in Running' <=> m \in Running)
      /\ Building(n) <=> Builds(c)
      /\ Building(n)' <=> Builds(c)'
  BY <1>1, <1>2, <1>3, OthersKeep, Moves
<1>5. ASSUME RegOf(n)' = RegOf(n), n \in Running' <=> n \in Running
      PROVE  UNCHANGED Registry!vars
  <2>1. Running' = Running
    BY <1>4, <1>5 DEF Running
  <2> QED BY <1>4, <1>5, <2>1, RegistryStutters
<1>6. ASSUME n \notin Running, n \notin Running' PROVE Running' = Running
  BY <1>4, <1>6 DEF Running
<1>7. CASE DefineDomain(c)
  <2>1. dom[n] = None /\ Builds(c)'
    BY <1>2, <1>7 DEF DefineDomain, Builds, DomainKnown, NewLabels, TInv, TypeOK
  <2>2. dom'[n].meta = None /\ ~dom'[n].active
    BY <1>2, <1>7 DEF DefineDomain, TInv, TypeOK
  <2> QED BY <1>4, <1>5, <2>1, <2>2 DEF RegOf, Running
<1>8. CASE WriteSpec(c)
  <2>1. PICK s \in Wanted : /\ s = job[c].spec /\ s # None
                            /\ dom' = [dom EXCEPT ![n].meta = s]
                            /\ pc[c] \in {"write", "cv_write"}
                            /\ dom[n] # None /\ ~dom[n].active
    BY <1>2, <1>8, ConstantsAssumption DEF WriteSpec, Refused, Stale, LocalInv, DomainKnown,
       OffLabels,
       ConvergeLabels
  <2>2. dom'[n] = [dom[n] EXCEPT !.meta = s] /\ dom'[n] \in Domains
    BY <1>2, <2>1 DEF Domains, TInv, TypeOK
  <2>3. dom'[n] # None /\ dom'[n].meta = s /\ ~dom'[n].active
    BY <1>2, <2>1, <2>2, ConstantsAssumption DEF Domains
  <2>4. RegOf(n)' = s /\ n \notin Running /\ n \notin Running'
    BY <2>1, <2>3 DEF RegOf, Running
  <2>5. CASE pc[c] = "cv_write"
    <3>1. dom[n].meta # None /\ dom[n].meta.rest = s.rest
      BY <1>2, <2>1, <2>5 DEF DomainKnown, ConvergeLabels, Managed
    <3>2. RegOf(n) = dom[n].meta /\ RegOf(n) \in Wanted
      BY <1>2, <2>1, <3>1 DEF RegOf, Domains
    <3> QED BY <1>4, <1>6, <2>4, <3>1, <3>2, RegistryWrites
  <2>6. CASE pc[c] = "write"
    <3>1. Builds(c) /\ dom[n].meta = None
      BY <1>2, <2>6 DEF Builds, DomainKnown
    <3>2. RegOf(n) = None
      BY <1>4, <3>1 DEF RegOf
    <3> QED BY <1>4, <1>6, <2>4, <3>2, RegistryWrites
  <2> QED BY <2>1, <2>5, <2>6
<1>9. CASE Boot(c)
  <2>1. /\ dom[n] # None /\ dom[n].meta # None /\ dom[n].meta \in Wanted
        /\ dom'[n] = [dom[n] EXCEPT !.active = TRUE] /\ dom[n] \in Domains
    BY <1>2, <1>9 DEF Boot, DomainKnown, Managed, Domains, TInv, TypeOK
  <2>2. dom'[n] \in Domains /\ dom'[n].meta = dom[n].meta /\ dom'[n].active
    BY <2>1 DEF Domains
  <2>3. dom'[n] # None
    BY <2>2, ConstantsAssumption
  <2>4. RegOf(n) \in Wanted /\ RegOf(n)' = RegOf(n)
    BY <2>1, <2>2, <2>3 DEF RegOf
  <2>5. Running' = Running \cup {n}
    BY <1>4, <2>2, <2>3 DEF Running
  <2> QED BY <1>4, <2>4, <2>5, RegistryPowersOn
<1>10. CASE RedefineDomain(c)
  <2>1. /\ dom[n] # None /\ dom[n].meta # None /\ ~dom[n].active
        /\ dom[n].meta = snap[c].meta /\ snap[c] \in Domains
        /\ job[c].spec \in Specs
    BY <1>2, <1>10, ConstantsAssumption DEF RedefineDomain, DomainKnown, ConvergeLabels, OffLabels,
       Managed, LocalInv
  <2>2. Edited(snap[c], job[c].spec) \in Domains /\ Edited(snap[c], job[c].spec).meta = snap[c].meta
    BY <2>1 DEF Edited, Domains, Specs
  <2>3. dom'[n] = [Edited(snap[c], job[c].spec) EXCEPT !.active = FALSE]
    <3>1. dom'[n] = [Edited(snap[c], job[c].spec) EXCEPT
                       !.active = dom[n] # None /\ dom[n].active]
      BY <1>2, <1>10 DEF RedefineDomain, TInv, TypeOK
    <3> QED BY <2>1, <3>1
  <2>4. dom'[n] \in Domains /\ dom'[n].meta = dom[n].meta /\ ~dom'[n].active
    BY <2>1, <2>2, <2>3 DEF Domains
  <2>5. dom'[n] # None
    BY <2>4, ConstantsAssumption
  <2> QED BY <1>5, <2>1, <2>4, <2>5 DEF RegOf, Running
<1>11. CASE PowerOff(c)
  <2>1. /\ dom[n] # None /\ dom[n] \in Domains
        /\ dom'[n] = [dom[n] EXCEPT !.active = FALSE]
        /\ ~Builds(c) /\ ~Builds(c)'
    BY <1>2, <1>11 DEF PowerOff, Refused, Stale, Builds, DomainKnown, TInv, TypeOK
  <2>2. dom'[n] \in Domains /\ dom'[n].meta = dom[n].meta /\ ~dom'[n].active
    BY <2>1 DEF Domains
  <2>3. dom'[n] # None
    BY <2>2, ConstantsAssumption
  <2>4. RegOf(n)' = RegOf(n)
    BY <1>4, <2>1, <2>2, <2>3 DEF RegOf
  <2>5. Running' = Running \ {n}
    BY <1>4, <2>2 DEF Running
  <2> QED BY <1>4, <2>4, <2>5, RegistryPowersOff
<1>12. CASE UndefineDomain(c)
  <2>1. dom[n] # None /\ ~dom[n].active /\ dom'[n] = None
    BY <1>2, <1>12 DEF UndefineDomain, Refused, Stale, DomainKnown, OffLabels, TInv, TypeOK
  <2>2. RegOf(n)' = None /\ n \notin Running /\ n \notin Running'
    BY <2>1 DEF RegOf, Running
  <2>3. RegOf(n) \in Wanted \/ RegOf(n) = None
    <3>1. job[c].op # "create" => dom[n].meta # None
      BY <1>2, <1>12 DEF UndefineDomain, DomainKnown, HaveLabels, Managed
    <3>2. job[c].op = "create" => Builds(c)
      BY <1>12 DEF UndefineDomain, Builds
    <3> QED BY <1>2, <1>4, <2>1, <3>1, <3>2 DEF RegOf, Domains
  <2> QED BY <1>4, <1>5, <1>6, <2>2, <2>3, RegistryWrites
<1> QED
  BY <1>7, <1>8, <1>9, <1>10, <1>11, <1>12

\* Every step of an operation is a step of the registry, or none.
LEMMA AdvanceRefines ==
  ASSUME OneProcess, TInv, SInv, NEW c \in Clients, Advance(c)
  PROVE  Registry!Next \/ UNCHANGED Registry!vars
<1>1. CASE \/ DefineDomain(c) \/ WriteSpec(c) \/ Boot(c) \/ RedefineDomain(c)
           \/ PowerOff(c) \/ UndefineDomain(c)
  BY <1>1, DomainCallRefines
<1>2. CASE ~(\/ DefineDomain(c) \/ WriteSpec(c) \/ Boot(c) \/ RedefineDomain(c)
             \/ PowerOff(c) \/ UndefineDomain(c))
  <2>1. dom' = dom
    BY <1>2 DEF Advance, Find, FindNothing, FindConflict, FindEqual, FindRunning,
       FindDifferent, Provision, EnsureNetwork, DefineFilter, DeleteOldSeed, CreateSeed,
       UploadSeed, DeleteOldDisk, CreateDisk, RegisterDns, Converge, UndefineFilter, Read, Get,
       ReadLease,
       Operate, LookupNothing, LookupServer, CheckActive, AskGuest, Teardown, FindDomain,
       RemoveFilter, RemoveDisk, RemoveSeed, UnregisterDns, Fail, Return, hostVars
  <2> QED BY <1>2, <2>1, QuietCallRefines
<1> QED
  BY <1>1, <1>2

\* A request is none of the registry's; guests power names off; crashes and
\* reboots strand what was being built.
LEMMA EnvironmentRefines ==
  ASSUME TInv,
         \/ \E c \in Clients : Begin(c)
         \/ \E n \in Names : GuestHalt(n)
         \/ \E m \in Managers : Crash(m)
         \/ Reboot
  PROVE  Registry!Next \/ UNCHANGED Registry!vars
<1>1. ASSUME NEW c \in Clients, Begin(c) PROVE UNCHANGED Registry!vars
  <2>1. /\ dom' = dom /\ pc[c] = "idle" /\ pc'[c] \in {"find", "lookup"}
        /\ \A d \in Clients \ {c} : pc'[d] = pc[d] /\ job'[d] = job[d]
    BY <1>1 DEF Begin, Goto, hostVars, TInv, TypeOK
  <2>2. ASSUME NEW n \in Names PROVE Building(n)' <=> Building(n)
    <3>1. ASSUME NEW d \in Clients
          PROVE  (pc[d] \in {"write", "td_find", "td_undefine"} /\ job[d].op = "create"
                    /\ job[d].name = n)
             <=> (pc'[d] \in {"write", "td_find", "td_undefine"} /\ job'[d].op = "create"
                    /\ job'[d].name = n)
      BY <2>1
    <3> QED BY <3>1 DEF Building
  <2> QED BY <2>1, <2>2, RegistryStutters DEF RegOf, Running
<1>2. ASSUME NEW n \in Names, GuestHalt(n) PROVE Registry!Next
  <2>1. /\ dom[n] # None /\ dom[n] \in Domains /\ UNCHANGED <<pc, job>>
        /\ dom'[n] = [dom[n] EXCEPT !.active = FALSE]
        /\ \A m \in Names \ {n} : dom'[m] = dom[m]
    BY <1>2 DEF GuestHalt, TInv, TypeOK
  <2>2. dom'[n] \in Domains /\ dom'[n].meta = dom[n].meta /\ ~dom'[n].active
    BY <2>1 DEF Domains
  <2>3. dom'[n] # None
    BY <2>2, ConstantsAssumption
  <2>4. ASSUME NEW m \in Names PROVE RegOf(m)' = RegOf(m)
    <3>1. Building(m)' <=> Building(m)
      BY <2>1 DEF Building
    <3> QED BY <2>1, <2>2, <2>3, <3>1 DEF RegOf
  <2>5. Running' = Running \ {n}
    BY <2>1, <2>2 DEF Running
  <2> QED BY <2>4, <2>5, RegistryPowersOff
<1>3. ASSUME NEW ms, Die(ms),
             \A n \in Names : \/ dom'[n] = dom[n]
                              \/ dom[n] # None /\ dom'[n] = [dom[n] EXCEPT !.active = FALSE],
             Running' \in {Running, {}}
      PROVE  Registry!Next
  <2>1. ASSUME NEW n \in Names PROVE RegOf(n)' = RegOf(n) \/ (RegOf(n) = None /\ RegOf(n)' = Unmanaged)
    <3>1. /\ dom'[n] = None <=> dom[n] = None
          /\ dom[n] # None => dom'[n].meta = dom[n].meta
      <4>1. CASE dom'[n] = dom[n]
        BY <4>1
      <4>2. CASE dom[n] # None /\ dom'[n] = [dom[n] EXCEPT !.active = FALSE]
        <5>1. dom[n] \in Domains
          BY <4>2 DEF TInv, TypeOK
        <5>2. dom'[n] \in Domains /\ dom'[n].meta = dom[n].meta
          BY <4>2, <5>1 DEF Domains
        <5> QED BY <4>2, <5>2, ConstantsAssumption
      <4> QED BY <1>3, <4>1, <4>2
    <3>2. Building(n)' => Building(n)
      BY <1>3 DEF Die, Building
    <3> QED BY <3>1, <3>2 DEF RegOf
  <2> QED BY <1>3, <2>1, RegistryStrands
<1>4. ASSUME NEW m \in Managers, Crash(m) PROVE Registry!Next
  <2>1. Running' = Running
    BY <1>4 DEF Crash, Running
  <2> QED BY <1>3, <1>4, <2>1 DEF Crash
<1>5. ASSUME Reboot PROVE Registry!Next
  <2>1. ASSUME NEW n \in Names
        PROVE  \/ dom'[n] = dom[n]
               \/ dom[n] # None /\ dom'[n] = [dom[n] EXCEPT !.active = FALSE]
    BY <1>5 DEF Reboot
  <2>2. ASSUME NEW n \in Names PROVE n \notin Running'
    <3>1. dom[n] # None => [dom[n] EXCEPT !.active = FALSE].active = FALSE
      BY DEF TInv, TypeOK, Domains
    <3> QED BY <1>5, <3>1 DEF Reboot, Running
  <2>3. Running' = {}
    BY <2>2 DEF Running
  <2> QED BY <1>3, <1>5, <2>1, <2>3 DEF Reboot
<1> QED
  BY <1>1, <1>2, <1>4, <1>5

\* The initial states are the registry's: nothing, or domains of other tools.
LEMMA InitRefines == ASSUME Init PROVE Registry!Init
<1>1. \A n \in Names : dom[n] # None => dom[n].meta = None
  BY DEF Init
<1>2. \A n \in Names : ~Building(n)
  BY DEF Init, Building
<1>3. \A n \in Names : RegOf(n) = IF dom[n] = None THEN None ELSE Unmanaged
  BY <1>1, <1>2 DEF RegOf
<1>4. [n \in Names |-> RegOf(n)] \in [Names -> {None, Unmanaged}]
  BY <1>3
<1>5. Running \in SUBSET {n \in Names : [m \in Names |-> RegOf(m)][n] = Unmanaged}
  BY <1>3 DEF Running
<1> QED
  BY <1>4, <1>5 DEF Registry!Init, RegOf, Running

\* ImplementsRegistry holds: whatever fails, dies or powers off, the operations
\* of one process change the table of servers only as ServerRegistry allows.
THEOREM RegistryImplemented == OneProcess => (Spec => ImplementsRegistry)
<1> SUFFICES ASSUME OneProcess PROVE Spec => ImplementsRegistry
  OBVIOUS
<1>1. ASSUME TInv, SInv, [Next]_vars PROVE Registry!Next \/ UNCHANGED Registry!vars
  <2>1. ASSUME UNCHANGED vars PROVE UNCHANGED Registry!vars
    <3>1. \A n \in Names : Building(n)' <=> Building(n)
      BY <2>1 DEF vars, Building
    <3> QED BY <2>1, <3>1, RegistryStutters DEF vars, RegOf, Running
  <2> QED BY <1>1, <2>1, AdvanceRefines, EnvironmentRefines DEF Next
<1>2. TInv /\ SInv /\ [Next]_vars => [Registry!Next]_(Registry!vars)
  BY <1>1
<1> QED
  BY SpecSInv, InitRefines, <1>2, PTL DEF Spec, Registry!Spec, ImplementsRegistry

================================================================================
