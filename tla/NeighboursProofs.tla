--------------------------- MODULE NeighboursProofs ---------------------------
(***************************************************************************)
(* Proofs about Neighbours for any servers, networks and addresses, and    *)
(* any number of operations and failures.                                  *)
(***************************************************************************)
EXTENDS Neighbours, TLAPS

\* The first resource of n: what its label says is known about it.
HeadFits(n) == LET r == Head(todo[n]) IN
    /\ at[n] \in {"define", "build", "create", "autostart"} => r \in Pools
    /\ at[n] \in {"build", "create", "autostart"} => r \in defined
    /\ at[n] \in {"create", "autostart"} => r \in built
    /\ at[n] = "autostart" => r \in active
    /\ at[n] = "activate" => r \in Nets \cup defined
    /\ at[n] = "list" <=> op[n] = "delete"

LabelsFit == \A n \in Names : phase[n] = "work" /\ todo[n] # <<>> => HeadFits(n)

TInv == TypeOK /\ LabelsFit

--------------------------------------------------------------------------------
(* Sequences of resources and of updates.                                  *)

\* The members of a sequence are its head and the members of its tail.
LEMMA SplitMembers ==
  ASSUME NEW S, NEW s \in Seq(S), s # <<>>
  PROVE  /\ Head(s) \in S /\ Tail(s) \in Seq(S)
         /\ Members(s) = {Head(s)} \cup Members(Tail(s))
<1>1. Head(s) \in S /\ Tail(s) \in Seq(S)
  OBVIOUS
<1>2. Members(s) \subseteq {Head(s)} \cup Members(Tail(s))
  <2> SUFFICES ASSUME NEW i \in DOMAIN s, i # 1 PROVE s[i] \in Members(Tail(s))
    BY DEF Members
  <2>1. i - 1 \in DOMAIN Tail(s) /\ Tail(s)[i - 1] = s[i]
    OBVIOUS
  <2> QED BY <2>1 DEF Members
<1>3. {Head(s)} \cup Members(Tail(s)) \subseteq Members(s)
  <2>1. Head(s) \in Members(s)
    <3>1. 1 \in DOMAIN s /\ Head(s) = s[1]
      OBVIOUS
    <3> QED BY <3>1 DEF Members
  <2>2. ASSUME NEW i \in DOMAIN Tail(s) PROVE Tail(s)[i] \in Members(s)
    <3>1. i + 1 \in DOMAIN s /\ Tail(s)[i] = s[i + 1]
      OBVIOUS
    <3> QED BY <3>1 DEF Members
  <2> QED BY <2>1, <2>2 DEF Members
<1> QED BY <1>1, <1>2, <1>3

\* The members of a sequence over S are in S.
LEMMA MembersOfSeq == ASSUME NEW S, NEW s \in Seq(S) PROVE Members(s) \subseteq S
  BY DEF Members

\* The members of a pair.
LEMMA MembersOfPair == ASSUME NEW a, NEW b PROVE Members(<<a, b>>) = {a, b}
  BY DEF Members

\* Every operation goes through networks and pools.
LEMMA ResourcesOfType ==
  ASSUME NEW n \in Names, NEW o \in Operations
  PROVE  ResourcesOf(o, n) \in Seq(Resources)
<1>1. NetsOf[n] \in Seq(Resources) /\ <<Seeds, Base, Disks>> \in Seq(Resources)
      /\ <<Disks, Seeds>> \in Seq(Resources)
  BY NeighboursAssumption DEF Resources
<1>2. /\ NetsOf[n] \o <<Seeds, Base, Disks>> \in Seq(Resources)
      /\ <<Seeds, Base, Disks>> \o NetsOf[n] \in Seq(Resources)
  BY <1>1
<1> QED BY <1>1, <1>2 DEF ResourcesOf, Operations

\* Registering and unregistering are sequences of updates.
LEMMA ScriptsType ==
  ASSUME NEW n \in Names, NEW ip \in Ips
  PROVE  Register(n, ip) \in Seq(Updates) /\ Unregister(n, ip) \in Seq(Updates)
<1>1. /\ [key |-> n, add |-> {ip}] \in Updates /\ [key |-> ip, add |-> {n}] \in Updates
      /\ [key |-> n, add |-> {}] \in Updates /\ [key |-> ip, add |-> {}] \in Updates
  BY DEF Updates, Keys
<1> QED BY <1>1 DEF Register, Unregister

\* Dying keeps every type but that of vm, active and calm.
LEMMA DieTypes ==
  ASSUME TInv, NEW ns \in SUBSET Names, Die(ns)
  PROVE  /\ todo' \in [Names -> Seq(Resources)] /\ at' = at
         /\ script' \in [Names -> Seq(Updates)] /\ late' \subseteq Updates
         /\ phase' \in [Names -> {"idle", "work", "dns", "failed"}]
         /\ faults' \in 0 .. MaxFaults /\ ops' = ops
         /\ UNCHANGED <<records, addr, inEffect, op>>
<1> USE DEF TInv, TypeOK, ResourcesTypeOK, DnsTypeOK
<1>1. late' \subseteq Updates
  <2>1. PICK us \in SUBSET UNION {Members(script[n]) : n \in ns} : late' = late \cup us
    BY DEF Die
  <2>2. \A n \in ns : Members(script[n]) \subseteq Updates
    BY MembersOfSeq
  <2> QED BY <2>1, <2>2
<1>2. faults' \in 0 .. MaxFaults
  BY NeighboursAssumption DEF Die, Another
<1>3. <<>> \in Seq(Resources) /\ <<>> \in Seq(Updates)
  OBVIOUS
<1> QED BY <1>1, <1>2, <1>3 DEF Die

--------------------------------------------------------------------------------
(* Type correctness.                                                       *)

\* The typing invariant holds initially.
LEMMA InitTInv == ASSUME Init PROVE TInv
<1>1. (CHOOSE ip \in Ips : TRUE) \in Ips
  BY NeighboursAssumption
<1> QED
  BY <1>1, NeighboursAssumption
     DEF TInv, TypeOK, ResourcesTypeOK, DnsTypeOK, LabelsFit, Init, ResourcesInit, DnsInit,
         Resources, ResourceCalls, Operations

\* An operation that gets its lock keeps the types.
LEMMA BeginTInv ==
  ASSUME TInv, NEW n \in Names, NEW o \in Operations, Begin(n, o)
  PROVE  TInv'
<1> USE DEF TInv, TypeOK, ResourcesTypeOK, DnsTypeOK
<1>1. todo' \in [Names -> Seq(Resources)]
  BY ResourcesOfType DEF Begin
<1>2. /\ at' \in [Names -> ResourceCalls] /\ addr' \in [Names -> Ips]
      /\ ops' \in 0 .. MaxOps
  <2>0. IpsOf[n] \subseteq Ips
    BY NeighboursAssumption
  <2>1. at' \in [Names -> ResourceCalls] /\ addr' \in [Names -> Ips]
    BY <2>0 DEF Begin, ResourceCalls
  <2>2. ops' \in 0 .. MaxOps
    BY NeighboursAssumption DEF Begin
  <2> QED BY <2>1, <2>2
<1>3. vm' \in [Names -> {"absent", "off", "on"}] /\ calm' \subseteq Names
  BY DEF Begin
<1>4. inEffect' \in [Names -> 0 .. 2]
  BY DEF Begin
<1>5. TypeOK'
  BY <1>1, <1>2, <1>3, <1>4 DEF Begin, poolVars
<1>6. ASSUME NEW m \in Names, m # n PROVE
        /\ phase'[m] = phase[m] /\ todo'[m] = todo[m] /\ at'[m] = at[m] /\ op'[m] = op[m]
  BY <1>6 DEF Begin
<1>7. LabelsFit'
  <2> SUFFICES ASSUME NEW m \in Names, (phase[m] = "work" /\ todo[m] # <<>>)'
               PROVE  HeadFits(m)'
    BY DEF LabelsFit
  <2>1. CASE m = n
    BY <2>1 DEF Begin, HeadFits
  <2>2. CASE m # n
    BY <2>2, <1>6 DEF LabelsFit, HeadFits, Begin, poolVars
  <2> QED BY <2>1, <2>2
<1> QED BY <1>5, <1>7

\* A libvirt call for a shared resource keeps the types.
LEMMA EnsureTInv == ASSUME TInv, NEW n \in Names, Ensure(n) PROVE TInv'
<1> USE DEF TInv, TypeOK, ResourcesTypeOK, DnsTypeOK
<1> DEFINE r == Head(todo[n])
<1>1. todo[n] # <<>> /\ phase[n] = "work"
  BY DEF Ensure, UseResource, Check, Activate, DefinePool, BuildPool, CreatePool, SetAutostart,
         ListVolumes, Call
<1>2. r \in Resources /\ Tail(todo[n]) \in Seq(Resources) /\ HeadFits(n)
  BY <1>1, SplitMembers DEF LabelsFit
<1>3. /\ at' \in [Names -> ResourceCalls] /\ todo' \in [Names -> Seq(Resources)]
      /\ at' = [at EXCEPT ![n] = at'[n]] /\ todo' = [todo EXCEPT ![n] = todo'[n]]
      /\ UNCHANGED <<dnsVars, ownVars>>
      /\ active \subseteq active' /\ defined \subseteq defined' /\ built \subseteq built'
  BY <1>2 DEF Ensure, UseResource, Check, Activate, DefinePool, BuildPool, CreatePool,
     SetAutostart, ListVolumes, Call, Goto, Advance, ResourceCalls, poolVars
<1>4. /\ active' \subseteq Resources
      /\ defined' \subseteq Pools /\ built' \subseteq Pools /\ autostart' \subseteq Pools
  BY <1>2 DEF Ensure, UseResource, Check, Activate, DefinePool, BuildPool, CreatePool,
     SetAutostart, ListVolumes, Call, poolVars, HeadFits
<1>5. HeadFits(n)'
  <2> USE <1>2 DEF HeadFits, Call, Goto, Advance, poolVars, Ensure, ownVars
  <2>1. CASE Check(n)
    BY <2>1, NeighboursAssumption DEF Check, CallRefused, Up, Exists, Resources
  <2>2. CASE Activate(n)
    BY <2>2 DEF Activate
  <2>3. CASE DefinePool(n)
    BY <2>3 DEF DefinePool
  <2>4. CASE BuildPool(n)
    BY <2>4 DEF BuildPool
  <2>5. CASE CreatePool(n)
    BY <2>5 DEF CreatePool
  <2>6. CASE SetAutostart(n)
    BY <2>6 DEF SetAutostart
  <2>7. CASE ListVolumes(n)
    BY <2>7 DEF ListVolumes
  <2> QED BY <2>1, <2>2, <2>3, <2>4, <2>5, <2>6, <2>7 DEF UseResource
<1>6. ASSUME NEW m \in Names, m # n, (phase[m] = "work" /\ todo[m] # <<>>)' PROVE HeadFits(m)'
  BY <1>3, <1>6 DEF LabelsFit, HeadFits, ownVars
<1> QED BY <1>3, <1>4, <1>5, <1>6 DEF LabelsFit, dnsVars, ownVars

\* Only what the own actions of an operation change matters to the types.
LEMMA SameResources ==
  ASSUME TInv, UNCHANGED <<active, poolVars, at>>,
         \A m \in Names : phase'[m] = "work" /\ todo'[m] # <<>> =>
             phase[m] = "work" /\ todo'[m] = todo[m] /\ op'[m] = op[m]
  PROVE  LabelsFit'
  BY DEF TInv, LabelsFit, HeadFits, poolVars

\* The other steps keep the types.
LEMMA OtherTInv ==
  ASSUME TInv,
         \/ \E n \in Names : \/ Complete(n) \/ Update(n) \/ UpdateFails(n) \/ Succeed(n)
                            \/ Fail(n) \/ Return(n) \/ Crash(n)
         \/ Reboot
         \/ Landing
  PROVE  TInv'
<1> USE DEF TInv, TypeOK, ResourcesTypeOK, DnsTypeOK
<1>1. ASSUME NEW n \in Names, Complete(n) PROVE TInv'
  <2>1. script' \in [Names -> Seq(Updates)]
    <3>1. Register(n, addr[n]) \in Seq(Updates) /\ Unregister(n, addr[n]) \in Seq(Updates)
      BY ScriptsType
    <3> QED BY <1>1, <3>1 DEF Complete
  <2>2. TypeOK'
    BY <1>1, <2>1 DEF Complete, resourceVars, poolVars
  <2>3. LabelsFit'
    BY <1>1, SameResources DEF Complete, poolVars, resourceVars
  <2> QED BY <2>2, <2>3
<1>2. ASSUME NEW n \in Names, Update(n) PROVE TInv'
  <2>1. Head(script[n]) \in Updates /\ Tail(script[n]) \in Seq(Updates)
    BY <1>2 DEF Update, Send
  <2>2. records' \in [Keys -> SUBSET Keys]
    BY <1>2, <2>1 DEF Update, Send, Applied, Updates
  <2>3. inEffect' \in [Names -> 0 .. 2]
    BY <1>2 DEF Update, Send
  <2>4. TypeOK'
    BY <1>2, <2>1, <2>2, <2>3 DEF Update, Send, resourceVars, poolVars, ownVars
  <2>5. LabelsFit'
    BY <1>2, SameResources DEF Update, poolVars, resourceVars, ownVars
  <2> QED BY <2>4, <2>5
<1>3. ASSUME NEW n \in Names, UpdateFails(n) PROVE TInv'
  <2>1. Head(script[n]) \in Updates /\ Tail(script[n]) \in Seq(Updates) /\ <<>> \in Seq(Updates)
    BY <1>3 DEF UpdateFails, SendFails
  <2>2. faults' \in 0 .. MaxFaults
    BY <1>3, NeighboursAssumption DEF UpdateFails, Another
  <2>3. script' \in [Names -> Seq(Updates)]
    <3>1. CASE script' = [script EXCEPT ![n] = Tail(@)]
      BY <2>1, <3>1
    <3>2. CASE script' = [script EXCEPT ![n] = <<>>]
      BY <2>1, <3>2
    <3> QED BY <1>3, <3>1, <3>2 DEF UpdateFails, SendFails
  <2>6. late' \subseteq Updates /\ inEffect' \in [Names -> 0 .. 2]
    BY <1>3, <2>1 DEF UpdateFails, SendFails
  <2>4. TypeOK'
    BY <1>3, <2>2, <2>3, <2>6 DEF UpdateFails, SendFails, resourceVars, poolVars
  <2>5. LabelsFit'
    BY <1>3, SameResources DEF UpdateFails, poolVars, resourceVars
  <2> QED BY <2>4, <2>5
<1>4. ASSUME NEW n \in Names, Succeed(n) PROVE TInv'
  <2>1. TypeOK'
    BY <1>4 DEF Succeed, resourceVars, poolVars, dnsVars
  <2>2. LabelsFit'
    BY <1>4, SameResources DEF Succeed, poolVars, resourceVars
  <2> QED BY <2>1, <2>2
<1>5. ASSUME NEW n \in Names, Fail(n) PROVE TInv'
  <2>1. faults' \in 0 .. MaxFaults /\ calm' \subseteq Names
    BY <1>5, NeighboursAssumption DEF Fail, Another
  <2>2. TypeOK'
    BY <1>5, <2>1 DEF Fail, Interrupted, resourceVars, poolVars, dnsVars
  <2>3. LabelsFit'
    BY <1>5, SameResources DEF Fail, poolVars, resourceVars
  <2> QED BY <2>2, <2>3
<1>6. ASSUME NEW n \in Names, Return(n) PROVE TInv'
  <2>1. TypeOK'
    <3>1. <<>> \in Seq(Resources)
      OBVIOUS
    <3> QED BY <1>6, <3>1 DEF Return, poolVars, dnsVars
  <2>2. LabelsFit'
    BY <1>6, SameResources DEF Return
  <2> QED BY <2>1, <2>2
<1>7. ASSUME NEW n \in Names, Crash(n) PROVE TInv'
  <2>1. Die({n}) /\ vm' \in Interrupted(n) /\ UNCHANGED <<active, poolVars, calm>>
    BY <1>7 DEF Crash
  <2>2. TypeOK'
    BY <2>1, DieTypes DEF Interrupted, poolVars
  <2>3. LabelsFit'
    BY <2>1, SameResources DEF Die
  <2> QED BY <2>2, <2>3
<1>8. ASSUME Reboot PROVE TInv'
  <2>1. Die(Names) /\ RestartResources /\ calm' = {}
        /\ vm' = [n \in Names |-> IF vm[n] = "on" THEN "off" ELSE vm[n]]
    BY <1>8 DEF Reboot
  <2>2. TypeOK'
    BY <2>1, DieTypes DEF RestartResources, poolVars, Resources
  <2>3. LabelsFit'
    BY <2>1 DEF Die, LabelsFit
  <2> QED BY <2>2, <2>3
<1>9. ASSUME Landing PROVE TInv'
  <2>1. PICK u \in late : Land(u)
    BY <1>9 DEF Landing
  <2>2. records' \in [Keys -> SUBSET Keys] /\ inEffect' \in [Names -> 0 .. 2]
    BY <2>1 DEF Land, Applied, Updates
  <2>3. TypeOK'
    BY <1>9, <2>1, <2>2 DEF Landing, Land, resourceVars, poolVars, ownVars
  <2>4. LabelsFit'
    BY <1>9, SameResources DEF Landing, poolVars, resourceVars, ownVars
  <2> QED BY <2>3, <2>4
<1> QED BY <1>1, <1>2, <1>3, <1>4, <1>5, <1>6, <1>7, <1>8, <1>9

\* Every step keeps the types.
LEMMA NextTInv == ASSUME TInv, [Next]_vars PROVE TInv'
<1>1. CASE UNCHANGED vars
  BY <1>1 DEF vars, resourceVars, poolVars, dnsVars, ownVars, TInv, TypeOK, ResourcesTypeOK,
     DnsTypeOK, LabelsFit, HeadFits
<1>2. CASE Next
  BY <1>2, BeginTInv, EnsureTInv, OtherTInv DEF Next, Work
<1> QED BY <1>1, <1>2

\* Every variable of operations on several servers keeps its type, whatever
\* fails, crashes or restarts.
THEOREM Types == Spec => []TypeOK
<1>1. Spec => []TInv
  BY InitTInv, NextTInv, PTL DEF Spec
<1>2. TInv => TypeOK
  BY DEF TInv
<1> QED BY <1>1, <1>2, PTL

--------------------------------------------------------------------------------
(* What an operation needs is active, or still on its list.                *)

Ensured == \A n \in Names : phase[n] = "work" /\ op[n] # "delete" =>
    Members(ResourcesOf(op[n], n)) \subseteq Members(todo[n]) \cup active

RInv == TInv /\ Ensured

\* A call for a shared resource leaves its head on the list or active.
LEMMA EnsureProgress ==
  ASSUME TInv, NEW n \in Names, Ensure(n), op[n] # "delete"
  PROVE  Members(todo[n]) \subseteq Members(todo'[n]) \cup active'
<1> USE DEF TInv, TypeOK, ResourcesTypeOK
<1>1. todo[n] # <<>> /\ phase[n] = "work"
  BY DEF Ensure, UseResource, Check, Activate, DefinePool, BuildPool, CreatePool, SetAutostart,
         ListVolumes, Call
<1>2. HeadFits(n) /\ Members(todo[n]) = {Head(todo[n])} \cup Members(Tail(todo[n]))
  BY <1>1, SplitMembers DEF LabelsFit
<1>3. \/ todo' = todo
      \/ todo' = [todo EXCEPT ![n] = Tail(@)] /\ Head(todo[n]) \in active'
  BY <1>2 DEF Ensure, UseResource, Check, Activate, DefinePool, BuildPool, CreatePool,
     SetAutostart, ListVolumes, Call, Goto, Advance, Up, HeadFits, poolVars
<1> QED BY <1>2, <1>3

\* Ensured holds after every step.
LEMMA NextEnsured == ASSUME RInv, [Next]_vars PROVE Ensured'
<1> USE DEF RInv, TInv, TypeOK, ResourcesTypeOK
<1>1. ASSUME NEW n \in Names, NEW o \in Operations, Begin(n, o) PROVE Ensured'
  BY <1>1 DEF Begin, Ensured
<1>2. ASSUME NEW n \in Names, Ensure(n) PROVE Ensured'
  <2>1. active \subseteq active' /\ UNCHANGED <<phase, op>>
    BY <1>2 DEF Ensure, UseResource, Check, Activate, DefinePool, BuildPool, CreatePool,
       SetAutostart, ListVolumes, ownVars
  <2>2. \A m \in Names : m # n => todo'[m] = todo[m]
    BY <1>2 DEF Ensure, UseResource, Check, Activate, DefinePool, BuildPool, CreatePool,
       SetAutostart, ListVolumes, Goto, Advance
  <2>3. op[n] # "delete" => Members(todo[n]) \subseteq Members(todo'[n]) \cup active'
    BY <1>2, EnsureProgress
  <2> QED BY <2>1, <2>2, <2>3 DEF Ensured
<1>3. ASSUME \A m \in Names : phase'[m] = "work" => phase[m] = "work" /\ todo'[m] = todo[m] /\ op'[m] = op[m],
             active' = active
      PROVE  Ensured'
  BY <1>3 DEF Ensured
<1>4. ASSUME NEW n \in Names,
             \/ Complete(n) \/ Update(n) \/ UpdateFails(n) \/ Succeed(n) \/ Fail(n) \/ Return(n)
             \/ Crash(n)
      PROVE  Ensured'
  BY <1>3, <1>4 DEF Complete, Update, UpdateFails, Succeed, Fail, Return, Crash, Die,
     resourceVars, poolVars, ownVars
<1>5. CASE Reboot
  BY <1>5 DEF Reboot, Die, Ensured
<1>6. CASE Landing \/ UNCHANGED vars
  BY <1>3, <1>6 DEF Landing, vars, resourceVars, ownVars
<1> QED BY <1>1, <1>2, <1>4, <1>5, <1>6 DEF Next, Work

\* Both together are an invariant.
THEOREM EnsuredAlways == Spec => []RInv
<1>1. Init => RInv
  BY InitTInv DEF RInv, Ensured, Init
<1>2. RInv /\ [Next]_vars => RInv'
  BY NextTInv, NextEnsured DEF RInv
<1> QED BY <1>1, <1>2, PTL DEF Spec

\* What the operation on n goes through contains what it needs.
LEMMA ResourcesOfMembers ==
  ASSUME NEW n \in Names, NEW o \in Operations, o # "delete"
  PROVE  Members(NetsOf[n]) \cup (IF o = "boot" THEN {} ELSE Pools \cup {Base})
           \subseteq Members(ResourcesOf(o, n))
<1> DEFINE s == NetsOf[n]  p == <<Seeds, Base, Disks>>
<1>1. s \in Seq(Nets) /\ Pools = {Seeds, Disks}
  BY NeighboursAssumption
<1>2. \A i \in DOMAIN s : /\ i \in DOMAIN (s \o p) /\ (s \o p)[i] = s[i]
                         /\ i + 3 \in DOMAIN (p \o s) /\ (p \o s)[i + 3] = s[i]
  BY <1>1
<1>3. \A i \in DOMAIN p : /\ Len(s) + i \in DOMAIN (s \o p) /\ (s \o p)[Len(s) + i] = p[i]
                         /\ i \in DOMAIN (p \o s) /\ (p \o s)[i] = p[i]
  BY <1>1
<1>4. Members(s) \subseteq Members(s \o p) /\ Members(s) \subseteq Members(p \o s)
  BY <1>2 DEF Members
<1>5. Members(p) \subseteq Members(s \o p) /\ Members(p) \subseteq Members(p \o s)
  BY <1>3 DEF Members
<1>6. Members(p) = Pools \cup {Base}
  BY <1>1 DEF Members
<1> QED BY <1>4, <1>5, <1>6 DEF ResourcesOf, Operations

\* Ensured implies what is promised when the list is empty.
LEMMA EnsuredReady == RInv => ReadyWhenBuilt
<1> SUFFICES ASSUME RInv, NEW n \in Names,
                    phase[n] = "work" /\ todo[n] = <<>> /\ op[n] # "delete"
             PROVE  Members(NetsOf[n]) \cup (IF op[n] = "boot" THEN {} ELSE Pools \cup {Base}) \subseteq active
  BY DEF ReadyWhenBuilt
<1>1. Members(todo[n]) = {}
  BY DEF Members
<1>2. op[n] \in Operations
  BY DEF RInv, TInv, TypeOK
<1> QED BY <1>1, <1>2, ResourcesOfMembers DEF RInv, Ensured

\* When a server is about to boot, all it needs is active, whatever the
\* operations on its neighbours do and did.
THEOREM ReadyToBoot == Spec => []ReadyWhenBuilt
  BY EnsuredAlways, EnsuredReady, PTL

--------------------------------------------------------------------------------
(* An operation that is alone on the host.                                 *)

\* Pools are activated when they can be, and a server came with its pools.
PoolsFit ==
    /\ active \cap Pools \subseteq defined \cap built
    /\ autostart \subseteq defined
    /\ \A n \in Names : vm[n] # "absent" => Pools \subseteq defined \cap built
    /\ \A n \in Names : phase[n] = "work" =>
         /\ op[n] \in {"boot", "reinstall"} => vm[n] # "absent"
         /\ op[n] = "boot" => Members(todo[n]) \subseteq Nets
         /\ op[n] = "delete" => Members(todo[n]) \subseteq Pools

\* What an operation saw of its first resource is still true when it is alone.
StillTrue(n) == phase[n] = "work" /\ todo[n] # <<>> =>
    /\ at[n] = "define" => Head(todo[n]) \notin defined
    /\ at[n] \in {"activate", "build", "create"} => Head(todo[n]) \notin active

CalmFits == \A n \in calm : phase[n] # "idle" =>
    /\ \A m \in Names \ {n} : phase[m] = "idle"
    /\ StillTrue(n)

AInv == RInv /\ PoolsFit /\ CalmFits /\ AloneSucceeds

\* PoolsFit depends on the servers and on the pools.
LEMMA SamePools ==
  ASSUME TInv, PoolsFit,
         active' = active, UNCHANGED poolVars,
         \A m \in Names : vm'[m] # "absent" => vm[m] # "absent",
         \A m \in Names : phase'[m] = "work" =>
             /\ phase[m] = "work" /\ todo'[m] = todo[m] /\ op'[m] = op[m]
             /\ vm[m] # "absent" => vm'[m] # "absent"
  PROVE  PoolsFit'
  BY DEF PoolsFit, poolVars, TInv, TypeOK

\* PoolsFit holds after every step.
LEMMA NextPoolsFit == ASSUME AInv, [Next]_vars PROVE PoolsFit'
<1> USE DEF AInv, RInv, TInv, TypeOK, ResourcesTypeOK
<1>1. ASSUME NEW n \in Names, NEW o \in Operations, Begin(n, o) PROVE PoolsFit'
  <2>1. Members(NetsOf[n]) \subseteq Nets
    BY MembersOfSeq, NeighboursAssumption
  <2>2. ASSUME NEW m \in Names, phase'[m] = "work", op'[m] = "boot" PROVE Members(todo'[m]) \subseteq Nets
    BY <1>1, <2>1, <2>2 DEF Begin, ResourcesOf, PoolsFit
  <2>3. ASSUME NEW m \in Names, phase'[m] = "work", op'[m] \in {"boot", "reinstall"} PROVE vm'[m] # "absent"
    BY <1>1, <2>3 DEF Begin, Possible, PoolsFit
  <2>4. ASSUME NEW m \in Names, phase'[m] = "work", op'[m] = "delete" PROVE Members(todo'[m]) \subseteq Pools
    <3>1. Members(<<Disks, Seeds>>) = Pools
      BY MembersOfPair, NeighboursAssumption
    <3> QED BY <1>1, <2>4, <3>1 DEF Begin, ResourcesOf, PoolsFit
  <2> QED BY <1>1, <2>2, <2>3, <2>4 DEF Begin, PoolsFit, poolVars
<1>2. ASSUME NEW n \in Names, Ensure(n) PROVE PoolsFit'
  <2> DEFINE r == Head(todo[n])
  <2>1. todo[n] # <<>> /\ phase[n] = "work" /\ UNCHANGED <<vm, phase, op>>
    BY <1>2 DEF Ensure, UseResource, Check, Activate, DefinePool, BuildPool, CreatePool,
       SetAutostart, ListVolumes, Call, ownVars
  <2>2. HeadFits(n) /\ Members(Tail(todo[n])) \subseteq Members(todo[n])
    BY <2>1, SplitMembers DEF LabelsFit
  <2>3. /\ defined \subseteq defined' /\ built \subseteq built'
        /\ active' \cap Pools \subseteq defined' \cap built'
        /\ autostart' \subseteq defined'
    BY <1>2, <2>2, NeighboursAssumption
       DEF Ensure, UseResource, Check, Activate, DefinePool, BuildPool, CreatePool,
       SetAutostart, ListVolumes, Call, CallRefused, HeadFits, poolVars, PoolsFit
  <2>4. \A m \in Names : Members(todo'[m]) \subseteq Members(todo[m])
    BY <1>2, <2>2 DEF Ensure, UseResource, Check, Activate, DefinePool, BuildPool, CreatePool,
       SetAutostart, ListVolumes, Goto, Advance
  <2> QED BY <2>1, <2>3, <2>4 DEF PoolsFit
<1>3. ASSUME NEW n \in Names, Complete(n) PROVE PoolsFit'
  <2>1. op[n] # "delete" => Pools \subseteq defined \cap built
    <3>1. ReadyWhenBuilt
      BY EnsuredReady
    <3>2. phase[n] = "work" /\ todo[n] = <<>>
      BY <1>3 DEF Complete
    <3>3. CASE op[n] = "boot"
      BY <3>2, <3>3 DEF PoolsFit
    <3>4. CASE op[n] \notin {"boot", "delete"}
      BY <3>1, <3>2, <3>4 DEF ReadyWhenBuilt, PoolsFit
    <3> QED BY <3>3, <3>4
  <2>2. \A m \in Names : vm'[m] # "absent" => vm[m] # "absent" \/ (m = n /\ op[n] # "delete")
    BY <1>3 DEF Complete
  <2> QED BY <1>3, <2>1, <2>2 DEF Complete, PoolsFit, resourceVars
<1>4. ASSUME NEW n \in Names,
             \/ Update(n) \/ UpdateFails(n) \/ Succeed(n) \/ Return(n)
      PROVE  PoolsFit'
  BY <1>4, SamePools DEF Update, UpdateFails, Succeed, Return, resourceVars, poolVars, ownVars
<1>5. ASSUME NEW n \in Names, Fail(n) \/ Crash(n) PROVE PoolsFit'
  <2>1. vm' \in Interrupted(n)
    BY <1>5 DEF Fail, Crash
  <2>2. \A m \in Names : vm'[m] # "absent" <=> vm[m] # "absent"
    BY <2>1 DEF Interrupted, CutsPower, PoolsFit
  <2> QED BY <1>5, <2>2, SamePools DEF Fail, Crash, Die, resourceVars, poolVars
<1>6. CASE Reboot
  <2>1. active' \cap Pools \subseteq defined \cap built
    BY <1>6, NeighboursAssumption DEF Reboot, RestartResources, PoolsFit
  <2> QED BY <1>6, <2>1 DEF Reboot, Die, RestartResources, PoolsFit, poolVars
<1>7. CASE Landing \/ UNCHANGED vars
  BY <1>7, SamePools DEF Landing, vars, resourceVars, poolVars, ownVars
<1> QED BY <1>1, <1>2, <1>3, <1>4, <1>5, <1>6, <1>7 DEF Next, Work

\* No other operation is under way while a calm one is.
LEMMA NextCalmFits == ASSUME AInv, [Next]_vars PROVE CalmFits'
<1> USE DEF AInv, RInv, TInv, TypeOK, ResourcesTypeOK
<1>1. ASSUME NEW n \in Names, NEW o \in Operations, Begin(n, o) PROVE CalmFits'
  BY <1>1 DEF Begin, CalmFits, StillTrue
<1>2. ASSUME NEW n \in Names, Ensure(n) PROVE CalmFits'
  <2> DEFINE r == Head(todo[n])
  <2>1. todo[n] # <<>> /\ phase[n] = "work" /\ UNCHANGED <<phase, calm>>
    BY <1>2 DEF Ensure, UseResource, Check, Activate, DefinePool, BuildPool, CreatePool,
       SetAutostart, ListVolumes, Call, ownVars
  <2>2. HeadFits(n)
    BY <2>1 DEF LabelsFit
  <2>3. n \in calm => StillTrue(n)'
    <3> SUFFICES ASSUME n \in calm PROVE StillTrue(n)'
      OBVIOUS
    <3>1. StillTrue(n)
      BY <2>1 DEF CalmFits
    <3> USE <2>1, <2>2, <3>1 DEF StillTrue, HeadFits, Call, Goto, Advance, poolVars
    <3>2. CASE Check(n)
      BY <3>2 DEF Check, Up, Exists
    <3>3. CASE Activate(n) \/ SetAutostart(n) \/ ListVolumes(n)
      BY <3>3 DEF Activate, SetAutostart, ListVolumes
    <3>4. CASE DefinePool(n)
      BY <3>4 DEF DefinePool, PoolsFit
    <3>5. CASE BuildPool(n) \/ CreatePool(n)
      BY <3>5 DEF BuildPool, CreatePool
    <3> QED BY <1>2, <3>2, <3>3, <3>4, <3>5 DEF Ensure, UseResource
  <2>4. \A m \in calm : phase[m] # "idle" => m = n
    BY <2>1 DEF CalmFits
  <2> QED BY <2>1, <2>3, <2>4 DEF CalmFits
<1>3. ASSUME calm' \subseteq calm, active' = active, UNCHANGED <<poolVars, at>>,
             \A m \in Names : phase[m] = "idle" => phase'[m] = "idle",
             \A m \in Names : phase'[m] = "work" => phase[m] = "work" /\ todo'[m] = todo[m]
      PROVE  CalmFits'
  BY <1>3 DEF CalmFits, StillTrue, poolVars
<1>4. ASSUME NEW n \in Names,
             \/ Complete(n) \/ Update(n) \/ UpdateFails(n) \/ Succeed(n) \/ Fail(n) \/ Return(n)
             \/ Crash(n)
      PROVE  CalmFits'
  BY <1>3, <1>4 DEF Complete, Update, UpdateFails, Succeed, Fail, Return, Crash, Die,
     resourceVars, poolVars, ownVars
<1>5. CASE Reboot
  BY <1>5 DEF Reboot, CalmFits
<1>6. CASE Landing \/ UNCHANGED vars
  BY <1>3, <1>6 DEF Landing, vars, resourceVars, poolVars, ownVars
<1> QED BY <1>1, <1>2, <1>4, <1>5, <1>6 DEF Next, Work

\* The three ways a calm operation may fail.
Excused(n) == \/ op[n] = "create" /\ \E p \in Pools : p \in defined \ built
              \/ op[n] = "delete" /\ \E p \in Pools : p \in defined \ active
              \/ op[n] \in {"create", "reinstall"} /\ Base \notin active

\* libvirt refuses nothing else to a calm operation.
LEMMA RefusedExcused ==
  ASSUME AInv, NEW n \in calm, phase[n] = "work", Refused(n)
  PROVE  Excused(n)
<1> USE DEF AInv, RInv, TInv, TypeOK, ResourcesTypeOK
<1>1. CASE todo[n] = <<>>
  <2>1. ReadyWhenBuilt
    BY EnsuredReady
  <2> QED BY <1>1, <2>1 DEF ReadyWhenBuilt, Refused, BootRefused
<1>2. CASE todo[n] # <<>>
  <2> DEFINE r == Head(todo[n])
  <2>1. HeadFits(n) /\ StillTrue(n) /\ CallRefused(n)
    BY <1>2 DEF LabelsFit, CalmFits, Refused
  <2>2. r \in Members(todo[n])
    BY <1>2, SplitMembers
  <2>6. CASE r = Base /\ Base \notin active
    <3>1. r \notin Nets /\ r \notin Pools
      BY <2>6, NeighboursAssumption
    <3>2. op[n] \notin {"boot", "delete"}
      BY <2>2, <3>1 DEF PoolsFit
    <3> QED BY <2>6, <3>2 DEF Excused, Operations
  <2>7. r = Base => Base \notin active
    BY <2>1, <1>2, NeighboursAssumption DEF CallRefused, HeadFits, StillTrue
  <2>3. CASE at[n] = "activate" /\ r # Base
    <3>1. r \in Pools \ built /\ r \in defined
      BY <2>1, <2>3, <1>2, NeighboursAssumption DEF CallRefused, HeadFits, StillTrue
    <3>2. vm[n] = "absent"
      BY <3>1 DEF PoolsFit
    <3>3. op[n] \notin {"boot", "reinstall", "delete"}
      BY <3>2, <2>1, <2>3 DEF PoolsFit, HeadFits
    <3> QED BY <3>1, <3>3 DEF Excused, Operations
  <2>4. CASE at[n] = "list" /\ r # Base
    BY <2>1, <2>4 DEF CallRefused, HeadFits, Excused
  <2>5. CASE at[n] \notin {"activate", "list"} /\ r # Base
    BY <2>1, <2>5, <1>2 DEF CallRefused, HeadFits, StillTrue
  <2> QED BY <2>3, <2>4, <2>5, <2>6, <2>7
<1> QED BY <1>1, <1>2

\* AloneSucceeds holds after every step.
LEMMA NextAlone == ASSUME AInv, [Next]_vars PROVE AloneSucceeds'
<1> USE DEF AInv, RInv, TInv, TypeOK, ResourcesTypeOK
<1>1. ASSUME \A m \in calm' : phase'[m] = "failed" => m \in calm /\ phase[m] = "failed" /\ op'[m] = op[m],
             active' = active, UNCHANGED poolVars
      PROVE  AloneSucceeds'
  BY <1>1 DEF AloneSucceeds, poolVars
<1>2. ASSUME NEW n \in Names, NEW o \in Operations, Begin(n, o) PROVE AloneSucceeds'
  BY <1>1, <1>2 DEF Begin
<1>3. ASSUME NEW n \in Names, Ensure(n) PROVE AloneSucceeds'
  <2>1. phase[n] = "work" /\ UNCHANGED ownVars
    BY <1>3 DEF Ensure
  <2> QED BY <2>1 DEF ownVars, AloneSucceeds, CalmFits
<1>4. ASSUME NEW n \in Names, Fail(n) PROVE AloneSucceeds'
  <2>1. n \in calm' => Refused(n) /\ n \in calm /\ phase[n] = "work"
    BY <1>4 DEF Fail
  <2>2. n \in calm' => Excused(n)
    BY <2>1, RefusedExcused
  <2>3. \A m \in calm' : m # n => m \in calm /\ phase'[m] = phase[m]
    BY <1>4 DEF Fail
  <2> QED BY <1>4, <2>2, <2>3 DEF Fail, Excused, AloneSucceeds, resourceVars
<1>5. ASSUME NEW n \in Names,
             \/ Complete(n) \/ Update(n) \/ UpdateFails(n) \/ Succeed(n) \/ Return(n) \/ Crash(n)
      PROVE  AloneSucceeds'
  BY <1>1, <1>5 DEF Complete, Update, UpdateFails, Succeed, Return, Crash, Die,
     resourceVars, poolVars, ownVars
<1>6. CASE Reboot
  BY <1>6 DEF Reboot, AloneSucceeds
<1>7. CASE Landing \/ UNCHANGED vars
  BY <1>1, <1>7 DEF Landing, vars, resourceVars, poolVars, ownVars
<1> QED BY <1>2, <1>3, <1>4, <1>5, <1>6, <1>7 DEF Next, Work

\* Races, failures and restarts spoil two operations only.
THEOREM Alone == Spec => []AloneSucceeds
<1>1. Init => AInv
  <2> SUFFICES ASSUME Init PROVE AInv
    OBVIOUS
  <2>1. RInv
    BY InitTInv DEF RInv, Ensured, Init
  <2> QED BY <2>1, NeighboursAssumption
          DEF AInv, PoolsFit, CalmFits, AloneSucceeds, Init, ResourcesInit
<1>2. AInv /\ [Next]_vars => AInv'
  BY NextTInv, NextEnsured, NextPoolsFit, NextCalmFits, NextAlone DEF AInv, RInv
<1>3. AInv => AloneSucceeds
  BY DEF AInv
<1> QED BY <1>1, <1>2, <1>3, PTL DEF Spec

--------------------------------------------------------------------------------
(* DNS.                                                                    *)

\* The records that server n should have, and its address.
RightAddress(n) == IF vm[n] = "absent" THEN {} ELSE {addr[n]}
RightName(n) == IF vm[n] = "absent" THEN {} ELSE {n}

\* What n still has to send makes its records right.
ScriptFits(n) == \A u \in Members(script[n]) :
    u \in {[key |-> n, add |-> RightAddress(n)], [key |-> addr[n], add |-> RightName(n)]}

EffectFits(n) ==
    /\ inEffect[n] \in {1, 2} => records[n] = RightAddress(n)
    /\ inEffect[n] = 2 => records[addr[n]] = RightName(n)

PhaseFits(n) ==
    /\ phase[n] # "dns" => script[n] = <<>>
    /\ phase[n] = "work" => inEffect[n] = 0 \/ (op[n] = "boot" /\ vm[n] # "absent")

DnsFits(n) == ScriptFits(n) /\ EffectFits(n) /\ PhaseFits(n)

DInv == TInv /\ \A n \in Names : DnsFits(n)

\* Of an update, DnsFits sees the records and what it touches.
LEMMA AppliedFits ==
  ASSUME TInv, NEW m \in Names, NEW u \in Updates, EffectFits(m),
         records' = Applied(u), UNCHANGED <<vm, addr>>,
         inEffect'[m] = IF Touches(u, m) THEN 0 ELSE inEffect[m]
  PROVE  EffectFits(m)'
<1>1. RightAddress(m)' = RightAddress(m) /\ RightName(m)' = RightName(m)
  BY DEF RightAddress, RightName
<1>2. ASSUME ~Touches(u, m) PROVE records'[m] = records[m] /\ records'[addr[m]] = records[addr[m]]
  BY <1>2 DEF TInv, TypeOK, DnsTypeOK, Applied, Touches, Keys
<1> QED BY <1>1, <1>2 DEF EffectFits

\* Nothing about n's records changed.
LEMMA SameDns ==
  ASSUME TInv, NEW m \in Names, DnsFits(m),
         script'[m] \in {script[m], <<>>}, records' = records, addr' = addr,
         inEffect'[m] \in {inEffect[m], 0},
         vm'[m] = "absent" <=> vm[m] = "absent",
         phase'[m] # "dns" => phase[m] # "dns" \/ script'[m] = <<>>,
         phase'[m] = "work" => phase[m] = "work" /\ op'[m] = op[m]
  PROVE  DnsFits(m)'
<1> USE DEF TInv, TypeOK, DnsTypeOK
<1>1. RightAddress(m)' = RightAddress(m) /\ RightName(m)' = RightName(m)
  BY DEF RightAddress, RightName
<1>2. ScriptFits(m)'
  BY <1>1 DEF DnsFits, ScriptFits, Members
<1>3. EffectFits(m)'
  BY <1>1 DEF DnsFits, EffectFits
<1>4. PhaseFits(m)'
  BY DEF DnsFits, PhaseFits
<1> QED BY <1>2, <1>3, <1>4 DEF DnsFits

\* DnsFits holds after every step.
LEMMA NextDnsFits == ASSUME DInv, [Next]_vars, NEW m \in Names PROVE DnsFits(m)'
<1> USE DEF DInv, TInv, TypeOK, DnsTypeOK
<1>1. ASSUME NEW n \in Names, NEW o \in Operations, Begin(n, o) PROVE DnsFits(m)'
  <2>1. CASE m # n
    BY <1>1, <2>1 DEF Begin, DnsFits, ScriptFits, EffectFits, PhaseFits, RightAddress, RightName
  <2>2. CASE m = n /\ o # "boot"
    <3>1. script'[m] = <<>> /\ inEffect'[m] = 0
      BY <1>1, <2>2 DEF Begin, DnsFits, PhaseFits
    <3> QED BY <3>1 DEF DnsFits, ScriptFits, EffectFits, PhaseFits, Members
  <2>3. CASE m = n /\ o = "boot"
    <3>1. /\ script'[m] = <<>> /\ UNCHANGED <<inEffect, addr, vm, records>>
          /\ vm[m] # "absent" /\ op'[m] = "boot"
      BY <1>1, <2>3 DEF Begin, DnsFits, PhaseFits, Possible
    <3>2. RightAddress(m)' = RightAddress(m) /\ RightName(m)' = RightName(m)
      BY <3>1 DEF RightAddress, RightName
    <3>3. EffectFits(m)'
      BY <3>1, <3>2 DEF DnsFits, EffectFits
    <3>4. ScriptFits(m)' /\ PhaseFits(m)'
      BY <3>1 DEF ScriptFits, PhaseFits, Members
    <3> QED BY <3>3, <3>4 DEF DnsFits
  <2> QED BY <2>1, <2>2, <2>3
<1>2. ASSUME NEW n \in Names, Ensure(n) PROVE DnsFits(m)'
  BY <1>2, SameDns DEF Ensure, dnsVars, ownVars
<1>3. ASSUME NEW n \in Names, Complete(n) PROVE DnsFits(m)'
  <2>1. CASE m # n
    BY <1>3, <2>1, SameDns DEF Complete
  <2>2. CASE m = n
    <3>1. UNCHANGED <<records, addr, inEffect>> /\ phase'[n] = "dns" /\ script[n] = <<>>
      BY <1>3, <2>2 DEF Complete, DnsFits, PhaseFits
    <3>2. vm'[n] = "absent" <=> op[n] = "delete"
      BY <1>3 DEF Complete
    <3>3. script'[n] = <<>> \/ script'[n] = IF op[n] = "delete" THEN Unregister(n, addr[n])
                                                              ELSE Register(n, addr[n])
      BY <1>3, <3>1 DEF Complete
    <3>4. ScriptFits(n)'
      <4>1. CASE script'[n] = <<>>
        BY <4>1 DEF ScriptFits, Members
      <4>2. CASE op[n] = "delete" /\ script'[n] = Unregister(n, addr[n])
        <5>1. Members(script'[n]) = {[key |-> n, add |-> {}], [key |-> addr[n], add |-> {}]}
          BY <4>2, MembersOfPair DEF Unregister
        <5>2. RightAddress(n)' = {} /\ RightName(n)' = {}
          BY <3>2, <4>2 DEF RightAddress, RightName
        <5> QED BY <3>1, <5>1, <5>2 DEF ScriptFits
      <4>3. CASE op[n] # "delete" /\ script'[n] = Register(n, addr[n])
        <5>1. Members(script'[n]) = {[key |-> n, add |-> {addr[n]}], [key |-> addr[n], add |-> {n}]}
          BY <4>3, MembersOfPair DEF Register
        <5>2. RightAddress(n)' = {addr[n]} /\ RightName(n)' = {n}
          BY <3>1, <3>2, <4>3 DEF RightAddress, RightName
        <5> QED BY <3>1, <5>1, <5>2 DEF ScriptFits
      <4> QED BY <3>3, <4>1, <4>2, <4>3
    <3>5. EffectFits(n)'
      <4>1. inEffect[n] = 0 \/ (op[n] = "boot" /\ vm[n] # "absent")
        BY <1>3 DEF Complete, DnsFits, PhaseFits
      <4>2. CASE inEffect[n] = 0
        BY <3>1, <4>2 DEF EffectFits
      <4>3. CASE op[n] = "boot" /\ vm[n] # "absent"
        <5>1. RightAddress(n)' = RightAddress(n) /\ RightName(n)' = RightName(n)
          BY <3>1, <3>2, <4>3 DEF RightAddress, RightName
        <5> QED BY <3>1, <5>1 DEF DnsFits, EffectFits
      <4> QED BY <4>1, <4>2, <4>3
    <3> QED BY <2>2, <3>1, <3>4, <3>5 DEF DnsFits, PhaseFits
  <2> QED BY <2>1, <2>2
<1>4. ASSUME NEW n \in Names, Update(n) PROVE DnsFits(m)'
  <2> DEFINE u == Head(script[n])
  <2>1. u \in Updates /\ Tail(script[n]) \in Seq(Updates)
        /\ u \in Members(script[n]) /\ Members(Tail(script[n])) \subseteq Members(script[n])
    BY <1>4, SplitMembers DEF Update, Send
  <2>2. records' = Applied(u) /\ UNCHANGED <<vm, addr, phase, op>> /\ phase[n] = "dns"
    BY <1>4 DEF Update, Send, ownVars
  <2>3. RightAddress(m)' = RightAddress(m) /\ RightName(m)' = RightName(m)
    BY <2>2 DEF RightAddress, RightName
  <2>4. CASE m # n
    <3>1. inEffect'[m] = (IF Touches(u, m) THEN 0 ELSE inEffect[m]) /\ script'[m] = script[m]
      BY <1>4, <2>4 DEF Update, Send
    <3>2. EffectFits(m)'
      BY <2>1, <2>2, <3>1, AppliedFits DEF DnsFits
    <3> QED BY <2>2, <2>3, <3>1, <3>2 DEF DnsFits, ScriptFits, PhaseFits, Members
  <2>5. CASE m = n
    <3>1. /\ script'[n] = Tail(script[n])
          /\ inEffect'[n] = IF u.key = n THEN 1 ELSE IF inEffect[n] = 1 THEN 2 ELSE 0
      BY <1>4 DEF Update, Send
    <3>2. addr[n] # n /\ n \in Keys /\ addr[n] \in Keys
      BY NeighboursAssumption DEF Keys
    <3>3. CASE u.key = n
      <4>1. u.add = RightAddress(n)
        BY <2>1, <3>2, <3>3 DEF DnsFits, ScriptFits
      <4> QED BY <2>1, <2>2, <2>3, <2>5, <3>1, <3>2, <3>3, <4>1
              DEF DnsFits, ScriptFits, EffectFits, PhaseFits, Applied
    <3>4. CASE u.key # n
      <4>1. u.key = addr[n] /\ u.add = RightName(n)
        BY <2>1, <3>4 DEF DnsFits, ScriptFits
      <4> QED BY <2>1, <2>2, <2>3, <2>5, <3>1, <3>2, <3>4, <4>1
              DEF DnsFits, ScriptFits, EffectFits, PhaseFits, Applied
    <3> QED BY <3>3, <3>4
  <2> QED BY <2>4, <2>5
<1>5. ASSUME NEW n \in Names, UpdateFails(n) PROVE DnsFits(m)'
  <2>1. UNCHANGED <<vm, phase, op, records, addr>> /\ phase[n] = "dns"
    BY <1>5 DEF UpdateFails, SendFails
  <2>2. CASE m # n
    BY <1>5, <2>1, <2>2, SameDns DEF UpdateFails, SendFails
  <2>3. CASE m = n
    <3>1. Members(script'[n]) \subseteq Members(script[n])
      <4>1. Members(Tail(script[n])) \subseteq Members(script[n]) /\ Members(<<>>) = {}
        BY <1>5, SplitMembers DEF UpdateFails, SendFails, Members
      <4> QED BY <1>5, <4>1 DEF UpdateFails, SendFails
    <3>2. inEffect'[n] = 0
      BY <1>5 DEF UpdateFails, SendFails
    <3>3. RightAddress(n)' = RightAddress(n) /\ RightName(n)' = RightName(n)
      BY <2>1 DEF RightAddress, RightName
    <3>4. ScriptFits(n)'
      BY <2>1, <3>1, <3>3 DEF DnsFits, ScriptFits
    <3>5. EffectFits(n)' /\ PhaseFits(n)'
      BY <2>1, <3>2 DEF EffectFits, PhaseFits
    <3> QED BY <2>3, <3>4, <3>5 DEF DnsFits
  <2> QED BY <2>2, <2>3
<1>6. ASSUME NEW n \in Names, Succeed(n) \/ Return(n) PROVE DnsFits(m)'
  BY <1>6, SameDns DEF Succeed, Return, dnsVars
<1>7. ASSUME NEW n \in Names, Fail(n) \/ Crash(n) PROVE DnsFits(m)'
  <2>1. vm' \in Interrupted(n)
    BY <1>7 DEF Fail, Crash
  <2>2. CASE vm' = vm
    BY <1>7, <2>2, SameDns DEF Fail, Crash, Die, dnsVars
  <2>3. CASE m # n
    BY <1>7, <2>1, <2>3, SameDns DEF Fail, Crash, Die, dnsVars, Interrupted
  <2>4. CASE vm' # vm /\ m = n
    <3>1. phase[n] = "work" /\ vm'[n] = "off" /\ script[n] = <<>>
      BY <2>1, <2>4 DEF Interrupted, CutsPower, DnsFits, PhaseFits
    <3>2. script'[n] = <<>> /\ inEffect' = inEffect /\ phase'[n] \in {"failed", "idle"}
      BY <1>7, <3>1 DEF Fail, Crash, Die, dnsVars
    <3>3. CASE inEffect[n] = 0
      BY <2>4, <3>2, <3>3 DEF DnsFits, ScriptFits, EffectFits, PhaseFits, Members
    <3>4. CASE vm[n] # "absent"
      BY <1>7, <2>4, <3>1, <3>4, SameDns DEF Fail, Crash, Die, dnsVars
    <3> QED BY <2>4, <3>1, <3>3, <3>4 DEF DnsFits, PhaseFits
  <2> QED BY <2>2, <2>3, <2>4
<1>8. CASE Reboot
  BY <1>8, SameDns DEF Reboot, Die
<1>9. CASE Landing
  <2>1. PICK u \in late : Land(u)
    BY <1>9 DEF Landing
  <2>2. UNCHANGED <<vm, addr, phase, op, script>>
    BY <1>9, <2>1 DEF Landing, Land, ownVars
  <2>3. inEffect'[m] = IF Touches(u, m) THEN 0 ELSE inEffect[m]
    BY <2>1 DEF Land
  <2>4. EffectFits(m)'
    BY <2>1, <2>2, <2>3, AppliedFits DEF Land, DnsFits
  <2> QED BY <2>2, <2>3, <2>4 DEF DnsFits, ScriptFits, PhaseFits, RightAddress, RightName
<1>10. CASE UNCHANGED vars
  BY <1>10, SameDns DEF vars, dnsVars, ownVars
<1> QED BY <1>1, <1>2, <1>3, <1>4, <1>5, <1>6, <1>7, <1>8, <1>9, <1>10 DEF Next, Work

\* Records that got through stay right.
THEOREM Registered == Spec => []RegisteredStays
<1>1. Init => DInv
  <2> SUFFICES ASSUME Init PROVE DInv
    OBVIOUS
  <2>1. ASSUME NEW n \in Names PROVE DnsFits(n)
    BY DEF Init, DnsInit, DnsFits, ScriptFits, EffectFits, PhaseFits, Members
  <2> QED BY <2>1, InitTInv DEF DInv
<1>2. DInv /\ [Next]_vars => DInv'
  BY NextTInv, NextDnsFits DEF DInv
<1>3. DInv => RegisteredStays
  BY DEF DInv, DnsFits, EffectFits, RightAddress, RightName, RegisteredStays
<1> QED BY <1>1, <1>2, <1>3, PTL DEF Spec
===============================================================================
