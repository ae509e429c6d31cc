---------------------------- MODULE HostResources ----------------------------
(***************************************************************************)
(* What operations on different servers share: the libvirt networks and    *)
(* the two storage pools.  ensure_network_active and ensure_pool look at a *)
(* resource and then act on what they saw; no lock covers the two, because *)
(* the locks of ServerManager are per VM name.                             *)
(*                                                                         *)
(* todo[n] is the list of resources the operation on server n still has to *)
(* go through, at[n] its next libvirt call for the first of them.          *)
(***************************************************************************)
EXTENDS VmNames, Sequences

CONSTANTS
    Nets,       \* libvirt networks
    Pools,      \* storage pools the platform sets up by itself
    Base        \* the pool of base images, which others set up (BASE_POOL)

VARIABLES
    todo, at,
    active,     \* networks and pools that are active, Base among them
    defined,    \* pools libvirt knows
    built,      \* pools whose directory exists
    autostart   \* pools libvirt activates when the host starts

resourceVars == <<todo, at, active, defined, built, autostart>>
poolVars == <<defined, built, autostart>>

Resources == Nets \cup Pools \cup {Base}

ResourceCalls == {"check", "activate", "define", "build", "create", "autostart", "list"}

ResourcesInit ==
    /\ todo = [n \in Names |-> <<>>]
    /\ at = [n \in Names |-> "check"]
    /\ active = {Base}
    /\ defined = {}
    /\ built \in SUBSET Pools
    /\ autostart = {}

ResourcesTypeOK ==
    /\ todo \in [Names -> Seq(Resources)]
    /\ at \in [Names -> ResourceCalls]
    /\ active \subseteq Resources
    /\ defined \subseteq Pools /\ built \subseteq Pools /\ autostart \subseteq Pools

\* libvirt refuses the next call for the first resource of n: a name is
\* defined once; an active pool is not built; only what is inactive, and has a
\* directory, is activated; only an active pool lists its volumes or is
\* refreshed, and Base is never activated here.
CallRefused(n) == LET r == Head(todo[n]) IN
    \/ at[n] = "define" /\ r \in defined
    \/ at[n] = "build" /\ r \in active
    \/ at[n] \in {"activate", "create"} /\ (r \in active \/ r \in Pools \ built)
    \/ at[n] = "list" /\ r \in defined \ active
    \/ r = Base /\ Base \notin active

\* The operation on n makes the call at label l, which succeeds.
Call(n, l) == todo[n] # <<>> /\ at[n] = l /\ ~CallRefused(n)

Goto(n, l) == at' = [at EXCEPT ![n] = l] /\ todo' = todo

\* The first resource is dealt with; the next one starts at label l.
Advance(n, l) == at' = [at EXCEPT ![n] = l] /\ todo' = [todo EXCEPT ![n] = Tail(@)]

\* Only networks are looked at before they are activated.
UpIfNetwork(r) == r \in active \cap Nets

\* isActive(): of a network, or of a pool that is listed.
Up(r) == r \in active

\* A network that is not listed as a pool is set up like one.
ListedAsPool(r) == r \in defined

\* There is something to activate: networks are never defined here.
Exists(r) == r \in Nets \cup defined

\* networkLookupByName and isActive(), or listAllStoragePools and isActive(), or
\* of Base storagePoolLookupByName and refresh().
Check(n) == LET r == Head(todo[n]) IN
    /\ Call(n, "check")
    /\ IF Up(r) THEN Advance(n, "check")
       ELSE Goto(n, IF Exists(r) THEN "activate" ELSE "define")
    /\ UNCHANGED <<active, poolVars>>

\* net.create(), or pool.create(0) of a pool that was there: it is neither
\* built nor set to autostart.
Activate(n) == /\ Call(n, "activate")
               /\ Advance(n, "check")
               /\ active' = active \cup {Head(todo[n])}
               /\ UNCHANGED poolVars

DefinePool(n) == /\ Call(n, "define")
                 /\ Goto(n, "build")
                 /\ defined' = defined \cup {Head(todo[n])}
                 /\ UNCHANGED <<active, built, autostart>>

BuildPool(n) == /\ Call(n, "build")
                /\ Goto(n, "create")
                /\ built' = built \cup {Head(todo[n])}
                /\ UNCHANGED <<active, defined, autostart>>

CreatePool(n) == /\ Call(n, "create")
                 /\ Goto(n, "autostart")
                 /\ active' = active \cup {Head(todo[n])}
                 /\ UNCHANGED poolVars

SetAutostart(n) == /\ Call(n, "autostart")
                   /\ Advance(n, "check")
                   /\ autostart' = autostart \cup {Head(todo[n])}
                   /\ UNCHANGED <<active, defined, built>>

\* teardown lists the volumes of a pool that exists, to delete the server's.
ListVolumes(n) == /\ Call(n, "list")
                  /\ Advance(n, "list")
                  /\ UNCHANGED <<active, poolVars>>

UseResource(n) == \/ Check(n) \/ Activate(n) \/ DefinePool(n) \/ BuildPool(n)
                  \/ CreatePool(n) \/ SetAutostart(n) \/ ListVolumes(n)

\* The host restarts: networks stay down, pools come back when set to.  Whether
\* Base does is up to who set it up.
RestartResources == /\ \E others \in SUBSET {Base} : active' = others \cup (autostart \cap built)
                    /\ UNCHANGED poolVars
==============================================================================
