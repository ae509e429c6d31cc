---------------------------- MODULE FrontEndsProofs ----------------------------
(***************************************************************************)
(* Proofs about FrontEnds for any clients, names and specs, any number of  *)
(* requests, and every version the metadata may come from.                 *)
(***************************************************************************)
EXTENDS FrontEnds, FiniteSetTheorems, TLAPS

--------------------------------------------------------------------------------
(* Specs and definitions.                                                  *)

\* A complete spec is completed to itself.
LEMMA CompletedFilled ==
  ASSUME NEW i, NEW n PROVE Completed(Filled(i, n), n) = Filled(i, n)
  BY DEF Completed, Filled

\* What an older version wrote is completed to what a newer one would write.
LEMMA CompletedOld ==
  ASSUME NEW i \in OldInputs, NEW n PROVE Completed(StoredBefore(i, n), n) = Filled(i, n)
<1> DEFINE m == StoredBefore(i, n)
<1>1. DOMAIN m = Fields \ LateFields /\ \A f \in DOMAIN m : m[f] = Filled(i, n)[f]
  BY DEF StoredBefore
<1>2. \A f \in LateFields \cap Fields : f \notin DOMAIN i /\ Filled(i, n)[f] = Default(f, n)
  BY DEF OldInputs, Filled
<1>3. \A f \in Fields : Completed(m, n)[f] = Filled(i, n)[f]
  BY <1>1, <1>2 DEF Completed, Filled
<1> QED BY <1>3 DEF Completed, Filled

\* Without a difference two specs are the same.
LEMMA NoDifference ==
  ASSUME NEW i, NEW j, NEW n, Differing(Filled(i, n), Filled(j, n)) = {}
  PROVE  Filled(i, n) = Filled(j, n)
<1>1. \A f \in Fields : Filled(i, n)[f] = Filled(j, n)[f]
  BY DEF Differing
<1> QED BY <1>1 DEF Filled

\* What a convergence makes of a definition: the fields that change are those of
\* the new spec, the others stay.
LEMMA ConvergedBuilt ==
  ASSUME NEW h, NEW k, NEW s, NEW t, NEW n,
         k["networks"] = h["networks"],
         k["size"] = IF "size" \in Differing(s, t) THEN t["size"] ELSE h["size"],
         k["filters"] = IF "filters" \in Differing(s, t) THEN t["filters"] ELSE h["filters"]
  PROVE  Converged(Built(h, n), s, t, n) = Built(k, n)
<1> DEFINE x == Built(h, n)
           y == IF "size" \in Differing(s, t) THEN Resized(x, t["size"]) ELSE x
<1>3. y = [memory |-> k["size"], current |-> k["size"], nics |-> x.nics]
  BY DEF Resized, Built
<1>4. CASE "filters" \in Differing(s, t)
  <2> DEFINE ref == FilterRef(k, n)
             nic(i, f) == [mac |-> <<n, i>>, net |-> k["networks"][i], filterref |-> f]
  <2>0. FilterRef(t, n) = ref
    BY <1>4 DEF FilterRef
  <2>1. y.nics = [i \in DOMAIN k["networks"] |-> nic(i, FilterRef(h, n))]
    BY <1>3 DEF Built
  <2>2. \A i : [nic(i, FilterRef(h, n)) EXCEPT !.filterref = ref] = nic(i, ref)
    OBVIOUS
  <2>3. [i \in DOMAIN y.nics |-> [y.nics[i] EXCEPT !.filterref = ref]]
          = [i \in DOMAIN k["networks"] |-> nic(i, ref)]
    <3> HIDE DEF y, nic, ref
    <3> QED BY <2>1, <2>2
  <2>4. [y EXCEPT !.nics = [i \in DOMAIN k["networks"] |-> nic(i, ref)]] = Built(k, n)
    <3> DEFINE nics == [i \in DOMAIN k["networks"] |-> nic(i, ref)]
    <3>1. Built(k, n) = [memory |-> k["size"], current |-> k["size"], nics |-> nics]
      BY DEF Built
    <3>2. [y EXCEPT !.nics = nics] = [memory |-> k["size"], current |-> k["size"], nics |-> nics]
      <4> HIDE DEF y, nics
      <4> QED BY <1>3
    <3> QED BY <3>1, <3>2
  <2>5. Refiltered(y, ref) = Built(k, n)
    <3> HIDE DEF y, nic, ref
    <3> QED BY <2>3, <2>4 DEF Refiltered
  <2> QED BY <1>4, <2>0, <2>5 DEF Converged
<1>5. CASE "filters" \notin Differing(s, t)
  <2>1. FilterRef(h, n) = FilterRef(k, n)
    BY <1>5 DEF FilterRef
  <2>2. x.nics = Built(k, n).nics
    BY <2>1 DEF Built
  <2>3. y = Built(k, n)
    BY <1>3, <2>2 DEF Built
  <2> QED BY <1>5, <2>3 DEF Converged
<1> QED BY <1>4, <1>5

\* What a mixture of two complete specs is made of.
LEMMA MixtureParts ==
  ASSUME NEW i, NEW j, NEW n
  PROVE  LET m == Mixture(Filled(i, n), Filled(j, n)) IN
         /\ m["size"] = Filled(i, n)["size"] /\ m["networks"] = Filled(i, n)["networks"]
         /\ m["filters"] = Filled(j, n)["filters"]
BY DEF Mixture, Filled, Fields

\* A spec mixed with itself is that spec.
LEMMA MixtureOfOne ==
  ASSUME NEW i, NEW n PROVE Mixture(Filled(i, n), Filled(i, n)) = Filled(i, n)
BY DEF Mixture, Filled

\* A convergence from w to t of a definition that has size and filter of w or of
\* specs in S leaves none of w.
LEMMA ConvergedMixture ==
  ASSUME NEW n, NEW w, NEW t, NEW S,
         \A x \in S \cup {w, t} : (\E i : x = Filled(i, n)) /\ x["networks"] = w["networks"],
         NEW a \in S \cup {w}, NEW b \in S \cup {w}
  PROVE  \E p, q \in S \cup {t} : Converged(Built(Mixture(a, b), n), w, t, n) = Built(Mixture(p, q), n)
<1> DEFINE p == IF "size" \in Differing(w, t) \/ a = w THEN t ELSE a
           q == IF "filters" \in Differing(w, t) \/ b = w THEN t ELSE b
           h == Mixture(a, b)
           k == Mixture(p, q)
<1>1. p \in S \cup {t} /\ q \in S \cup {t}
  OBVIOUS
<1>2. /\ "size" \notin Differing(w, t) => w["size"] = t["size"]
      /\ "filters" \notin Differing(w, t) => w["filters"] = t["filters"]
  BY DEF Differing, Fields
<1>3. /\ p["size"] = IF "size" \in Differing(w, t) THEN t["size"] ELSE a["size"]
      /\ q["filters"] = IF "filters" \in Differing(w, t) THEN t["filters"] ELSE b["filters"]
      /\ p["networks"] = a["networks"]
  BY <1>2
<1> HIDE DEF p, q
<1>4. /\ h["size"] = a["size"] /\ h["networks"] = a["networks"] /\ h["filters"] = b["filters"]
      /\ k["size"] = p["size"] /\ k["networks"] = p["networks"] /\ k["filters"] = q["filters"]
  <2>1. (\E i : a = Filled(i, n)) /\ (\E i : b = Filled(i, n))
    OBVIOUS
  <2>2. (\E i : p = Filled(i, n)) /\ (\E i : q = Filled(i, n))
    BY <1>1
  <2> QED BY <2>1, <2>2, MixtureParts
<1> HIDE DEF h, k
<1>5. Converged(Built(h, n), w, t, n) = Built(k, n)
  BY <1>3, <1>4, ConvergedBuilt
<1> QED BY <1>1, <1>5 DEF h, k

--------------------------------------------------------------------------------
(* The host: servers and their definitions.                                *)

HostTypes == /\ dom \in [Names -> Domains \cup {None}] /\ want \in [Names -> Specs \cup {None}]
             /\ walls \in SUBSET Names /\ torn \in [Names -> SUBSET Specs]

OneNamePerDomain == \A n, m \in Names :
    dom[n] # None /\ dom[m] # None /\ dom[n].uuid = dom[m].uuid => n = m

\* A spec that was given to the server n, with the networks of w.
Kin(t, w, n) == t["networks"] = w["networks"] /\ \E i \in AcceptedInputs : t = Filled(i, n)

MixtureOf(x, S, n) == \E a, b \in S : x = Built(Mixture(a, b), n)

\* The metadata of a server says what was accepted, and the definition has each
\* part from that or from a convergence cut short.
Agrees(n) == IF Managed(dom[n])
    THEN /\ Kin(want[n], want[n], n) /\ \A t \in torn[n] : Kin(t, want[n], n)
         /\ Completed(dom[n].meta, n) = want[n]
         /\ MixtureOf(dom[n].xml, torn[n] \cup {want[n]}, n)
    ELSE want[n] = None /\ torn[n] = {}

HostInv == HostTypes /\ OneNamePerDomain /\ \A n \in Names : Agrees(n)

NewServer(i, n, u, on) == [uuid |-> u, meta |-> Filled(i, n), xml |-> Built(Filled(i, n), n), active |-> on]

NewDomain(u, x) == [uuid |-> u, meta |-> None, xml |-> x, active |-> FALSE]

\* All that a step can do to the domains.
Creates(n, i, u, on) == /\ dom[n] = None
                        /\ dom' = [dom EXCEPT ![n] = NewServer(i, n, u, on)]
                        /\ want' = [want EXCEPT ![n] = Filled(i, n)] /\ torn' = torn
Differ(n, i) == /\ Managed(dom[n])
                /\ Differing(Completed(dom[n].meta, n), Filled(i, n)) \subseteq Mutable
Changes(n, i) == LET s == Filled(i, n) IN
    /\ Differ(n, i)
    /\ dom' = [dom EXCEPT ![n].xml = Redefined(dom[n], n, s), ![n].meta = ToStore(i, n)]
    /\ want' = [want EXCEPT ![n] = s]
    /\ torn' = [torn EXCEPT ![n] = IF @ \subseteq {s} THEN {} ELSE @]
Tears(n, i) == LET s == Filled(i, n) IN
    /\ Differ(n, i)
    /\ dom' = [dom EXCEPT ![n].xml = Redefined(dom[n], n, s)]
    /\ want' = want /\ torn' = [torn EXCEPT ![n] = @ \cup {s}]
Switches(n, on) == /\ dom[n] # None /\ dom' = [dom EXCEPT ![n].active = on]
                   /\ want' = want /\ torn' = torn
Removes(n) == /\ dom' = [dom EXCEPT ![n] = None]
              /\ want' = [want EXCEPT ![n] = None] /\ torn' = [torn EXCEPT ![n] = {}]
AddsOther(n, u, x) == /\ dom[n] = None /\ dom' = [dom EXCEPT ![n] = NewDomain(u, x)]
                      /\ want' = want /\ torn' = torn

DomStep == /\ walls' \in SUBSET Names
           /\ \/ dom' = dom /\ want' = want /\ torn' = torn
              \/ \E n \in Names : \/ \E i \in AcceptedInputs, u \in Fresh, on \in BOOLEAN : Creates(n, i, u, on)
                                  \/ \E i \in AcceptedInputs : Changes(n, i) \/ Tears(n, i)
                                  \/ \E on \in BOOLEAN : Switches(n, on)
                                  \/ Removes(n)
                                  \/ \E u \in Fresh, x \in Definitions \cup {None} : AddsOther(n, u, x)

Held == {"managed", "spec", "state", "lease"}

\* What the position of a client says about its own variables.
ClientFits(c) ==
    /\ pc[c] # "idle" => req[c] \in Requests
    /\ pc[c] \in {"list", "each"} => req[c].verb = "list"
    /\ pc[c] \in {"lookup"} \cup Held => req[c].verb # "list" /\ req[c].name \in Names
    /\ pc[c] = "act" => req[c].verb \notin {"list", "get"}
    /\ pc[c] = "make" => req[c].verb = "create" /\ req[c].name \in Names
    /\ pc[c] \in {"idle", "open", "act", "make"} => ~repeated[c]
    /\ pc[c] # "answered" => result[c] \notin {"deleted", "failed"}
    /\ pc[c] \in {"idle", "open", "act", "make", "lookup", "list"} => handles[c] = {} /\ read[c] = {}
    /\ pc[c] \in {"managed", "spec"} => read[c] = {} /\ \E u \in Uuids : handles[c] = {u}
    /\ pc[c] \in {"state", "lease"} => \E u \in Uuids : handles[c] = {u} /\ read[c] = {u}

\* Specs are typed, and complete.
LEMMA SpecTypes ==
  ASSUME NEW i \in AcceptedInputs, NEW n \in Names
  PROVE  /\ Filled(i, n) \in Specs /\ Filled(i, n) # None
         /\ ToStore(i, n) = Filled(i, n)
         /\ Built(Filled(i, n), n) \in Definitions
<1>1. Filled(i, n) \in Specs
  BY DEF Specs
<1>2. Built(Filled(i, n), n) \in Definitions
  BY <1>1, MixtureOfOne DEF Definitions
<1> QED BY <1>1, <1>2, FrontEndsAssumption DEF ToStore

\* What teardown does, whether it comes to its end or not.
LEMMA TeardownDomStep ==
  ASSUME HostInv, NEW n \in Names, TornDown(n) \/ PartlyTornDown(n) PROVE DomStep
<1>1. CASE TornDown(n)
  BY <1>1 DEF TornDown, Removes, DomStep, HostInv, HostTypes
<1>2. CASE PartlyTornDown(n)
  <2>1. Removes(n) \/ Switches(n, FALSE)
    BY <1>2 DEF PartlyTornDown, Removes, Switches
  <2>2. walls' \in SUBSET Names
    BY <1>2 DEF PartlyTornDown, HostInv, HostTypes
  <2> QED BY <2>1, <2>2 DEF DomStep
<1> QED BY <1>1, <1>2

\* What defineXML and setMetadata do.
LEMMA MadeDomStep ==
  ASSUME HostInv, NEW n \in Names, NEW u \in Fresh, NEW i \in AcceptedInputs, NEW on \in BOOLEAN,
         dom[n] = None, Made(n, u, i, on), torn' = torn, walls' = Walled(i, n)
  PROVE  DomStep
<1>1. Creates(n, i, u, on)
  BY DEF Made, Creates, NewServer, ToStore
<1>2. walls' \in SUBSET Names
  BY DEF Walled, HostInv, HostTypes
<1> QED BY <1>1, <1>2 DEF DomStep

\* Every write is one of those.
LEMMA WriteDomStep ==
  ASSUME HostInv, NEW c \in Clients, ClientFits(c), Write(c) PROVE DomStep
<1> USE DEF server, acting
<1> DEFINE n == req[c].name
<1>0. walls \in SUBSET Names /\ (Makes(c) => n \in Names)
  BY DEF HostInv, HostTypes, ClientFits, Makes
<1>1. CASE RejectInput(c) \/ FindFree(c) \/ Missing(c)
  BY <1>0, <1>1 DEF RejectInput, FindFree, Missing, Reject, DomStep
<1>2. CASE LocalError(c)
  <2>1. UNCHANGED server \/ (n \in Names /\ TornDown(n))
    BY <1>0, <1>2 DEF LocalError, Reject
  <2> QED BY <1>0, <2>1, TeardownDomStep DEF DomStep
<1>3. CASE Create(c)
  <2>1. n \in Names
    BY <1>0, <1>3 DEF Create
  <2>2. \/ TornDown(n)
        \/ \E i \in AcceptedInputs, u \in Fresh :
             dom[n] = None /\ Made(n, u, i, TRUE) /\ torn' = torn /\ walls' = Walled(i, n)
    BY <1>3 DEF Create
  <2> QED BY <2>1, <2>2, TeardownDomStep, MadeDomStep
<1>4. CASE CreateAgain(c)
  <2>1. n \in Names
    BY <1>4 DEF CreateAgain, Acts
  <2>2. \/ UNCHANGED server
        \/ \E i \in AcceptedInputs : Convergeable(dom[n], n, i) /\ Converge(n, i)
    BY <1>4 DEF CreateAgain
  <2>3. ASSUME NEW i \in AcceptedInputs, Convergeable(dom[n], n, i), Converge(n, i)
        PROVE  Changes(n, i) /\ walls' \in SUBSET Names
    BY <1>0, <2>1, <2>3 DEF Convergeable, Converge, Changes, Differ, Rewalled
  <2> QED BY <1>0, <2>1, <2>2, <2>3 DEF DomStep
<1>5. CASE Power(c)
  <2>1. n \in Names /\ Managed(dom[n])
    BY <1>5 DEF Power, Acts
  <2>2. UNCHANGED server \/ \E v \in PowerOps : /\ dom' = [dom EXCEPT ![n].active = PowerAfter(v, @)]
                                              /\ UNCHANGED <<walls, want, torn>>
    BY <1>5 DEF Power, Reject
  <2>3. dom[n] \in Domains /\ dom[n].active \in BOOLEAN
    BY <2>1 DEF HostInv, HostTypes, Managed, Domains
  <2>4. \A v \in PowerOps : PowerAfter(v, dom[n].active) \in BOOLEAN
    BY <2>3 DEF PowerOps, PowerAfter
  <2>5. UNCHANGED server \/ \E on \in BOOLEAN : /\ dom' = [dom EXCEPT ![n].active = on]
                                              /\ UNCHANGED <<walls, want, torn>>
    BY <2>2, <2>4
  <2> QED BY <1>0, <2>1, <2>5 DEF DomStep, Switches, Managed
<1>6. CASE Delete(c)
  BY <1>6, TeardownDomStep DEF Delete, Acts
<1> QED BY <1>1, <1>2, <1>3, <1>4, <1>5, <1>6 DEF Write

\* So is what a write leaves that fails.
LEMMA WriteFailsDomStep ==
  ASSUME HostInv, NEW c \in Clients, ClientFits(c), WriteFails(c) PROVE DomStep
<1> USE DEF server
<1> DEFINE n == req[c].name
<1>0. walls \in SUBSET Names
  BY DEF HostInv, HostTypes
<1>1. CASE CreateFails(c)
  <2>1. n \in Names
    BY <1>1 DEF CreateFails, Makes, ClientFits
  <2>2. ASSUME NEW i \in AcceptedInputs, dom[n] = None, torn' = torn, walls' = Walled(i, n),
               UNCHANGED <<dom, want>> \/ \E u \in Fresh :
                 \/ Made(n, u, i, FALSE)
                 \/ /\ dom' = [dom EXCEPT ![n] = NewDomain(u, Built(Filled(i, n), n))]
                    /\ UNCHANGED want
        PROVE DomStep
    <3>1. walls' \in SUBSET Names
      BY <1>0, <2>1, <2>2 DEF Walled
    <3>2. Built(Filled(i, n), n) \in Definitions
      BY <2>1, SpecTypes
    <3>3. CASE UNCHANGED <<dom, want>>
      BY <2>2, <3>1, <3>3 DEF DomStep
    <3>4. ASSUME NEW u \in Fresh, Made(n, u, i, FALSE) PROVE DomStep
      BY <2>1, <2>2, <3>4, MadeDomStep
    <3>5. ASSUME NEW u \in Fresh, dom' = [dom EXCEPT ![n] = NewDomain(u, Built(Filled(i, n), n))],
                 UNCHANGED want
          PROVE DomStep
      <4>1. AddsOther(n, u, Built(Filled(i, n), n))
        BY <2>2, <3>5 DEF AddsOther
      <4> QED BY <2>1, <3>1, <3>2, <4>1 DEF DomStep
    <3> QED BY <2>2, <3>3, <3>4, <3>5
  <2>3. \/ TornDown(n) \/ PartlyTornDown(n)
        \/ \E i \in AcceptedInputs :
             /\ dom[n] = None /\ torn' = torn /\ walls' = Walled(i, n)
             /\ UNCHANGED <<dom, want>> \/ \E u \in Fresh :
                 \/ Made(n, u, i, FALSE)
                 \/ /\ dom' = [dom EXCEPT ![n] = NewDomain(u, Built(Filled(i, n), n))]
                    /\ UNCHANGED want
    BY <1>1 DEF CreateFails, NewDomain
  <2> QED BY <2>1, <2>2, <2>3, TeardownDomStep
<1>2. CASE ConvergeFails(c)
  <2>1. n \in Names
    BY <1>2 DEF ConvergeFails, Acts
  <2>2. PICK i \in AcceptedInputs : Convergeable(dom[n], n, i) /\ ConvergeInPart(n, i)
    BY <1>2 DEF ConvergeFails
  <2>3. walls' \in SUBSET Names
    BY <1>0, <2>1, <2>2 DEF ConvergeInPart, Rewalled
  <2>4. (dom' = dom /\ want' = want /\ torn' = torn) \/ Tears(n, i)
    BY <2>2 DEF ConvergeInPart, Convergeable, Tears, Differ
  <2> QED BY <2>1, <2>3, <2>4 DEF DomStep
<1>3. CASE PowerFails(c)
  <2>1. n \in Names /\ dom[n] # None
    BY <1>3 DEF PowerFails, Acts, Managed
  <2>2. (dom' = dom /\ want' = want /\ torn' = torn) \/ Switches(n, FALSE)
    BY <1>3, <2>1 DEF PowerFails, Switches
  <2> QED BY <1>0, <1>3, <2>1, <2>2 DEF PowerFails, DomStep
<1>4. CASE DeleteFails(c)
  BY <1>0, <1>4, TeardownDomStep DEF DeleteFails, Acts, DomStep
<1> QED BY <1>1, <1>2, <1>3, <1>4 DEF WriteFails

\* So is every step.
LEMMA NextDomStep ==
  ASSUME HostInv, \A c \in Clients : ClientFits(c), [Next]_vars PROVE DomStep
<1> USE DEF server, clientVars, reading
<1>0. walls \in SUBSET Names
  BY DEF HostInv, HostTypes
<1>1. ASSUME NEW c \in Clients, Read(c) PROVE DomStep
  BY <1>0, <1>1 DEF Read, Lookup, CheckMetadata, ReadSpec, ReadState, ReadLease, Vanished, ListAll, Each,
     ListEnds, Broken, DomStep
<1>2. ASSUME NEW c \in Clients, Open(c) \/ Finish(c) \/ \E r \in Requests : Begin(c, r) PROVE DomStep
  BY <1>0, <1>2 DEF Open, Finish, Begin, DomStep
<1>3. ASSUME NEW n \in Names, GuestHalt(n) PROVE DomStep
  <2>1. Switches(n, FALSE)
    BY <1>3 DEF GuestHalt, Switches
  <2> QED BY <1>0, <1>3, <2>1 DEF DomStep, GuestHalt
<1>4. ASSUME NEW n \in Names, OtherTool(n) PROVE DomStep
  <2>1. walls' \in SUBSET Names /\ UNCHANGED <<want, torn>>
    BY <1>0, <1>4 DEF OtherTool
  <2>2. CASE dom[n] = None
    <3>1. PICK u \in Fresh : AddsOther(n, u, None)
      BY <1>4, <2>1, <2>2 DEF OtherTool, AddsOther, Foreign, NewDomain
    <3> QED BY <2>1, <3>1 DEF DomStep
  <2>3. CASE dom[n] # None
    <3>1. ~Managed(dom[n]) /\ dom' = [dom EXCEPT ![n] = None]
      BY <1>4, <2>3 DEF OtherTool
    <3>2. want[n] = None /\ torn[n] = {}
      BY <3>1 DEF HostInv, Agrees
    <3>3. Removes(n)
      BY <2>1, <3>1, <3>2 DEF Removes, HostInv, HostTypes
    <3> QED BY <2>1, <3>3 DEF DomStep
  <2> QED BY <2>2, <2>3
<1>5. CASE StopLibvirtd \/ StartLibvirtd \/ RestartApi \/ UNCHANGED vars
  BY <1>0, <1>5 DEF StopLibvirtd, StartLibvirtd, RestartApi, vars, DomStep
<1> QED BY <1>1, <1>2, <1>3, <1>4, <1>5, WriteDomStep, WriteFailsDomStep DEF Next, Step, Event

\* The host invariant holds initially.
LEMMA InitHostInv == ASSUME Init PROVE HostInv
<1>1. PICK old \in [Names -> OldInputs], made \in SUBSET Names, others \in SUBSET Names,
           id \in [Names -> Uuids] :
        /\ \A n, m \in Names : id[n] = id[m] => n = m
        /\ dom = [n \in Names |->
             IF n \in made THEN [uuid |-> id[n], meta |-> StoredBefore(old[n], n),
                                xml |-> Built(Filled(old[n], n), n), active |-> FALSE]
             ELSE IF n \in others THEN Foreign(id[n]) ELSE None]
        /\ want = [n \in Names |-> IF n \in made THEN Filled(old[n], n) ELSE None]
        /\ walls = {n \in made : Filled(old[n], n)["filters"] # None}
  BY Zenon DEF Init
<1>t. torn = [n \in Names |-> {}]
  BY DEF Init
<1>2. ASSUME NEW n \in Names
      PROVE  /\ old[n] \in OldInputs /\ old[n] \in AcceptedInputs
             /\ StoredBefore(old[n], n) \in OldSpecs
             /\ StoredBefore(old[n], n) # None
             /\ Completed(StoredBefore(old[n], n), n) = Filled(old[n], n)
             /\ Filled(old[n], n) \in Specs
             /\ Built(Filled(old[n], n), n) \in Definitions
  <2>1. old[n] \in OldInputs
    OBVIOUS
  <2>2. old[n] \in AcceptedInputs
    BY <2>1 DEF OldInputs
  <2>3. StoredBefore(old[n], n) \in OldSpecs
    BY <2>1 DEF OldSpecs
  <2> QED BY <2>1, <2>2, <2>3, CompletedOld, SpecTypes, FrontEndsAssumption
<1>3. HostTypes
  <2>1. walls \in SUBSET Names /\ torn \in [Names -> SUBSET Specs]
    BY <1>1, <1>t
  <2> QED BY <1>1, <1>2, <2>1 DEF HostTypes, Domains, Foreign
<1>4. OneNamePerDomain
  <2>1. \A n \in Names : dom[n] # None => dom[n].uuid = id[n]
    BY <1>1 DEF Foreign
  <2> QED BY <1>1, <2>1 DEF OneNamePerDomain
<1>5. ASSUME NEW n \in Names PROVE Agrees(n)
  <2>1. CASE n \in made
    <3>1. dom[n] \in Domains /\ dom[n].meta = StoredBefore(old[n], n) /\ want[n] = Filled(old[n], n)
          /\ dom[n].xml = Built(Filled(old[n], n), n) /\ torn[n] = {}
      BY <1>1, <1>t, <1>2, <2>1 DEF Domains
    <3>2. Managed(dom[n])
      BY <1>2, <3>1, FrontEndsAssumption DEF Managed
    <3>3. MixtureOf(dom[n].xml, torn[n] \cup {want[n]}, n)
      BY <3>1, MixtureOfOne DEF MixtureOf
    <3> QED BY <1>2, <3>1, <3>2, <3>3 DEF Agrees, Kin
  <2>2. CASE n \notin made
    <3>1. ~Managed(dom[n])
      BY <1>1, <2>2 DEF Managed, Foreign
    <3> QED BY <1>1, <1>t, <2>2, <3>1 DEF Agrees
  <2> QED BY <2>1, <2>2
<1> QED BY <1>3, <1>4, <1>5 DEF HostInv

\* A UUID that is fresh is the name of no domain and held by nobody.
LEMMA FreshIsNew ==
  ASSUME NEW u \in Fresh
  PROVE  /\ u \in Uuids
         /\ \A n \in Names : dom[n] # None => dom[n].uuid # u
         /\ \A c \in Clients : u \notin handles[c] \cup read[c] \cup seen[c].ever
  BY DEF Fresh

\* A convergence of the server n, whole or not, keeps what Agrees says.
LEMMA Convergence ==
  ASSUME HostInv, NEW n \in Names, NEW i \in AcceptedInputs, Differ(n, i)
  PROVE  LET s == Filled(i, n)
             x == Redefined(dom[n], n, s) IN
         /\ s \in Specs /\ s["networks"] = want[n]["networks"]
         /\ MixtureOf(x, torn[n] \cup {s}, n) /\ x \in Definitions
<1> DEFINE s == Filled(i, n)
<1>1. /\ Managed(dom[n]) /\ Agrees(n) /\ Completed(dom[n].meta, n) = want[n]
  BY DEF Differ, HostInv, Agrees
<1>2. Differing(want[n], s) \subseteq Mutable
  BY <1>1 DEF Differ
<1>3. s["networks"] = want[n]["networks"] /\ s \in Specs
  BY <1>2, SpecTypes DEF Differing, Mutable, Fields
<1>4. PICK a, b \in torn[n] \cup {want[n]} : dom[n].xml = Built(Mixture(a, b), n)
  BY <1>1 DEF Agrees, MixtureOf
<1>5. \A t \in torn[n] \cup {want[n], s} : (\E j : t = Filled(j, n)) /\ t["networks"] = want[n]["networks"]
  BY <1>1, <1>3 DEF Agrees, Kin
<1> HIDE DEF s
<1>6. \E p, q \in torn[n] \cup {s} : Redefined(dom[n], n, s) = Built(Mixture(p, q), n)
  BY <1>1, <1>4, <1>5, ConvergedMixture DEF Redefined
<1>7. torn[n] \cup {s} \subseteq Specs
  BY <1>3 DEF HostInv, HostTypes
<1>8. Redefined(dom[n], n, s) \in Definitions
  BY <1>6, <1>7 DEF Definitions
<1> QED BY <1>3, <1>6, <1>8 DEF MixtureOf, s

\* Every change of the domains keeps the host invariant.
LEMMA DomStepInv == ASSUME HostInv, DomStep PROVE HostInv'
<1> USE DEF HostInv, HostTypes
<1>w. walls' \in SUBSET Names
  BY DEF DomStep
<1>0. ASSUME NEW n \in Names,
             \A m \in Names : m # n => dom'[m] = dom[m] /\ want'[m] = want[m] /\ torn'[m] = torn[m],
             Agrees(n)'
      PROVE  \A m \in Names : Agrees(m)'
  BY <1>0 DEF Agrees
<1>1. CASE dom' = dom /\ want' = want /\ torn' = torn
  BY <1>1, <1>w DEF OneNamePerDomain, Agrees
<1>2. ASSUME NEW n \in Names, NEW i \in AcceptedInputs, NEW u \in Fresh, NEW on \in BOOLEAN,
             Creates(n, i, u, on)
      PROVE  HostInv'
  <2> DEFINE d == NewServer(i, n, u, on)
  <2>1. d \in Domains /\ d.uuid = u /\ d.meta = Filled(i, n) /\ d.xml = Built(Filled(i, n), n)
    BY SpecTypes, FreshIsNew DEF NewServer, Domains
  <2>2. Managed(d)
    BY <2>1, SpecTypes, FrontEndsAssumption DEF Managed
  <2>3. dom' = [dom EXCEPT ![n] = d] /\ want' = [want EXCEPT ![n] = Filled(i, n)] /\ torn' = torn
        /\ torn[n] = {}
    BY <1>2 DEF Creates, Agrees, Managed
  <2> HIDE DEF d
  <2>4. HostTypes'
    BY <1>w, <2>1, <2>3, SpecTypes
  <2>5. OneNamePerDomain'
    BY <2>1, <2>3, FreshIsNew DEF OneNamePerDomain
  <2>6. Agrees(n)'
    <3>1. dom'[n] = d /\ want'[n] = Filled(i, n) /\ torn'[n] = {}
      BY <2>3
    <3>2. MixtureOf(d.xml, {Filled(i, n)}, n)
      BY <2>1, MixtureOfOne DEF MixtureOf
    <3> QED BY <2>1, <2>2, <3>1, <3>2, CompletedFilled DEF Agrees, Kin
  <2> QED BY <1>0, <2>3, <2>4, <2>5, <2>6
<1>3. ASSUME NEW n \in Names, NEW i \in AcceptedInputs, Changes(n, i) PROVE HostInv'
  <2> DEFINE s == Filled(i, n)
             x == Redefined(dom[n], n, s)
             T == IF torn[n] \subseteq {s} THEN {} ELSE torn[n]
             d == [dom[n] EXCEPT !.xml = x, !.meta = s]
  <2>1. /\ Managed(dom[n]) /\ dom[n] \in Domains /\ Differ(n, i)
        /\ \A t \in torn[n] : Kin(t, want[n], n)
    BY <1>3, FrontEndsAssumption DEF Changes, Differ, Agrees, Managed
  <2>2. /\ s \in Specs /\ s["networks"] = want[n]["networks"] /\ x \in Definitions
        /\ MixtureOf(x, torn[n] \cup {s}, n)
    BY <2>1, Convergence
  <2>3. dom' = [dom EXCEPT ![n] = d] /\ want' = [want EXCEPT ![n] = s] /\ torn' = [torn EXCEPT ![n] = T]
    BY <1>3 DEF Changes, ToStore
  <2>4. Kin(s, s, n)
    BY DEF Kin
  <2>5. s # None /\ Completed(s, n) = s
    BY SpecTypes, CompletedFilled
  <2> HIDE DEF s, x
  <2>6. d \in Domains /\ d.uuid = dom[n].uuid /\ d.meta = s /\ d.xml = x
    BY <2>1, <2>2 DEF Domains
  <2>7. Managed(d)
    BY <2>5, <2>6, FrontEndsAssumption DEF Managed
  <2>8. T \cup {s} = torn[n] \cup {s} /\ T \subseteq torn[n]
    OBVIOUS
  <2> HIDE DEF d, T
  <2>9. HostTypes'
    BY <1>w, <2>2, <2>3, <2>6, <2>8
  <2>10. OneNamePerDomain'
    BY <2>1, <2>3, <2>6 DEF OneNamePerDomain, Managed
  <2>11. Agrees(n)'
    <3>1. dom'[n] = d /\ want'[n] = s /\ torn'[n] = T
      BY <2>3
    <3>2. \A t \in T : Kin(t, s, n)
      BY <2>1, <2>2, <2>8 DEF Kin
    <3> QED BY <2>2, <2>4, <2>5, <2>6, <2>7, <2>8, <3>1, <3>2 DEF Agrees
  <2> QED BY <1>0, <2>3, <2>9, <2>10, <2>11
<1>4. ASSUME NEW n \in Names, NEW i \in AcceptedInputs, Tears(n, i) PROVE HostInv'
  <2> DEFINE s == Filled(i, n)
             x == Redefined(dom[n], n, s)
             T == torn[n] \cup {s}
             d == [dom[n] EXCEPT !.xml = x]
  <2>1. /\ Managed(dom[n]) /\ dom[n] \in Domains /\ Differ(n, i)
        /\ \A t \in torn[n] : Kin(t, want[n], n)
        /\ Kin(want[n], want[n], n) /\ Completed(dom[n].meta, n) = want[n]
    BY <1>4, FrontEndsAssumption DEF Tears, Differ, Agrees, Managed
  <2>2. /\ s \in Specs /\ s["networks"] = want[n]["networks"] /\ x \in Definitions
        /\ MixtureOf(x, torn[n] \cup {s}, n)
    BY <2>1, Convergence
  <2>3. dom' = [dom EXCEPT ![n] = d] /\ want' = want /\ torn' = [torn EXCEPT ![n] = T]
    BY <1>4 DEF Tears
  <2>4. Kin(s, want[n], n)
    BY <2>2 DEF Kin
  <2> HIDE DEF s, x
  <2>5. d \in Domains /\ d.uuid = dom[n].uuid /\ d.meta = dom[n].meta /\ d.xml = x
    BY <2>1, <2>2 DEF Domains
  <2>6. Managed(d)
    BY <2>1, <2>5, FrontEndsAssumption DEF Managed
  <2> HIDE DEF d
  <2>7. HostTypes'
    BY <1>w, <2>2, <2>3, <2>5
  <2>8. OneNamePerDomain'
    BY <2>1, <2>3, <2>5 DEF OneNamePerDomain, Managed
  <2>9. Agrees(n)'
    <3>1. dom'[n] = d /\ want'[n] = want[n] /\ torn'[n] = T
      BY <2>3
    <3>2. MixtureOf(x, T \cup {want[n]}, n)
      BY <2>2 DEF MixtureOf
    <3>3. \A t \in T : Kin(t, want[n], n)
      BY <2>1, <2>4
    <3> HIDE DEF T
    <3> QED BY <2>1, <2>5, <2>6, <3>1, <3>2, <3>3 DEF Agrees
  <2> QED BY <1>0, <2>3, <2>7, <2>8, <2>9
<1>5. ASSUME NEW n \in Names, NEW on \in BOOLEAN, Switches(n, on) PROVE HostInv'
  <2> DEFINE d == [dom[n] EXCEPT !.active = on]
  <2>1. dom' = [dom EXCEPT ![n] = d] /\ want' = want /\ torn' = torn /\ dom[n] \in Domains
    BY <1>5 DEF Switches
  <2>2. d \in Domains /\ d.uuid = dom[n].uuid /\ d.meta = dom[n].meta /\ d.xml = dom[n].xml
    BY <2>1 DEF Domains
  <2>3. d # None /\ dom[n] # None
    BY <2>1, <2>2, FrontEndsAssumption
  <2> HIDE DEF d
  <2>4. HostTypes'
    BY <1>w, <2>1, <2>2
  <2>5. OneNamePerDomain'
    BY <2>1, <2>2, <2>3 DEF OneNamePerDomain
  <2>6. Agrees(n)'
    BY <2>1, <2>2, <2>3 DEF Agrees, Managed
  <2> QED BY <1>0, <2>1, <2>4, <2>5, <2>6
<1>6. ASSUME NEW n \in Names, Removes(n) PROVE HostInv'
  <2>1. /\ dom' = [dom EXCEPT ![n] = None] /\ want' = [want EXCEPT ![n] = None]
        /\ torn' = [torn EXCEPT ![n] = {}]
    BY <1>6 DEF Removes
  <2>2. HostTypes' /\ OneNamePerDomain'
    BY <1>w, <2>1 DEF OneNamePerDomain
  <2>3. Agrees(n)'
    BY <2>1 DEF Agrees, Managed
  <2> QED BY <1>0, <2>1, <2>2, <2>3
<1>7. ASSUME NEW n \in Names, NEW u \in Fresh, NEW x \in Definitions \cup {None}, AddsOther(n, u, x)
      PROVE  HostInv'
  <2> DEFINE d == NewDomain(u, x)
  <2>1. dom' = [dom EXCEPT ![n] = d] /\ want' = want /\ torn' = torn /\ dom[n] = None
    BY <1>7 DEF AddsOther
  <2>2. d \in Domains /\ d.uuid = u /\ d.meta = None
    BY FreshIsNew DEF Domains, NewDomain
  <2> HIDE DEF d
  <2>3. HostTypes'
    BY <1>w, <2>1, <2>2
  <2>4. OneNamePerDomain'
    BY <2>1, <2>2, FreshIsNew DEF OneNamePerDomain
  <2>5. Agrees(n)'
    BY <2>1, <2>2 DEF Agrees, Managed
  <2> QED BY <1>0, <2>1, <2>3, <2>4, <2>5
<1> QED BY <1>1, <1>2, <1>3, <1>4, <1>5, <1>6, <1>7 DEF DomStep

--------------------------------------------------------------------------------
(* Steps of clients, and what the others see of them.                      *)

\* A step of client c.
Moves(c) == Finish(c) \/ Open(c) \/ Write(c) \/ WriteFails(c) \/ Read(c) \/ \E r \in Requests : Begin(c, r)

\* Client d makes no step; its connection may break.
Same(d) == /\ pc'[d] = pc[d] /\ req'[d] = req[d]
           /\ handles'[d] = handles[d] /\ read'[d] = read[d]
           /\ result'[d] = result[d] /\ answer'[d] = answer[d] /\ repeated'[d] = repeated[d]
           /\ live'[d] \in {live[d], FALSE}

\* What requests are made of.
LEMMA RequestParts ==
  ASSUME NEW r \in Requests
  PROVE  /\ r.verb \in {"get", "power", "delete", "create", "list"}
         /\ r.verb # "list" => r.name \in Names \cup {BadName}
         /\ r.verb \notin {"list", "create"} => r.name \in Names
  BY DEF Requests

\* The outcomes that clients are told.
Outcomes == {"ok", "created", "deleted", "notfound", "conflict", "notrunning", "running",
             "invalid", "unavailable", "internal"}

\* Different kinds of outcome have different codes.
LEMMA Codes ==
  ASSUME NEW c, NEW o \in Outcomes
  PROVE  /\ CodeOf(c, o) \in 0 .. 503
         /\ CodeOf(c, o) \in {200, 201, 0} => o \in {"ok", "created", "deleted"}
         /\ CodeOf(c, o) \in {503, 7} => o = "unavailable"
         /\ CodeOf(c, o) \in {404, 3} => o = "notfound"
         /\ CodeOf(c, o) \in {409, 4, 6} => o \in {"conflict", "notrunning", "running"}
         /\ CodeOf(c, "deleted") \in {204, 0}
<1>1. \A p \in Outcomes : HttpStatus[p] \in 0 .. 503 /\ ExitCode[p] \in 0 .. 7
  BY DEF HttpStatus, ExitCode, Outcomes
<1> QED BY <1>1 DEF CodeOf, HttpStatus, ExitCode, Outcomes

\* A step changes one client, or none; what libvirtd's end does to connections
\* counts as nothing.
LEMMA OneMoves ==
  ASSUME TypeOK, Next
  PROVE  \/ \A d \in Clients : Same(d)
         \/ \E c \in Clients : Moves(c) /\ \A d \in Clients \ {c} : Same(d)
<1> USE DEF TypeOK
<1>1. CASE \E n \in Names : GuestHalt(n) \/ OtherTool(n)
  BY <1>1 DEF GuestHalt, OtherTool, clientVars, Same
<1>2. CASE StopLibvirtd \/ StartLibvirtd \/ RestartApi
  BY <1>2 DEF StopLibvirtd, StartLibvirtd, RestartApi, clientVars, Same
<1>3. ASSUME NEW c \in Clients, Finish(c) \/ Open(c) \/ \E r \in Requests : Begin(c, r)
      PROVE  \A d \in Clients \ {c} : Same(d)
  <2>1. CASE Finish(c)
    BY <2>1 DEF Finish, Same
  <2>2. CASE Open(c)
    BY <2>2 DEF Open, Answer, Goto, Same
  <2>3. CASE \E r \in Requests : Begin(c, r)
    <3>1. PICK r \in Requests : Begin(c, r)
      BY <2>3
    <3> QED BY <3>1 DEF Begin, Goto, Same
  <2> QED BY <1>3, <2>1, <2>2, <2>3
<1>4. ASSUME NEW c \in Clients, Write(c) \/ WriteFails(c) PROVE \A d \in Clients \ {c} : Same(d)
  <2> USE DEF Answer, Goto, acting, Same
  <2>1. (\E o : Answer(c, o)) \/ (\E l : Goto(c, l))
    BY <1>4 DEF Write, WriteFails, RejectInput, LocalError, FindFree, Create, CreateAgain, Missing, Power,
       Delete, Reject, Done, Fail
  <2>2. (\E x : result' = [result EXCEPT ![c] = x]) \/ result' = result
    BY <1>4 DEF Write, WriteFails, RejectInput, LocalError, FindFree, Create, CreateAgain, Missing, Power,
       Delete, Reject, Done, Fail
  <2>3. (\E x : repeated' = [repeated EXCEPT ![c] = x]) \/ repeated' = repeated
    BY <1>4 DEF Write, WriteFails, RejectInput, LocalError, FindFree, Create, CreateAgain, Missing, Power,
       Delete, Reject, Done, Fail
  <2>4. UNCHANGED acting
    BY <1>4 DEF Write, WriteFails, RejectInput, LocalError, FindFree, Create, CreateAgain, Missing, Power,
       Delete, Reject, Done, Fail
  <2> QED BY <2>1, <2>2, <2>3, <2>4
<1>5. ASSUME NEW c \in Clients, Read(c) PROVE \A d \in Clients \ {c} : Same(d)
  <2>1. (\E o : Answer(c, o)) \/ (\E l : Goto(c, l))
    BY <1>5 DEF Read, Lookup, CheckMetadata, ReadSpec, ReadState, ReadLease, Vanished, ListAll, Each,
       ListEnds, Broken
  <2>2. (\E x : handles' = [handles EXCEPT ![c] = x]) \/ handles' = handles
    BY <1>5 DEF Read, Lookup, CheckMetadata, ReadSpec, ReadState, ReadLease, Vanished, ListAll, Each,
       ListEnds, Broken
  <2>3. (\E x : read' = [read EXCEPT ![c] = x]) \/ read' = read
    BY <1>5 DEF Read, Lookup, CheckMetadata, ReadSpec, ReadState, ReadLease, Vanished, ListAll, Each,
       ListEnds, Broken, ReadFrom
  <2>4. UNCHANGED reading
    BY <1>5 DEF Read, Lookup, CheckMetadata, ReadSpec, ReadState, ReadLease, Vanished, ListAll, Each,
       ListEnds, Broken
  <2> QED BY <2>1, <2>2, <2>3, <2>4 DEF Answer, Goto, reading, Same
<1> QED BY <1>1, <1>2, <1>3, <1>4, <1>5 DEF Next, Step, Event, Moves

\* What a request sees on its first step.
LEMMA ObservedFirst ==
  ASSUME Observe, NEW c \in Clients, pc[c] = "idle", pc'[c] # "idle"
  PROVE  /\ seen'[c].always = ServersIn(dom', About(req'[c]))
         /\ ~live'[c] => seen'[c].cut
  BY DEF Observe, NothingSeen

\* What it sees on the later ones.
LEMMA Observed ==
  ASSUME Observe, NEW c \in Clients, pc[c] # "idle", pc'[c] # "idle"
  PROVE  /\ seen'[c].always = seen[c].always \cap ServersIn(dom', About(req'[c]))
         /\ seen'[c].ever = seen[c].ever \cup ServersIn(dom', About(req'[c]))
         /\ seen[c].gone \subseteq seen'[c].gone
         /\ seen[c].halted \subseteq seen'[c].halted
         /\ \A n \in About(req'[c]) : dom[n] # None =>
              /\ dom'[n] = None => n \in seen'[c].gone
              /\ dom'[n] # None /\ dom[n].active /\ ~dom'[n].active => n \in seen'[c].halted
         /\ seen[c].cut \/ ~live'[c] => seen'[c].cut
  BY DEF Observe

Sights == [always : SUBSET Uuids, ever : SUBSET Uuids,
           gone : SUBSET Names, halted : SUBSET Names, cut : BOOLEAN]

\* What is seen has its type.
LEMMA SeenTypes ==
  ASSUME seen \in [Clients -> Sights], Observe,
         dom' \in [Names -> Domains \cup {None}], live' \in [Clients -> BOOLEAN]
  PROVE  seen' \in [Clients -> Sights]
<1>1. NothingSeen \in Sights
  BY DEF NothingSeen, Sights
<1>2. \A r : About(r) \subseteq Names
  BY DEF About
<1>3. ASSUME NEW S \in SUBSET Names PROVE ServersIn(dom', S) \subseteq Uuids
  BY DEF ServersIn, Managed, Domains
<1>4. ASSUME NEW c \in Clients PROVE seen'[c] \in Sights
  <2> DEFINE S == About(req'[c])
             now == ServersIn(dom', S)
             was == IF pc[c] = "idle" THEN [NothingSeen EXCEPT !.always = now] ELSE seen[c]
             lost == {n \in S : dom[n] # None /\ (dom'[n] # None => dom[n].active /\ ~dom'[n].active)}
             next == [always |-> was.always \cap now, ever |-> was.ever \cup now,
                      gone |-> was.gone \cup {n \in lost : dom'[n] = None},
                      halted |-> was.halted \cup {n \in lost : dom'[n] # None},
                      cut |-> was.cut \/ ~live'[c]]
  <2>1. seen'[c] = IF pc'[c] = "idle" THEN NothingSeen ELSE next
    BY DEF Observe
  <2>2. S \subseteq Names /\ now \subseteq Uuids
    BY <1>2, <1>3
  <2>3. was \in Sights
    BY <1>1, <2>2 DEF NothingSeen, Sights
  <2>4. lost \subseteq Names
    BY <2>2
  <2>5. next \in Sights
    <3>1. (was.cut \/ ~live'[c]) \in BOOLEAN
      OBVIOUS
    <3> HIDE DEF was, now, lost
    <3> QED BY <2>2, <2>3, <2>4, <3>1 DEF Sights
  <2> QED BY <1>1, <2>1, <2>5
<1>5. seen' = [c \in Clients |-> seen'[c]]
  BY DEF Observe
<1> QED BY <1>4, <1>5

--------------------------------------------------------------------------------
(* Types.                                                                  *)

Labels == {"idle", "open", "act", "make", "lookup", "managed", "spec", "state", "lease", "list", "each",
           "answered"}

\* The types of what clients change: position and answer, and the rest.
PlaceTypes == pc \in [Clients -> Labels] /\ answer \in [Clients -> 0 .. 503]

RestTypes == /\ req \in [Clients -> Requests \cup {None}]
             /\ handles \in [Clients -> SUBSET Uuids] /\ read \in [Clients -> SUBSET Uuids]
             /\ result \in [Clients -> {"ok", "created", "deleted", "failed"}]
             /\ repeated \in [Clients -> BOOLEAN]

LinkTypes == /\ daemon \in BOOLEAN /\ apiOpen \in BOOLEAN /\ (apiOpen => daemon)
             /\ live \in [Clients -> BOOLEAN]

\* Those are the types of TypeOK.
LEMMA TypesAre ==
  TypeOK <=> /\ HostTypes /\ PlaceTypes /\ RestTypes /\ LinkTypes
             /\ seen \in [Clients -> Sights]
             /\ begun \in 0 .. MaxRequests /\ events \in 0 .. MaxEvents
  BY DEF TypeOK, HostTypes, PlaceTypes, RestTypes, LinkTypes, Sights, Labels

\* A client goes on, or is answered.
Proceeds(c) == (\E o \in Outcomes : Answer(c, o)) \/ (\E l \in Labels : Goto(c, l))

\* Wherever it gets to, its place has its type.
LEMMA ProceedsTypes ==
  ASSUME PlaceTypes, NEW c \in Clients, Proceeds(c) PROVE PlaceTypes'
<1>1. \A o \in Outcomes : CodeOf(c, o) \in 0 .. 503
  BY Codes
<1> QED BY <1>1 DEF PlaceTypes, Proceeds, Answer, Goto, Labels

\* A write moves the client, and sets its result and whether it repeats a spec.
LEMMA WriteTypes ==
  ASSUME TypeOK, NEW c \in Clients, Write(c) \/ WriteFails(c)
  PROVE  PlaceTypes' /\ RestTypes' /\ UNCHANGED acting
<1> USE TypesAre DEF Outcomes, Labels
<1>1. Proceeds(c)
  BY DEF Write, WriteFails, RejectInput, LocalError, FindFree, Create, CreateAgain, Missing, Power,
     Delete, Reject, Done, Fail, Proceeds
<1>2. UNCHANGED acting
  BY DEF Write, WriteFails, RejectInput, LocalError, FindFree, Create, CreateAgain, Missing, Power,
     Delete, Reject, Done, Fail
<1>3. result' = result \/ \E o \in {"ok", "created", "deleted", "failed"} : result' = [result EXCEPT ![c] = o]
  BY DEF Write, WriteFails, RejectInput, LocalError, FindFree, Create, CreateAgain, Missing, Power,
     Delete, Reject, Done, Fail
<1>4. repeated' = repeated \/ \E b \in BOOLEAN : repeated' = [repeated EXCEPT ![c] = b]
  BY DEF Write, WriteFails, RejectInput, LocalError, FindFree, Create, CreateAgain, Missing, Power,
     Delete, Reject, Done, Fail
<1>5. RestTypes'
  BY <1>2, <1>3, <1>4 DEF RestTypes, acting
<1> QED BY <1>1, <1>2, <1>5, ProceedsTypes

\* A read moves the client, and sets what it holds and what it has read.
LEMMA ReadTypes ==
  ASSUME TypeOK, NEW c \in Clients, Read(c), ClientFits(c)
  PROVE  PlaceTypes' /\ RestTypes' /\ UNCHANGED reading
<1> USE TypesAre DEF Outcomes, Labels
<1>0. (pc[c] = "lookup" => req[c].name \in Names) /\ (pc[c] # "answered" => result[c] \in Outcomes)
  BY DEF ClientFits, RestTypes
<1>1. Proceeds(c)
  BY <1>0 DEF Ask, Read, Lookup, CheckMetadata, ReadSpec, ReadState, ReadLease, Vanished, ListAll, Each,
     ListEnds, Broken, Proceeds, UnknownName, HostError, RestTypes
<1>2. UNCHANGED reading
  BY DEF Read, Lookup, CheckMetadata, ReadSpec, ReadState, ReadLease, Vanished, ListAll, Each,
     ListEnds, Broken
<1>3. \A n \in Names : dom[n] # None => dom[n].uuid \in Uuids
  BY DEF HostTypes, Domains
<1>4. \A u : OwnerOf(u) \subseteq {n \in Names : dom[n] # None}
  BY DEF OwnerOf
<1>5. DomainOf(c) \subseteq {n \in Names : dom[n] # None}
  BY <1>4 DEF DomainOf
<1>6. read' \in [Clients -> SUBSET Uuids]
  <2>1. read' = read \/ \E n \in Names : dom[n] # None /\ ReadFrom(c, n)
    BY <1>4, <1>5 DEF Read, Lookup, CheckMetadata, ReadSpec, ReadState, ReadLease, Vanished, ListAll,
       Each, ListEnds, Broken
  <2> QED BY <1>3, <2>1 DEF ReadFrom, RestTypes
<1>7. handles' \in [Clients -> SUBSET Uuids]
  <2>1. CASE Lookup(c)
    <3>1. CASE dom[req[c].name] = None
      BY <2>1, <3>1 DEF Lookup, RestTypes
    <3>2. CASE dom[req[c].name] # None
      BY <1>0, <1>3, <2>1, <3>2 DEF Lookup, RestTypes
    <3> QED BY <3>1, <3>2
  <2>2. CASE ListAll(c)
    BY <1>3, <2>2 DEF ListAll, RestTypes
  <2>3. CASE Each(c)
    BY <2>3 DEF Each, RestTypes
  <2>4. CASE ~Lookup(c) /\ ~ListAll(c) /\ ~Each(c)
    BY <2>4 DEF Read, CheckMetadata, ReadSpec, ReadState, ReadLease, Vanished, ListEnds, Broken, RestTypes
  <2> QED BY <2>1, <2>2, <2>3, <2>4
<1>8. RestTypes'
  BY <1>2, <1>6, <1>7 DEF reading, RestTypes
<1> QED BY <1>1, <1>2, <1>8, ProceedsTypes

--------------------------------------------------------------------------------
(* What the position of a client says about the host.                      *)

\* A handle is of the domain that has or had the name asked for.
HandleFits(c) == \A u \in handles[c] :
    /\ OwnerOf(u) \subseteq {req[c].name}
    /\ OwnerOf(u) = {} => req[c].name \in seen[c].gone

\* A list has every server that was there all the time, or will have it.
ListFits(c) ==
    /\ seen[c].always \subseteq handles[c] \cup read[c]
    /\ read[c] \subseteq seen[c].ever
    /\ seen[c].gone = {} => \A u \in handles[c] : OwnerOf(u) # {}

\* A lease is looked for because the server was on.
LeaseFits(c) == LET n == req[c].name IN
    n \in seen[c].gone \cup seen[c].halted \/ (dom[n] # None /\ dom[n].active)

\* What an outcome says is true.
Justified(c, o) ==
    /\ o \in {"ok", "created"} =>
         IF req[c].verb = "list" THEN seen[c].always \subseteq read[c] /\ read[c] \subseteq seen[c].ever
                                ELSE \E u \in Uuids : read[c] = {u}
    /\ o = "deleted" => req[c].verb = "delete"
    /\ o = "unavailable" =>
         \/ seen[c].cut
         \/ req[c].verb = "list" /\ seen[c].gone # {}
         \/ req[c].verb # "list" /\ req[c].name \in seen[c].gone \cup seen[c].halted
         \/ req[c].verb \in {"create", "power", "delete"} /\ result[c] = "failed"
    /\ o = "notfound" =>
         ~(Managed(dom[req[c].name]) /\ dom[req[c].name].uuid \in seen[c].always)
    /\ o \in {"conflict", "notrunning", "running"} => ~repeated[c]

\* About what it has seen of the host.
SeenFits(c) == pc[c] # "idle" =>
    /\ ~live[c] => seen[c].cut
    /\ seen[c].always \subseteq ServersIn(dom, About(req[c]))
    /\ pc[c] \in Held => HandleFits(c)
    /\ pc[c] = "each" => ListFits(c)
    /\ pc[c] = "lease" => LeaseFits(c)
    /\ pc[c] = "answered" => \E o \in Outcomes : answer[c] = CodeOf(c, o) /\ Justified(c, o)

CInv == TypeOK /\ HostInv /\ \A c \in Clients : ClientFits(c) /\ SeenFits(c)

\* Every step keeps the types.
LEMMA TypeStep ==
  ASSUME TypeOK, HostInv, \A c \in Clients : ClientFits(c), Next PROVE TypeOK'
<1> USE TypesAre
<1>1. HostTypes'
  BY NextDomStep, DomStepInv DEF HostInv
<1>2. begun' \in 0 .. MaxRequests /\ events' \in 0 .. MaxEvents
  BY FrontEndsAssumption DEF Next, Step
<1>3. ASSUME NEW c \in Clients, Write(c) \/ WriteFails(c) PROVE PlaceTypes' /\ RestTypes' /\ LinkTypes'
  BY <1>3, WriteTypes DEF acting, LinkTypes
<1>4. ASSUME NEW c \in Clients, Read(c) PROVE PlaceTypes' /\ RestTypes' /\ LinkTypes'
  BY <1>4, ReadTypes DEF reading, LinkTypes
<1>5. ASSUME NEW c \in Clients, Finish(c) PROVE PlaceTypes' /\ RestTypes' /\ LinkTypes'
  BY <1>5 DEF Finish, PlaceTypes, RestTypes, LinkTypes, Labels
<1>6. ASSUME NEW r PROVE FirstStep(r) \in Labels
  BY DEF FirstStep, Labels
<1>7. ASSUME NEW c \in Clients, Open(c) PROVE PlaceTypes' /\ RestTypes' /\ LinkTypes'
  <2>1. Proceeds(c)
    BY <1>6, <1>7 DEF Open, Proceeds, Outcomes
  <2> QED BY <1>7, <2>1, ProceedsTypes DEF Open, RestTypes, LinkTypes
<1>8. ASSUME NEW c \in Clients, NEW r \in Requests, Begin(c, r)
      PROVE  PlaceTypes' /\ RestTypes' /\ LinkTypes'
  <2>1. Proceeds(c)
    BY <1>6, <1>8 DEF Begin, Proceeds, Labels
  <2>2. live' \in [Clients -> BOOLEAN]
    BY <1>8 DEF Begin, LinkTypes
  <2> QED BY <1>8, <2>1, <2>2, ProceedsTypes DEF Begin, RestTypes, LinkTypes
<1>9. ASSUME UNCHANGED <<req, pc, handles, read, result, answer, repeated>>
      PROVE  PlaceTypes' /\ RestTypes'
  BY <1>9 DEF PlaceTypes, RestTypes
<1>10. ASSUME UNCHANGED clientVars PROVE PlaceTypes' /\ RestTypes' /\ live' \in [Clients -> BOOLEAN]
  BY <1>9, <1>10 DEF clientVars, LinkTypes
<1>11. ASSUME NEW n \in Names, GuestHalt(n) \/ OtherTool(n) PROVE PlaceTypes' /\ RestTypes' /\ LinkTypes'
  <2>1. UNCHANGED <<daemon, apiOpen, clientVars>>
    BY <1>11 DEF GuestHalt, OtherTool
  <2> QED BY <1>10, <2>1 DEF LinkTypes
<1>12. ASSUME StopLibvirtd PROVE PlaceTypes' /\ RestTypes' /\ LinkTypes'
  <2>1. LinkTypes'
    BY <1>12 DEF StopLibvirtd, LinkTypes
  <2>2. UNCHANGED <<req, pc, handles, read, result, answer, repeated>>
    BY <1>12 DEF StopLibvirtd
  <2> QED BY <1>9, <2>1, <2>2
<1>13. ASSUME StartLibvirtd \/ RestartApi PROVE PlaceTypes' /\ RestTypes' /\ LinkTypes'
  <2>1. UNCHANGED clientVars
    BY <1>13 DEF StartLibvirtd, RestartApi
  <2>2. daemon' \in BOOLEAN /\ apiOpen' \in BOOLEAN /\ (apiOpen' => daemon')
    BY <1>13 DEF StartLibvirtd, RestartApi, LinkTypes
  <2>3. PlaceTypes' /\ RestTypes' /\ live' \in [Clients -> BOOLEAN]
    BY <1>10, <2>1
  <2> QED BY <2>2, <2>3 DEF LinkTypes
<1>14. PlaceTypes' /\ RestTypes' /\ LinkTypes'
  <2> HIDE TypesAre
  <2>1. \/ \E c \in Clients : Moves(c)
        \/ \E n \in Names : GuestHalt(n) \/ OtherTool(n)
        \/ StopLibvirtd \/ StartLibvirtd \/ RestartApi
    BY DEF Next, Step, Event, Moves
  <2>2. ASSUME NEW c \in Clients, Moves(c) PROVE PlaceTypes' /\ RestTypes' /\ LinkTypes'
    BY <1>3, <1>4, <1>5, <1>7, <1>8, <2>2 DEF Moves
  <2> QED BY <1>11, <1>12, <1>13, <2>1, <2>2
<1>15. seen' \in [Clients -> Sights]
  BY <1>1, <1>14, SeenTypes DEF HostTypes, LinkTypes, Next
<1> QED BY <1>1, <1>2, <1>14, <1>15
  DEF TypeOK, HostTypes, PlaceTypes, RestTypes, LinkTypes, Sights, Labels

--------------------------------------------------------------------------------
(* What is seen, and what stays true of a client that makes no step.       *)

\* A domain keeps its UUID for as long as its name does not become free.
LEMMA UuidsStay ==
  ASSUME HostInv, DomStep, NEW n \in Names
  PROVE  \/ dom'[n] = None
         \/ dom[n] # None /\ dom'[n].uuid = dom[n].uuid
         \/ dom[n] = None /\ dom'[n].uuid \in Fresh
<1> USE DEF HostInv, HostTypes
<1>1. CASE dom' = dom
  BY <1>1
<1>2. ASSUME NEW m \in Names, NEW i \in AcceptedInputs, NEW u \in Fresh, NEW on \in BOOLEAN,
             Creates(m, i, u, on)
      PROVE  dom'[n] = dom[n] \/ (dom[n] = None /\ dom'[n].uuid = u)
  BY <1>2 DEF Creates, NewServer
<1>3. ASSUME NEW m \in Names, NEW i \in AcceptedInputs, Changes(m, i) \/ Tears(m, i)
      PROVE  dom'[n] = dom[n] \/ (dom[n] # None /\ dom'[n].uuid = dom[n].uuid)
  <2>1. CASE n # m
    BY <1>3, <2>1 DEF Changes, Tears
  <2>2. CASE n = m
    <3>1. dom[n] # None /\ dom[n] \in Domains
      BY <1>3, <2>2 DEF Changes, Tears, Differ, Managed
    <3>2. CASE Changes(n, i)
      <4>1. PICK x, y : dom' = [dom EXCEPT ![n] = [dom[n] EXCEPT !.xml = x, !.meta = y]]
        BY <3>2 DEF Changes
      <4> QED BY <3>1, <4>1 DEF Domains
    <3>3. CASE Tears(n, i)
      <4>1. PICK x : dom' = [dom EXCEPT ![n] = [dom[n] EXCEPT !.xml = x]]
        BY <3>3 DEF Tears
      <4> QED BY <3>1, <4>1 DEF Domains
    <3> QED BY <1>3, <2>2, <3>2, <3>3
  <2> QED BY <2>1, <2>2
<1>4. ASSUME NEW m \in Names, NEW on \in BOOLEAN, Switches(m, on)
      PROVE  dom'[n] = dom[n] \/ (dom[n] # None /\ dom'[n].uuid = dom[n].uuid)
  BY <1>4 DEF Switches, Domains
<1>5. ASSUME NEW m \in Names, Removes(m) PROVE dom'[n] = dom[n] \/ dom'[n] = None
  BY <1>5 DEF Removes
<1>6. ASSUME NEW m \in Names, NEW u \in Fresh, NEW x, AddsOther(m, u, x)
      PROVE  dom'[n] = dom[n] \/ (dom[n] = None /\ dom'[n].uuid = u)
  BY <1>6 DEF AddsOther, NewDomain
<1> QED BY <1>1, <1>2, <1>3, <1>4, <1>5, <1>6 DEF DomStep

\* A UUID somebody holds comes to no other domain, and is lost only with its own.
LEMMA OwnersStay ==
  ASSUME HostInv, DomStep, NEW u, u \notin Fresh
  PROVE  /\ OwnerOf(u)' \subseteq OwnerOf(u)
         /\ \A n \in OwnerOf(u) : n \in OwnerOf(u)' \/ dom'[n] = None
  BY UuidsStay DEF OwnerOf

\* What is seen of the present state.
LEMMA SeesNow ==
  ASSUME Observe, NEW c \in Clients, pc'[c] # "idle"
  PROVE  /\ ~live'[c] => seen'[c].cut
         /\ seen'[c].always \subseteq ServersIn(dom', About(req'[c]))
  BY ObservedFirst, Observed

\* A handle still fits when somebody else has moved.
LEMMA HandleStays ==
  ASSUME HostInv, DomStep, Observe, NEW c \in Clients, ClientFits(c), HandleFits(c),
         pc[c] \in Held, pc'[c] # "idle",
         req'[c] = req[c], handles'[c] = handles[c]
  PROVE  HandleFits(c)'
<1> DEFINE n == req[c].name
<1>1. n \in Names /\ pc[c] # "idle" /\ n \in About(req'[c])
  BY DEF ClientFits, About, Held
<1>2. seen[c].gone \subseteq seen'[c].gone /\ (dom[n] # None /\ dom'[n] = None => n \in seen'[c].gone)
  BY <1>1, Observed
<1>3. ASSUME NEW u \in handles[c]
      PROVE  OwnerOf(u)' \subseteq {n} /\ (OwnerOf(u)' = {} => n \in seen'[c].gone)
  <2>1. u \notin Fresh
    BY FreshIsNew
  <2>2. OwnerOf(u) \subseteq {n} /\ (OwnerOf(u) = {} => n \in seen[c].gone)
    BY DEF HandleFits
  <2>3. OwnerOf(u)' \subseteq OwnerOf(u) /\ \A m \in OwnerOf(u) : m \in OwnerOf(u)' \/ dom'[m] = None
    BY <2>1, OwnersStay
  <2>4. \A m \in OwnerOf(u) : dom[m] # None
    BY DEF OwnerOf
  <2> QED BY <1>2, <2>2, <2>3, <2>4
<1> QED BY <1>3 DEF HandleFits

\* So does a list.
LEMMA ListStays ==
  ASSUME HostInv, DomStep, Observe, NEW c \in Clients, ClientFits(c), ListFits(c),
         pc[c] = "each", pc'[c] # "idle",
         req'[c] = req[c], handles'[c] = handles[c], read'[c] = read[c]
  PROVE  ListFits(c)'
<1>1. pc[c] # "idle" /\ About(req'[c]) = Names
  BY DEF ClientFits, About
<1>2. /\ seen'[c].always \subseteq seen[c].always /\ seen[c].ever \subseteq seen'[c].ever
      /\ seen[c].gone \subseteq seen'[c].gone
      /\ \A n \in Names : dom[n] # None /\ dom'[n] = None => n \in seen'[c].gone
  BY <1>1, Observed
<1>3. ASSUME seen'[c].gone = {}, NEW u \in handles[c] PROVE OwnerOf(u)' # {}
  <2>1. u \notin Fresh
    BY FreshIsNew
  <2>2. PICK n : n \in OwnerOf(u)
    BY <1>2, <1>3 DEF ListFits
  <2>3. n \in Names /\ dom[n] # None
    BY <2>2 DEF OwnerOf
  <2>4. n \in OwnerOf(u)' \/ dom'[n] = None
    BY <2>1, <2>2, OwnersStay
  <2> QED BY <1>2, <1>3, <2>3, <2>4
<1> QED BY <1>2, <1>3 DEF ListFits

\* A running server stays so, or is seen to halt or to go.
LEMMA LeaseStays ==
  ASSUME HostInv, DomStep, Observe, NEW c \in Clients, ClientFits(c), LeaseFits(c),
         pc[c] = "lease", pc'[c] # "idle", req'[c] = req[c]
  PROVE  LeaseFits(c)'
<1> DEFINE n == req[c].name
<1>1. n \in Names /\ pc[c] # "idle" /\ n \in About(req'[c])
  BY DEF ClientFits, About, Held
<1>2. /\ seen[c].gone \subseteq seen'[c].gone /\ seen[c].halted \subseteq seen'[c].halted
      /\ dom[n] # None /\ dom'[n] = None => n \in seen'[c].gone
      /\ dom[n] # None /\ dom'[n] # None /\ dom[n].active /\ ~dom'[n].active => n \in seen'[c].halted
  BY <1>1, Observed
<1> QED BY <1>2 DEF LeaseFits

\* While an answer is there to be read nothing changes on the host.
LEMMA AnswerStays ==
  ASSUME CInv, Next, NEW d \in Clients, Same(d), pc[d] = "answered",
         NEW o \in Outcomes, Justified(d, o)
  PROVE  Justified(d, o)'
<1>1. \E c \in Clients : Finish(c)
  BY DEF Next, Step
<1>2. UNCHANGED <<dom, req>> \/ (dom' = dom /\ req'[d] = req[d])
  BY <1>1 DEF Finish, server, Same
<1>3. /\ seen'[d].always \subseteq seen[d].always /\ seen[d].ever \subseteq seen'[d].ever
      /\ seen[d].gone \subseteq seen'[d].gone /\ seen[d].halted \subseteq seen'[d].halted
      /\ seen[d].cut => seen'[d].cut
  BY Observed DEF Same, Next
<1>4. /\ dom' = dom /\ req'[d] = req[d] /\ read'[d] = read[d] /\ repeated'[d] = repeated[d]
      /\ result'[d] = result[d]
  BY <1>2 DEF Same
<1> QED BY <1>3, <1>4 DEF Justified

\* A client that makes no step goes on fitting.
LEMMA SameStep ==
  ASSUME CInv, Next, DomStep, NEW d \in Clients, Same(d)
  PROVE  ClientFits(d)' /\ SeenFits(d)'
<1> USE DEF Same
<1>0. ClientFits(d)
  BY DEF CInv
<1>1. ClientFits(d)'
  BY <1>0 DEF ClientFits, Held
<1>2. CASE pc[d] = "idle"
  BY <1>1, <1>2 DEF SeenFits
<1>3. CASE pc[d] # "idle"
  <2>1. HostInv /\ Observe /\ ClientFits(d) /\ SeenFits(d) /\ pc'[d] # "idle"
    BY <1>3 DEF CInv, Next
  <2>2. (~live'[d] => seen'[d].cut) /\ seen'[d].always \subseteq ServersIn(dom', About(req'[d]))
    BY <2>1, SeesNow
  <2>3. pc[d] \in Held => HandleFits(d)'
    BY <2>1, HandleStays DEF SeenFits
  <2>4. pc[d] = "each" => ListFits(d)'
    BY <2>1, ListStays DEF SeenFits
  <2>5. pc[d] = "lease" => LeaseFits(d)'
    BY <2>1, LeaseStays DEF SeenFits
  <2>6. pc[d] = "answered" => \E o \in Outcomes : answer'[d] = CodeOf(d, o) /\ Justified(d, o)'
    <3>1. ASSUME pc[d] = "answered" PROVE \E o \in Outcomes : answer[d] = CodeOf(d, o) /\ Justified(d, o)
      BY <2>1, <3>1 DEF SeenFits
    <3> QED BY <3>1, AnswerStays
  <2>7. (pc[d] = "answered" => \E o \in Outcomes : answer[d] = CodeOf(d, o) /\ Justified(d, o))'
    BY <2>6
  <2> QED BY <1>1, <2>2, <2>3, <2>4, <2>5, <2>7 DEF SeenFits
<1> QED BY <1>1, <1>2, <1>3

--------------------------------------------------------------------------------
(* The client that makes the step.                                         *)

\* Where a step of a client leads.
LEMMA GoesTo ==
  ASSUME TypeOK, NEW c \in Clients, NEW l, Goto(c, l) PROVE pc'[c] = l
  BY DEF TypeOK, Goto

\* What an answer leaves.
LEMMA Answers ==
  ASSUME TypeOK, NEW c \in Clients, NEW o, Answer(c, o)
  PROVE  pc'[c] = "answered" /\ answer'[c] = CodeOf(c, o)
  BY DEF TypeOK, Answer

\* An answer that is justified fits.
LEMMA AnswerFits ==
  ASSUME CInv, Next, NEW c \in Clients, pc[c] # "idle", req'[c] = req[c],
         NEW o \in Outcomes, Answer(c, o), Justified(c, o)'
  PROVE  ClientFits(c)' /\ SeenFits(c)'
<1>1. TypeOK /\ Observe /\ ClientFits(c)
  BY DEF CInv, Next
<1>2. pc'[c] = "answered" /\ answer'[c] = CodeOf(c, o)
  BY <1>1, Answers
<1>3. ClientFits(c)'
  BY <1>1, <1>2 DEF ClientFits, Held
<1>4. (~live'[c] => seen'[c].cut) /\ seen'[c].always \subseteq ServersIn(dom', About(req'[c]))
  BY <1>1, <1>2, SeesNow
<1>5. answer'[c] = CodeOf(c, o) /\ Justified(c, o)'
  BY <1>2
<1> QED BY <1>2, <1>3, <1>4, <1>5 DEF SeenFits, Held, CodeOf

\* A client that goes on needs nothing of what it has seen before it reads.
LEMMA GoneOn ==
  ASSUME CInv, Next, NEW c \in Clients, NEW l \in {"open", "act", "make", "lookup", "list"}, Goto(c, l)
  PROVE  pc'[c] = l /\ SeenFits(c)'
<1>1. TypeOK /\ Observe
  BY DEF CInv, Next
<1>2. pc'[c] = l
  BY <1>1, GoesTo
<1>3. (~live'[c] => seen'[c].cut) /\ seen'[c].always \subseteq ServersIn(dom', About(req'[c]))
  BY <1>1, <1>2, SeesNow
<1> QED BY <1>2, <1>3 DEF SeenFits, Held

\* Opening and closing a request.
LEMMA EndsStep ==
  ASSUME CInv, Next, NEW c \in Clients, Finish(c) \/ Open(c) \/ \E r \in Requests : Begin(c, r)
  PROVE  ClientFits(c)' /\ SeenFits(c)'
<1>0. TypeOK /\ Observe /\ ClientFits(c) /\ SeenFits(c)
  BY DEF CInv, Next
<1>1. CASE Finish(c)
  <2>1. /\ pc'[c] = "idle" /\ handles'[c] = {} /\ read'[c] = {} /\ result'[c] = "ok" /\ ~repeated'[c]
    BY <1>0, <1>1 DEF Finish, TypeOK
  <2> QED BY <2>1 DEF ClientFits, SeenFits, Held
<1>2. CASE Open(c)
  <2>1. /\ pc[c] = "open" /\ req'[c] = req[c] /\ handles'[c] = handles[c] /\ read'[c] = read[c]
        /\ result'[c] = result[c] /\ repeated'[c] = repeated[c] /\ req[c] \in Requests
    BY <1>0, <1>2 DEF Open, ClientFits
  <2>2. CASE live[c]
    <3>1. Goto(c, FirstStep(req[c]))
      BY <1>2, <2>2 DEF Open
    <3>2. FirstStep(req[c]) \in {"act", "lookup", "list"}
      BY DEF FirstStep
    <3>3. pc'[c] = FirstStep(req[c]) /\ SeenFits(c)'
      BY <3>1, <3>2, GoneOn
    <3>4. /\ FirstStep(req[c]) = "list" => req[c].verb = "list"
          /\ FirstStep(req[c]) = "lookup" => req[c].verb # "list" /\ req[c].name \in Names
          /\ FirstStep(req[c]) = "act" => req[c].verb \notin {"list", "get"}
      BY <2>1, RequestParts DEF FirstStep
    <3>5. ClientFits(c)'
      BY <1>0, <2>1, <3>2, <3>3, <3>4 DEF ClientFits, Held
    <3> QED BY <3>3, <3>5
  <2>3. CASE ~live[c]
    <3>1. Answer(c, "unavailable") /\ "unavailable" \in Outcomes
      BY <1>2, <2>3 DEF Open, Outcomes
    <3>2. seen'[c].cut
      <4>1. pc'[c] = "answered"
        BY <1>0, <3>1, Answers
      <4> QED BY <1>0, <2>1, <2>3, <4>1, Observed DEF SeenFits
    <3>3. Justified(c, "unavailable")'
      BY <3>2 DEF Justified
    <3> QED BY <2>1, <3>1, <3>3, AnswerFits
  <2> QED BY <2>2, <2>3
<1>3. ASSUME NEW r \in Requests, Begin(c, r) PROVE ClientFits(c)' /\ SeenFits(c)'
  <2> DEFINE l == IF c \in CliClients THEN "open" ELSE FirstStep(r)
  <2>1. /\ pc[c] = "idle" /\ req'[c] = r /\ handles'[c] = handles[c] /\ read'[c] = read[c]
        /\ result'[c] = result[c] /\ repeated'[c] = repeated[c] /\ Goto(c, l)
    BY <1>0, <1>3 DEF Begin, TypeOK
  <2>2. FirstStep(r) \in {"act", "lookup", "list"}
    BY DEF FirstStep
  <2>3. l \in {"open", "act", "lookup", "list"}
    BY <2>2
  <2>4. pc'[c] = l /\ SeenFits(c)'
    BY <2>1, <2>3, GoneOn
  <2>5. /\ l = "list" => r.verb = "list"
        /\ l = "lookup" => r.verb # "list" /\ r.name \in Names
        /\ l = "act" => r.verb \notin {"list", "get"}
    BY RequestParts DEF FirstStep
  <2> HIDE DEF l
  <2>6. ClientFits(c)'
    BY <1>0, <2>1, <2>3, <2>4, <2>5 DEF ClientFits, Held
  <2> QED BY <2>4, <2>6
<1> QED BY <1>1, <1>2, <1>3

\* A write that goes on to read the server.
LEMMA GoesToRead ==
  ASSUME CInv, Next, NEW c \in Clients, Goto(c, "lookup"),
         pc[c] \in {"act", "make"}, req[c].verb \in {"create", "power"}, req[c].name \in Names,
         UNCHANGED acting, result'[c] \notin {"deleted", "failed"}
  PROVE  ClientFits(c)' /\ SeenFits(c)'
<1>1. ClientFits(c)
  BY DEF CInv
<1>2. pc'[c] = "lookup" /\ SeenFits(c)'
  BY GoneOn
<1>3. ClientFits(c)'
  BY <1>1, <1>2 DEF ClientFits, Held, acting
<1> QED BY <1>2, <1>3

\* A write a call of which fails or is refused.
LEMMA FailFits ==
  ASSUME CInv, Next, NEW c \in Clients, pc[c] \in {"act", "make"}, Fail(c)
  PROVE  ClientFits(c)' /\ SeenFits(c)'
<1>1. TypeOK /\ ClientFits(c)
  BY DEF CInv
<1>2. req'[c] = req[c] /\ result'[c] = "failed" /\ Answer(c, "unavailable") /\ "unavailable" \in Outcomes
  BY <1>1 DEF Fail, acting, TypeOK, Outcomes
<1>3. req[c].verb \in {"create", "power", "delete"}
  BY <1>1, RequestParts DEF ClientFits
<1>4. Justified(c, "unavailable")'
  BY <1>2, <1>3 DEF Justified
<1> QED BY <1>2, <1>4, AnswerFits

\* A write.
LEMMA WriteStep ==
  ASSUME CInv, Next, NEW c \in Clients, Write(c) \/ WriteFails(c)
  PROVE  ClientFits(c)' /\ SeenFits(c)'
<1> DEFINE n == req[c].name
<1>0. TypeOK /\ HostInv /\ ClientFits(c)
  BY DEF CInv
<1>m. Makes(c) => pc[c] = "make" /\ req[c].verb = "create" /\ n \in Names
  BY <1>0 DEF Makes, ClientFits
<1>1. ASSUME NEW o \in Outcomes, Answer(c, o), pc[c] \in {"act", "make"}, UNCHANGED acting, Justified(c, o)'
      PROVE  ClientFits(c)' /\ SeenFits(c)'
  BY <1>1, AnswerFits DEF acting
<1>2. CASE RejectInput(c) \/ LocalError(c)
  <2>1. PICK o \in {"invalid", "internal"} : Answer(c, o) /\ UNCHANGED acting
    BY <1>2 DEF RejectInput, LocalError, Reject
  <2>2. o \in Outcomes /\ pc[c] \in {"act", "make"}
    BY <1>2, <2>1 DEF Outcomes, RejectInput, LocalError, Acts, Makes
  <2>3. Justified(c, o)'
    BY DEF Justified
  <2> QED BY <1>1, <2>1, <2>2, <2>3
<1>3. CASE Missing(c)
  <2>1. Reject(c, "notfound") /\ ~Managed(dom[n]) /\ pc[c] = "act" /\ "notfound" \in Outcomes
    BY <1>3 DEF Missing, Acts, Outcomes
  <2>2. Justified(c, "notfound")'
    BY <2>1 DEF Reject, acting, server, Justified, Managed
  <2> QED BY <1>1, <2>1, <2>2 DEF Reject
<1>4. CASE Create(c)
  <2>1. CASE Fail(c)
    BY <1>4, <2>1, FailFits DEF Create, Makes
  <2>2. CASE Done(c, "created")
    <3>1. Goto(c, "lookup") /\ result'[c] = "created" /\ UNCHANGED acting /\ Makes(c)
      BY <1>0, <1>4, <2>2 DEF Create, Done, TypeOK
    <3> QED BY <1>m, <3>1, GoesToRead
  <2> QED BY <1>4, <2>1, <2>2 DEF Create
<1>5. CASE Power(c)
  <2>1. CASE Reject(c, "notrunning")
    <3>1. pc[c] = "act" /\ repeated' = repeated /\ "notrunning" \in Outcomes
      BY <1>5, <2>1 DEF Power, Acts, Reject, Outcomes
    <3>2. Justified(c, "notrunning")'
      BY <1>0, <3>1 DEF Justified, ClientFits
    <3> QED BY <1>1, <2>1, <3>1, <3>2 DEF Reject
  <2>2. CASE Done(c, "ok")
    <3>1. Goto(c, "lookup") /\ result'[c] = "ok" /\ UNCHANGED acting /\ Acts(c, "power")
      BY <1>0, <1>5, <2>2 DEF Power, Done, TypeOK
    <3> QED BY <3>1, GoesToRead DEF Acts
  <2> QED BY <1>5, <2>1, <2>2 DEF Power
<1>6. CASE Delete(c)
  <2>1. Answer(c, "deleted") /\ UNCHANGED acting /\ pc[c] = "act" /\ req[c].verb = "delete"
    BY <1>6 DEF Delete, Done, Acts
  <2>2. "deleted" \in Outcomes /\ Justified(c, "deleted")'
    BY <2>1 DEF Justified, Outcomes, acting
  <2> QED BY <1>1, <2>1, <2>2
<1>8. CASE FindFree(c)
  <2>1. /\ Goto(c, "make") /\ UNCHANGED <<result, repeated, acting>>
        /\ pc[c] = "act" /\ req[c].verb = "create" /\ n \in Names
    BY <1>8 DEF FindFree, Acts
  <2>2. pc'[c] = "make" /\ SeenFits(c)'
    BY <2>1, GoneOn
  <2>3. ClientFits(c)'
    BY <1>0, <2>1, <2>2 DEF ClientFits, Held, acting
  <2> QED BY <2>2, <2>3
<1>9. CASE WriteFails(c)
  BY <1>9, FailFits DEF WriteFails, CreateFails, ConvergeFails, PowerFails, DeleteFails, Makes, Acts
<1>7. CASE CreateAgain(c)
  <2> DEFINE d == dom[n]
             changed(i) == Differing(Completed(d.meta, n), Filled(i, n))
  <2>1. Acts(c, "create") /\ n \in Names /\ pc[c] = "act" /\ UNCHANGED acting
    BY <1>7 DEF CreateAgain, Acts
  <2>2. PICK i \in AcceptedInputs :
          /\ repeated' = [repeated EXCEPT ![c] = Filled(i, n) = want[n]]
          /\ \/ Answer(c, "conflict") /\ (Managed(d) => changed(i) # {})
             \/ Answer(c, "running") /\ Managed(d) /\ changed(i) # {}
             \/ Goto(c, "lookup") /\ UNCHANGED result
             \/ Fail(c)
    <3>1. PICK i \in AcceptedInputs :
          /\ repeated' = [repeated EXCEPT ![c] = Filled(i, n) = want[n]]
          /\ \/ ~Managed(d) /\ Answer(c, "conflict")
             \/ Managed(d) /\ ~(changed(i) \subseteq Mutable) /\ Answer(c, "conflict")
             \/ Managed(d) /\ changed(i) # {} /\ Answer(c, "running")
             \/ Goto(c, "lookup") /\ UNCHANGED result
             \/ Fail(c)
      BY <1>7 DEF CreateAgain
    <3>2. ~(changed(i) \subseteq Mutable) => changed(i) # {}
      OBVIOUS
    <3> HIDE DEF changed
    <3> QED BY <3>1, <3>2
  <2>3. CASE Goto(c, "lookup") /\ UNCHANGED result
    <3>1. result'[c] \notin {"deleted", "failed"}
      BY <1>0, <2>1, <2>3 DEF ClientFits
    <3> QED BY <2>1, <2>3, <3>1, GoesToRead DEF Acts
  <2>5. CASE Fail(c)
    BY <2>1, <2>5, FailFits
  <2>4. ASSUME NEW o \in {"conflict", "running"}, Answer(c, o), Managed(d) => changed(i) # {}
        PROVE  ClientFits(c)' /\ SeenFits(c)'
    <3>1. Filled(i, n) # want[n]
      <4>1. CASE Managed(d)
        <5>1. Completed(d.meta, n) = want[n]
          BY <1>0, <2>1, <4>1 DEF HostInv, Agrees
        <5> QED BY <2>4, <4>1, <5>1 DEF Differing
      <4>2. CASE ~Managed(d)
        <5>1. want[n] = None
          BY <1>0, <2>1, <4>2 DEF HostInv, Agrees
        <5> QED BY <2>1, <5>1, SpecTypes
      <4> QED BY <4>1, <4>2
    <3>2. repeated'[c] = FALSE
      BY <1>0, <2>2, <3>1 DEF TypeOK
    <3>3. o \in Outcomes /\ Justified(c, o)'
      BY <3>2 DEF Outcomes, Justified
    <3> QED BY <1>1, <2>1, <2>4, <3>3
  <2> QED BY <2>2, <2>3, <2>4, <2>5
<1> QED BY <1>2, <1>3, <1>4, <1>5, <1>6, <1>7, <1>8, <1>9 DEF Write

\* A handle is of the domain that has the name, or of one that is gone.
LEMMA TheHandle ==
  ASSUME CInv, NEW c \in Clients, pc[c] \in Held
  PROVE  \E u \in Uuids :
           /\ handles[c] = {u}
           /\ pc[c] \in {"managed", "spec"} => read[c] = {}
           /\ pc[c] \in {"state", "lease"} => read[c] = {u}
           /\ req[c].verb # "list" /\ req[c].name \in Names
           /\ DomainOf(c) = OwnerOf(u)
           /\ \A m \in OwnerOf(u) : m = req[c].name /\ dom[m] # None /\ dom[m].uuid = u
           /\ OwnerOf(u) = {} => req[c].name \in seen[c].gone
<1>1. ClientFits(c) /\ HandleFits(c)
  BY DEF CInv, SeenFits, Held
<1>2. PICK u \in Uuids : /\ handles[c] = {u}
                         /\ pc[c] \in {"managed", "spec"} => read[c] = {}
                         /\ pc[c] \in {"state", "lease"} => read[c] = {u}
  BY <1>1 DEF ClientFits, Held
<1>3. DomainOf(c) = OwnerOf(u)
  BY <1>2 DEF DomainOf
<1>4. \A m \in OwnerOf(u) : dom[m] # None /\ dom[m].uuid = u
  BY DEF OwnerOf
<1> QED BY <1>1, <1>2, <1>3, <1>4 DEF ClientFits, HandleFits, Held

\* While one client reads, the host and the handles of that client say the same.
LEMMA ReadFrame ==
  ASSUME CInv, Next, NEW c \in Clients, pc[c] # "idle", UNCHANGED reading, pc'[c] # "idle"
  PROVE  /\ dom' = dom /\ req'[c] = req[c] /\ live'[c] = live[c]
         /\ result'[c] = result[c] /\ repeated'[c] = repeated[c]
         /\ seen[c].gone \subseteq seen'[c].gone /\ seen[c].halted \subseteq seen'[c].halted
         /\ seen[c].ever \subseteq seen'[c].ever /\ seen'[c].always \subseteq seen[c].always
         /\ ServersIn(dom, About(req[c])) \subseteq seen'[c].ever
         /\ seen'[c].always \subseteq ServersIn(dom, About(req[c]))
         /\ ~live[c] => seen'[c].cut
<1>1. Observe /\ SeenFits(c)
  BY DEF CInv, Next
<1>2. dom' = dom /\ req' = req /\ live' = live /\ result' = result /\ repeated' = repeated
  BY DEF reading, server
<1>3. /\ seen'[c].always = seen[c].always \cap ServersIn(dom, About(req[c]))
      /\ seen'[c].ever = seen[c].ever \cup ServersIn(dom, About(req[c]))
      /\ seen[c].gone \subseteq seen'[c].gone /\ seen[c].halted \subseteq seen'[c].halted
      /\ ~live[c] => seen'[c].cut
  BY <1>1, <1>2, Observed
<1> QED BY <1>2, <1>3

\* The calls of get and status on their handle.
LEMMA HeldStep ==
  ASSUME CInv, Next, NEW c \in Clients,
         CheckMetadata(c) \/ ReadSpec(c) \/ ReadState(c) \/ ReadLease(c) \/ Vanished(c)
  PROVE  ClientFits(c)' /\ SeenFits(c)'
<1> DEFINE n == req[c].name
<1>0. TypeOK /\ HostInv /\ ClientFits(c) /\ SeenFits(c) /\ Observe
  BY DEF CInv, Next
<1>1. pc[c] \in Held /\ pc[c] # "idle" /\ UNCHANGED reading
  BY DEF CheckMetadata, ReadSpec, ReadState, ReadLease, Vanished, Ask, Held
<1>2. PICK u \in Uuids :
           /\ handles[c] = {u}
           /\ pc[c] \in {"managed", "spec"} => read[c] = {}
           /\ pc[c] \in {"state", "lease"} => read[c] = {u}
           /\ req[c].verb # "list" /\ req[c].name \in Names
           /\ DomainOf(c) = OwnerOf(u)
           /\ \A m \in OwnerOf(u) : m = req[c].name /\ dom[m] # None /\ dom[m].uuid = u
           /\ OwnerOf(u) = {} => req[c].name \in seen[c].gone
  BY <1>1, TheHandle
<1>3. HandleFits(c)
  BY <1>0, <1>1 DEF SeenFits
<1>4. ASSUME NEW o \in Outcomes, Answer(c, o),
             pc'[c] # "idle" => Justified(c, o)'
      PROVE  ClientFits(c)' /\ SeenFits(c)'
  <2>1. pc'[c] = "answered" /\ req'[c] = req[c]
    BY <1>0, <1>1, <1>4, Answers DEF reading
  <2> QED BY <1>1, <1>4, <2>1, AnswerFits
<1>5. ASSUME NEW l \in Held, Goto(c, l), handles' = handles,
             l = "spec" => read'[c] = {}, l \in {"state", "lease"} => read'[c] = {u},
             l = "lease" => dom[n] # None /\ dom[n].active, l # "managed"
      PROVE  ClientFits(c)' /\ SeenFits(c)'
  <2>1. pc'[c] = l /\ pc'[c] # "idle"
    BY <1>0, <1>5, GoesTo DEF Held
  <2>2. dom' = dom /\ req'[c] = req[c] /\ result'[c] = result[c] /\ repeated'[c] = repeated[c]
    BY <1>1, <2>1, ReadFrame
  <2>3. ClientFits(c)'
    BY <1>0, <1>1, <1>2, <1>5, <2>1, <2>2 DEF ClientFits, Held
  <2>4. HandleFits(c)'
    BY <1>0, <1>1, <1>3, <1>5, <2>1, <2>2, NextDomStep, HandleStays DEF vars, CInv
  <2>5. (~live'[c] => seen'[c].cut) /\ seen'[c].always \subseteq ServersIn(dom', About(req'[c]))
    BY <1>0, <2>1, SeesNow
  <2>6. l = "lease" => LeaseFits(c)'
    BY <1>5, <2>2 DEF LeaseFits
  <2> QED BY <2>1, <2>3, <2>4, <2>5, <2>6 DEF SeenFits, Held
<1>6. CASE Vanished(c)
  <2>1. Answer(c, "unavailable") /\ "unavailable" \in Outcomes /\ DomainOf(c) = {}
    BY <1>6 DEF Vanished, HostError, Outcomes
  <2>2. pc'[c] # "idle" => Justified(c, "unavailable")'
    BY <1>1, <1>2, <2>1, ReadFrame DEF Justified
  <2> QED BY <1>4, <2>1, <2>2
<1>7. CASE CheckMetadata(c)
  <2>1. PICK m \in DomainOf(c) : IF Managed(dom[m]) THEN Goto(c, "spec") ELSE Answer(c, "notfound")
    BY <1>7 DEF CheckMetadata
  <2>2. pc[c] = "managed" /\ handles' = handles /\ read' = read /\ m = n
    BY <1>2, <1>7, <2>1 DEF CheckMetadata, Ask
  <2>3. CASE Managed(dom[n])
    <3>1. "spec" \in Held /\ Goto(c, "spec") /\ read'[c] = {}
      BY <1>2, <2>1, <2>2, <2>3 DEF Held
    <3> QED BY <1>5, <2>2, <3>1
  <2>4. CASE ~Managed(dom[n])
    <3>1. Answer(c, "notfound") /\ "notfound" \in Outcomes
      BY <2>1, <2>2, <2>4 DEF Outcomes
    <3>2. pc'[c] # "idle" => Justified(c, "notfound")'
      BY <1>1, <2>4, ReadFrame DEF Justified, Managed
    <3> QED BY <1>4, <3>1, <3>2
  <2> QED BY <2>3, <2>4
<1>8. ASSUME NEW m \in DomainOf(c), ReadFrom(c, m) PROVE read'[c] = {u}
  BY <1>0, <1>2, <1>1, <1>8 DEF ReadFrom, TypeOK, Held
<1>9. CASE ReadSpec(c)
  <2>1. Goto(c, "state") /\ handles' = handles /\ "state" \in Held /\ read'[c] = {u}
    BY <1>8, <1>9 DEF ReadSpec, Held
  <2> QED BY <1>5, <2>1
<1>10. ASSUME Answer(c, result[c]), read'[c] = {u} PROVE ClientFits(c)' /\ SeenFits(c)'
  <2>1. result[c] \in {"ok", "created"}
    BY <1>0, <1>1 DEF ClientFits, TypeOK, Held
  <2>2. PICK o \in {"ok", "created"} : o = result[c]
    BY <2>1
  <2>3. pc'[c] # "idle" => Justified(c, o)'
    BY <1>1, <1>2, <1>10, ReadFrame DEF Justified
  <2>4. o \in Outcomes /\ Answer(c, o)
    BY <1>10, <2>2 DEF Outcomes
  <2> QED BY <1>4, <2>3, <2>4
<1>11. CASE ReadState(c)
  <2>1. PICK m \in DomainOf(c) :
          /\ ReadFrom(c, m) /\ handles' = handles
          /\ \/ Goto(c, "lease") /\ dom[m].active
             \/ Answer(c, result[c])
    BY <1>11 DEF ReadState
  <2>2. read'[c] = {u} /\ m = n /\ dom[n] # None /\ "lease" \in Held
    BY <1>2, <1>8, <2>1 DEF Held
  <2>3. CASE Goto(c, "lease") /\ dom[n].active
    BY <1>5, <2>1, <2>2, <2>3
  <2> QED BY <1>10, <2>1, <2>2, <2>3
<1>12. CASE ReadLease(c)
  <2>1. PICK m \in DomainOf(c) :
          /\ read' = read /\ pc[c] = "lease"
          /\ Answer(c, IF dom[m].active THEN result[c] ELSE "unavailable")
    BY <1>12 DEF ReadLease, Ask, HostError
  <2>2. read'[c] = {u} /\ m = n /\ dom[n] # None /\ "unavailable" \in Outcomes
    BY <1>2, <2>1 DEF Outcomes
  <2>3. CASE dom[n].active
    BY <1>10, <2>1, <2>2, <2>3
  <2>4. CASE ~dom[n].active
    <3>1. n \in seen[c].gone \cup seen[c].halted
      BY <1>0, <1>1, <2>1, <2>4 DEF SeenFits, LeaseFits
    <3>2. pc'[c] # "idle" => Justified(c, "unavailable")'
      BY <1>1, <1>2, <3>1, ReadFrame DEF Justified
    <3> QED BY <1>4, <2>1, <2>2, <2>4, <3>2
  <2> QED BY <2>3, <2>4
<1> QED BY <1>6, <1>7, <1>9, <1>11, <1>12

\* The calls of list, and the lookup of get and status.
LEMMA FirstReadStep ==
  ASSUME CInv, Next, NEW c \in Clients, Lookup(c) \/ ListAll(c) \/ Each(c) \/ ListEnds(c) \/ Broken(c)
  PROVE  ClientFits(c)' /\ SeenFits(c)'
<1> DEFINE n == req[c].name
<1>0. TypeOK /\ HostInv /\ ClientFits(c) /\ SeenFits(c) /\ Observe
  BY DEF CInv, Next
<1>1. pc[c] # "idle" /\ UNCHANGED reading
  BY DEF Lookup, ListAll, Each, ListEnds, Broken
<1>2. ASSUME NEW o \in Outcomes, Answer(c, o), pc'[c] # "idle" => Justified(c, o)'
      PROVE  ClientFits(c)' /\ SeenFits(c)'
  <2>1. pc'[c] = "answered" /\ req'[c] = req[c]
    BY <1>0, <1>1, <1>2, Answers DEF reading
  <2> QED BY <1>1, <1>2, <2>1, AnswerFits
<1>3. CASE Broken(c)
  <2>1. Answer(c, "unavailable") /\ "unavailable" \in Outcomes /\ ~live[c]
    BY <1>3 DEF Broken, HostError, Outcomes
  <2>2. pc'[c] # "idle" => Justified(c, "unavailable")'
    BY <1>1, <2>1, ReadFrame DEF Justified
  <2> QED BY <1>2, <2>1, <2>2
<1>4. CASE Lookup(c)
  <2>1. pc[c] = "lookup" /\ n \in Names /\ req[c].verb # "list" /\ handles[c] = {} /\ read[c] = {}
    BY <1>0, <1>4 DEF Lookup, ClientFits
  <2>2. CASE dom[n] = None
    <3>1. Answer(c, "notfound") /\ "notfound" \in Outcomes
      BY <1>4, <2>2 DEF Lookup, UnknownName, Outcomes
    <3>2. pc'[c] # "idle" => Justified(c, "notfound")'
      BY <1>1, <2>2, ReadFrame DEF Justified, Managed
    <3> QED BY <1>2, <3>1, <3>2
  <2>3. CASE dom[n] # None
    <3>0. PICK u \in Uuids : u = dom[n].uuid
      BY <1>0, <2>1, <2>3 DEF TypeOK, Domains
    <3>1. Goto(c, "managed") /\ handles'[c] = {u} /\ read'[c] = {}
      BY <1>0, <1>4, <2>1, <2>3, <3>0 DEF Lookup, TypeOK
    <3>2. pc'[c] = "managed" /\ pc'[c] # "idle"
      BY <1>0, <3>1, GoesTo
    <3>3. dom' = dom /\ req'[c] = req[c] /\ result'[c] = result[c] /\ repeated'[c] = repeated[c]
      BY <1>1, <3>2, ReadFrame
    <3>4. OwnerOf(u)' = {n}
      BY <1>0, <2>1, <2>3, <3>0, <3>3 DEF OwnerOf, HostInv, OneNamePerDomain
    <3>5. ClientFits(c)'
      BY <1>0, <1>1, <2>1, <3>1, <3>2, <3>3 DEF ClientFits, Held
    <3>6. HandleFits(c)'
      BY <3>1, <3>3, <3>4 DEF HandleFits
    <3>7. (~live'[c] => seen'[c].cut) /\ seen'[c].always \subseteq ServersIn(dom', About(req'[c]))
      BY <1>0, <3>2, SeesNow
    <3> QED BY <3>2, <3>5, <3>6, <3>7 DEF SeenFits, Held
  <2> QED BY <2>2, <2>3
<1>5. ASSUME pc[c] \in {"list", "each"}, Goto(c, "each"), ListFits(c)'
      PROVE  ClientFits(c)' /\ SeenFits(c)'
  <2>1. pc'[c] = "each" /\ pc'[c] # "idle"
    BY <1>0, <1>5, GoesTo
  <2>2. ClientFits(c)'
    BY <1>0, <1>1, <1>5, <2>1, ReadFrame DEF ClientFits, Held
  <2>3. (~live'[c] => seen'[c].cut) /\ seen'[c].always \subseteq ServersIn(dom', About(req'[c]))
    BY <1>0, <2>1, SeesNow
  <2> QED BY <1>5, <2>1, <2>2, <2>3 DEF SeenFits, Held
<1>6. \A S \in SUBSET Names : ServersIn(dom, S) \subseteq {dom[m].uuid : m \in {k \in Names : dom[k] # None}}
  BY DEF ServersIn, Managed
<1>7. CASE ListAll(c)
  <2>1. pc[c] = "list" /\ Goto(c, "each") /\ read'[c] = {} /\ About(req[c]) = Names
        /\ handles'[c] = {dom[m].uuid : m \in {k \in Names : dom[k] # None}}
    BY <1>0, <1>7 DEF ListAll, TypeOK, ClientFits, About
  <2>2. pc'[c] # "idle"
    BY <1>0, <2>1, GoesTo
  <2>3. dom' = dom /\ seen'[c].always \subseteq ServersIn(dom, Names)
    BY <1>1, <2>1, <2>2, ReadFrame
  <2>4. \A v \in handles'[c] : OwnerOf(v)' # {}
    BY <2>1, <2>3 DEF OwnerOf
  <2>5. ListFits(c)'
    BY <1>6, <2>1, <2>3, <2>4 DEF ListFits
  <2> QED BY <1>5, <2>1, <2>5
<1>8. CASE Each(c)
  <2>1. PICK v \in handles[c] :
          /\ handles' = [handles EXCEPT ![c] = @ \ {v}]
          /\ IF OwnerOf(v) = {} THEN Answer(c, HostError(c)) /\ read' = read
             ELSE \E m \in OwnerOf(v) :
                    /\ Goto(c, "each")
                    /\ IF Managed(dom[m]) THEN ReadFrom(c, m) ELSE read' = read
    BY <1>8 DEF Each, IsManaged
  <2>2. pc[c] = "each" /\ req[c].verb = "list" /\ About(req[c]) = Names /\ ListFits(c)
    BY <1>0, <1>8 DEF Each, ClientFits, About, SeenFits
  <2>3. CASE OwnerOf(v) = {}
    <3>1. Answer(c, "unavailable") /\ "unavailable" \in Outcomes
      BY <2>1, <2>3 DEF HostError, Outcomes
    <3>2. seen[c].gone # {}
      BY <2>2, <2>3 DEF ListFits
    <3>3. pc'[c] # "idle" => Justified(c, "unavailable")'
      BY <1>1, <2>2, <3>2, ReadFrame DEF Justified
    <3> QED BY <1>2, <3>1, <3>3
  <2>4. CASE OwnerOf(v) # {}
    <3>1. PICK m \in OwnerOf(v) : /\ Goto(c, "each")
                                  /\ IF Managed(dom[m]) THEN ReadFrom(c, m) ELSE read' = read
      BY <2>1, <2>4
    <3>2. m \in Names /\ dom[m] # None /\ dom[m].uuid = v
      BY DEF OwnerOf
    <3>3. handles'[c] = handles[c] \ {v} /\ read'[c] = IF Managed(dom[m]) THEN read[c] \cup {v} ELSE read[c]
      BY <1>0, <2>1, <3>1, <3>2 DEF TypeOK, ReadFrom
    <3>4. pc'[c] # "idle"
      BY <1>0, <3>1, GoesTo
    <3>5. /\ dom' = dom /\ seen[c].gone \subseteq seen'[c].gone /\ seen[c].ever \subseteq seen'[c].ever
          /\ seen'[c].always \subseteq seen[c].always
          /\ ServersIn(dom, Names) \subseteq seen'[c].ever /\ seen'[c].always \subseteq ServersIn(dom, Names)
      BY <1>1, <2>2, <3>4, ReadFrame
    <3>6. IF Managed(dom[m]) THEN v \in ServersIn(dom, Names) ELSE v \notin ServersIn(dom, Names)
      BY <1>0, <3>2 DEF ServersIn, Managed, HostInv, OneNamePerDomain
    <3>7. seen'[c].always \subseteq handles'[c] \cup read'[c] /\ read'[c] \subseteq seen'[c].ever
      BY <2>2, <3>3, <3>5, <3>6 DEF ListFits
    <3>8. seen'[c].gone = {} => \A w \in handles'[c] : OwnerOf(w)' # {}
      BY <2>2, <3>3, <3>5 DEF ListFits, OwnerOf
    <3>9. ListFits(c)'
      BY <3>7, <3>8 DEF ListFits
    <3> QED BY <1>5, <2>2, <3>1, <3>9
  <2> QED BY <2>3, <2>4
<1>9. CASE ListEnds(c)
  <2>1. /\ pc[c] = "each" /\ handles[c] = {} /\ Answer(c, "ok") /\ "ok" \in Outcomes
        /\ read' = read /\ req[c].verb = "list" /\ ListFits(c)
    BY <1>0, <1>9 DEF ListEnds, ClientFits, SeenFits, Outcomes
  <2>2. pc'[c] # "idle" => Justified(c, "ok")'
    BY <1>1, <2>1, ReadFrame DEF Justified, ListFits
  <2> QED BY <1>2, <2>1, <2>2
<1> QED BY <1>3, <1>4, <1>7, <1>8, <1>9

--------------------------------------------------------------------------------
(* The invariant, and what it says of answers.                             *)

\* It holds initially.
LEMMA InitCInv == ASSUME Init PROVE CInv
<1>1. HostInv
  BY InitHostInv
<1>2. HostTypes
  BY <1>1 DEF HostInv
<1>3. PlaceTypes /\ RestTypes /\ LinkTypes /\ begun \in 0 .. MaxRequests /\ events \in 0 .. MaxEvents
  BY FrontEndsAssumption DEF Init, PlaceTypes, RestTypes, LinkTypes, Labels
<1>4. seen \in [Clients -> Sights]
  BY DEF Init, NothingSeen, Sights
<1>5. TypeOK
  BY <1>2, <1>3, <1>4, TypesAre
<1>6. \A c \in Clients : ClientFits(c) /\ SeenFits(c)
  BY DEF Init, ClientFits, SeenFits, Held
<1> QED BY <1>1, <1>5, <1>6 DEF CInv

\* Every step keeps it.
LEMMA CInvStep == ASSUME CInv, [Next]_vars PROVE CInv'
<1>1. HostInv /\ DomStep /\ HostInv'
  BY NextDomStep, DomStepInv DEF CInv
<1>2. CASE UNCHANGED vars
  <2>1. TypeOK'
    BY <1>2 DEF vars, server, clientVars, TypeOK, CInv
  <2>2. \A c \in Clients : ClientFits(c)' /\ SeenFits(c)'
    BY <1>2 DEF vars, server, clientVars, CInv, ClientFits, SeenFits, HandleFits, ListFits, LeaseFits,
       Justified, OwnerOf, ServersIn
  <2> QED BY <1>1, <2>1, <2>2 DEF CInv
<1>3. CASE Next
  <2>1. TypeOK'
    BY <1>3, TypeStep DEF CInv
  <2>2. ASSUME NEW c \in Clients, Moves(c) PROVE ClientFits(c)' /\ SeenFits(c)'
    <3>1. Read(c) => \/ CheckMetadata(c) \/ ReadSpec(c) \/ ReadState(c) \/ ReadLease(c) \/ Vanished(c)
                     \/ Lookup(c) \/ ListAll(c) \/ Each(c) \/ ListEnds(c) \/ Broken(c)
      BY DEF Read
    <3> QED BY <1>3, <2>2, <3>1, EndsStep, WriteStep, HeldStep, FirstReadStep DEF Moves
  <2>3. ASSUME NEW c \in Clients, Same(c) PROVE ClientFits(c)' /\ SeenFits(c)'
    BY <1>1, <1>3, <2>3, SameStep
  <2>4. \A c \in Clients : ClientFits(c)' /\ SeenFits(c)'
    BY <1>3, <2>2, <2>3, OneMoves DEF CInv
  <2> QED BY <1>1, <2>1, <2>4 DEF CInv
<1> QED BY <1>2, <1>3

\* So it holds always.
LEMMA CInvAlways == Spec => []CInv
BY InitCInv, CInvStep, PTL DEF Spec

\* What the answer of a client says.
LEMMA AnswersAre ==
  ASSUME CInv, NEW c \in Clients, pc[c] = "answered"
  PROVE  /\ req[c] \in Requests
         /\ \E o \in Outcomes : answer[c] = CodeOf(c, o) /\ Justified(c, o)
  BY DEF CInv, ClientFits, SeenFits

\* Every variable has its type.
THEOREM Types == Spec => []TypeOK
BY CInvAlways, PTL DEF CInv

\* The spec and the status in one answer are of one domain.
THEOREM ReadsOneServer == Spec => []OneServerRead
<1>1. ASSUME CInv, NEW c \in Clients, Answered(c, {200, 201, 0}), req[c].verb \notin {"list", "delete"}
      PROVE  Cardinality(read[c]) = 1
  <2>1. PICK o \in Outcomes : answer[c] = CodeOf(c, o) /\ Justified(c, o)
    BY <1>1, AnswersAre DEF Answered
  <2>2. o \in {"ok", "created", "deleted"}
    BY <1>1, <2>1, Codes DEF Answered
  <2>3. \E u \in Uuids : read[c] = {u}
    BY <1>1, <2>1, <2>2 DEF Justified
  <2> QED BY <2>3, FS_Singleton
<1>2. CInv => OneServerRead
  BY <1>1 DEF OneServerRead
<1> QED BY <1>2, CInvAlways, PTL

\* A list has what was there all the time, and nothing that never was a server.
THEOREM ListsAll == Spec => []ListComplete
<1>1. ASSUME CInv, NEW c \in Clients, Answered(c, {200, 0}), req[c].verb = "list"
      PROVE  seen[c].always \subseteq read[c] /\ read[c] \subseteq seen[c].ever
  <2>1. PICK o \in Outcomes : answer[c] = CodeOf(c, o) /\ Justified(c, o)
    BY <1>1, AnswersAre DEF Answered
  <2>2. o \in {"ok", "created", "deleted"}
    BY <1>1, <2>1, Codes DEF Answered
  <2> QED BY <1>1, <2>1, <2>2 DEF Justified
<1>2. CInv => ListComplete
  BY <1>1 DEF ListComplete
<1> QED BY <1>2, CInvAlways, PTL

\* 503 has a cause in the lifetime of the request, and for one that only reads it
\* is none but its connection or the domains it reads.
THEOREM UnavailableExplained == Spec => []UnavailableHasCause
<1>1. ASSUME CInv, NEW c \in Clients, Answered(c, {503, 7})
      PROVE  Justified(c, "unavailable")
  <2>1. PICK o \in Outcomes : answer[c] = CodeOf(c, o) /\ Justified(c, o)
    BY <1>1, AnswersAre DEF Answered
  <2> QED BY <1>1, <2>1, Codes DEF Answered
<1>2. CInv => UnavailableHasCause
  BY <1>1 DEF UnavailableHasCause, Justified
<1> QED BY <1>2, CInvAlways, PTL

\* 404 is never given for a server that was there throughout the request.
THEOREM NotFoundExplained == Spec => []NotFoundHasCause
<1>1. ASSUME CInv, NEW c \in Clients, Answered(c, {404, 3})
      PROVE  Justified(c, "notfound")
  <2>1. PICK o \in Outcomes : answer[c] = CodeOf(c, o) /\ Justified(c, o)
    BY <1>1, AnswersAre DEF Answered
  <2> QED BY <1>1, <2>1, Codes DEF Answered
<1>2. CInv => NotFoundHasCause
  BY <1>1 DEF NotFoundHasCause, Justified
<1> QED BY <1>2, CInvAlways, PTL

\* However often a server is converged, its definition is the one that a new
\* server with the accepted spec would get, unless a convergence was cut short.
THEOREM DefinitionsMatch == Spec => []DefinitionMatchesSpec
<1>1. ASSUME CInv, NEW n \in Names, Managed(dom[n]), torn[n] = {}
      PROVE  dom[n].xml = Built(want[n], n)
  <2>1. Kin(want[n], want[n], n) /\ dom[n].xml = Built(Mixture(want[n], want[n]), n)
    BY <1>1 DEF CInv, HostInv, Agrees, MixtureOf
  <2> QED BY <2>1, MixtureOfOne DEF Kin
<1>2. CInv => DefinitionMatchesSpec
  BY <1>1 DEF DefinitionMatchesSpec
<1> QED BY <1>2, CInvAlways, PTL

\* Whoever asks for the spec a server was made from is never refused.
THEOREM SameYamlIsAccepted == Spec => []SameYamlAccepted
<1>1. ASSUME CInv, NEW c \in Clients, Answered(c, {409, 4, 6}) PROVE ~repeated[c]
  <2>1. PICK o \in Outcomes : answer[c] = CodeOf(c, o) /\ Justified(c, o)
    BY <1>1, AnswersAre DEF Answered
  <2>2. o \in {"conflict", "notrunning", "running"}
    BY <1>1, <2>1, Codes DEF Answered
  <2> QED BY <2>1, <2>2 DEF Justified
<1>2. CInv => SameYamlAccepted
  BY <1>1 DEF SameYamlAccepted
<1> QED BY <1>2, CInvAlways, PTL
===============================================================================
