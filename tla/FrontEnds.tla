------------------------------- MODULE FrontEnds -------------------------------
(***************************************************************************)
(* The REST API and the command line in front of ServerManager: requests,  *)
(* their connections to libvirt, the readers (get, status, list), which    *)
(* hold no lock and make several libvirt calls, and the HTTP status or     *)
(* exit code every outcome becomes.                                        *)
(*                                                                         *)
(* A write takes effect in one step here, or two for create, and then      *)
(* reads the server like get does; when one of its libvirt calls fails it  *)
(* leaves what ServerManager, which has every call, says it may leave.     *)
(* The API has one connection, opened when it starts; every CLI call opens *)
(* its own.  A libvirtd that stops breaks them all.                        *)
(***************************************************************************)
EXTENDS SpecData, FiniteSets

CONSTANTS
    ApiClients,     \* users of the API, with one request at a time
    CliClients,     \* users of the command line
    Names,          \* well-formed VM names
    BadName,        \* a name _NAME_PATTERN does not match
    Inputs,         \* the specs users write, without the name
    StaticNets,     \* networks of NICs with a static address
    Uuids,
    MaxRequests,    \* bound on the requests of a behaviour
    MaxEvents       \* bound on what else happens on the host

AcceptedInputs == {i \in Inputs : WellFormed(i)}

\* What older versions knew.
OldInputs == {i \in AcceptedInputs : DOMAIN i \cap LateFields = {}}

Specs == {Filled(i, n) : i \in AcceptedInputs, n \in Names}

OldSpecs == {StoredBefore(i, n) : i \in OldInputs, n \in Names}

\* The size of s with the filter of t.
Mixture(s, t) == [s EXCEPT !["filters"] = t["filters"]]

Definitions == {Built(Mixture(s, t), n) : s \in Specs, t \in Specs, n \in Names}

\* A domain; one of another tool has no metadata, and its XML does not matter.
Domains == [uuid : Uuids, meta : Specs \cup OldSpecs \cup {None},
            xml : Definitions \cup {None}, active : BOOLEAN]

ASSUME FrontEndsAssumption ==
    /\ ApiClients \cap CliClients = {}
    /\ BadName \notin Names /\ None \notin Names
    /\ MaxRequests \in Nat /\ MaxEvents \in Nat
    /\ LateFields \subseteq Fields \ Required
    /\ None \notin Specs \cup OldSpecs /\ None \notin Domains

VARIABLES
    dom,        \* dom[n]: the domain libvirt knows by the name n, or None
    walls,      \* the names that have an nwfilter
    want,       \* want[n]: the complete spec the server n has accepted, or None
    torn,       \* torn[n]: specs it was given a definition of, and no metadata
    daemon,     \* libvirtd runs
    apiOpen,    \* the connection of the API works
    req,        \* req[c]: the request of client c
    pc,         \* pc[c]: the next step of that request
    live,       \* live[c]: its connection works
    handles,    \* handles[c]: the domains (UUIDs) it still reads from
    read,       \* read[c]: the domains its answer is made of
    result,     \* result[c]: what a write came to before it reads the server, or
                \* "failed": a libvirt call of its own failed or was refused
    answer,     \* answer[c]: HTTP status or exit code
    repeated,   \* repeated[c]: it asked the server to be what it was
    seen,       \* seen[c]: what happened meanwhile to the servers it is about
    begun,      \* the number of requests so far
    events      \* the number of other events so far

Clients == ApiClients \cup CliClients

server == <<dom, walls, want, torn>>
clientVars == <<req, pc, live, handles, read, result, answer, repeated>>
vars == <<server, daemon, apiOpen, clientVars, seen, begun, events>>

\* "get" stands for the status request too, which makes the same calls, "power"
\* for start, stop, restart and reinstall.
Requests == [verb : {"get", "power", "delete"}, name : Names]
            \cup [verb : {"create"}, name : Names \cup {BadName}]
            \cup [verb : {"list"}, name : {None}]

PowerOps == {"start", "stop", "stop --force", "restart", "restart --force", "reinstall"}

Foreign(u) == [uuid |-> u, meta |-> None, xml |-> None, active |-> FALSE]

Managed(d) == d # None /\ d.meta # None

ServersIn(ds, S) == {ds[n].uuid : n \in {m \in S : Managed(ds[m])}}

OwnerOf(u) == {n \in Names : dom[n] # None /\ dom[n].uuid = u}

Fresh == Uuids \ ({dom[n].uuid : n \in {m \in Names : dom[m] # None}}
                  \cup UNION {handles[c] \cup read[c] \cup seen[c].ever : c \in Clients})

NothingSeen == [always |-> {}, ever |-> {}, gone |-> {}, halted |-> {}, cut |-> FALSE]

\* The host as an earlier version left it: servers it made, domains of other
\* tools, or nothing.
Init ==
    /\ \E old \in [Names -> OldInputs],
          made \in SUBSET Names, others \in SUBSET Names, id \in [Names -> Uuids] :
         /\ \A n, m \in Names : id[n] = id[m] => n = m
         /\ dom = [n \in Names |->
                IF n \in made THEN [uuid |-> id[n], meta |-> StoredBefore(old[n], n),
                                   xml |-> Built(Filled(old[n], n), n), active |-> FALSE]
                ELSE IF n \in others THEN Foreign(id[n]) ELSE None]
         /\ want = [n \in Names |-> IF n \in made THEN Filled(old[n], n) ELSE None]
         /\ walls = {n \in made : Filled(old[n], n)["filters"] # None}
    /\ torn = [n \in Names |-> {}]
    /\ daemon = TRUE /\ apiOpen = TRUE
    /\ req = [c \in Clients |-> None]
    /\ pc = [c \in Clients |-> "idle"]
    /\ live = [c \in Clients |-> FALSE]
    /\ handles = [c \in Clients |-> {}] /\ read = [c \in Clients |-> {}]
    /\ result = [c \in Clients |-> "ok"]
    /\ answer = [c \in Clients |-> 0]
    /\ repeated = [c \in Clients |-> FALSE]
    /\ seen = [c \in Clients |-> NothingSeen]
    /\ begun = 0 /\ events = 0

--------------------------------------------------------------------------------
(* Requests and answers.                                                   *)

HttpStatus == [ok |-> 200, created |-> 201, deleted |-> 204, notfound |-> 404,
               conflict |-> 409, notrunning |-> 409, running |-> 409,
               invalid |-> 422, unavailable |-> 503, internal |-> 500]

ExitCode == [ok |-> 0, created |-> 0, deleted |-> 0, notfound |-> 3,
             conflict |-> 4, notrunning |-> 5, running |-> 6,
             invalid |-> 1, unavailable |-> 7, internal |-> 1]

CodeOf(c, o) == IF c \in ApiClients THEN HttpStatus[o] ELSE ExitCode[o]

Goto(c, l) == pc' = [pc EXCEPT ![c] = l] /\ answer' = answer

Answer(c, o) == /\ pc' = [pc EXCEPT ![c] = "answered"]
                /\ answer' = [answer EXCEPT ![c] = CodeOf(c, o)]

FirstStep(r) == CASE r.verb = "list" -> "list"
                  [] r.verb = "get" -> "lookup"
                  [] OTHER -> "act"

\* A write of the API waits for the lock of its name, which no CLI call shares.
LockedOut(c, r) ==
    /\ c \in ApiClients /\ r.verb \notin {"list", "get"}
    /\ \E d \in ApiClients : /\ pc[d] \notin {"idle", "answered"}
                             /\ req[d].name = r.name /\ req[d].verb # "get"

Begin(c, r) == /\ pc[c] = "idle" /\ ~LockedOut(c, r)
               /\ req' = [req EXCEPT ![c] = r]
               /\ live' = [live EXCEPT ![c] = IF c \in ApiClients THEN apiOpen ELSE daemon]
               /\ Goto(c, IF c \in CliClients THEN "open" ELSE FirstStep(r))
               /\ UNCHANGED <<server, daemon, apiOpen, handles, read, result, repeated>>

\* libvirt.open() of a CLI call comes before the spec file is looked at.
Open(c) == /\ pc[c] = "open"
           /\ IF live[c] THEN Goto(c, FirstStep(req[c])) ELSE Answer(c, "unavailable")
           /\ UNCHANGED <<server, daemon, apiOpen, req, live, handles, read, result, repeated>>

Finish(c) == /\ pc[c] = "answered"
             /\ pc' = [pc EXCEPT ![c] = "idle"]
             /\ req' = [req EXCEPT ![c] = None]
             /\ live' = [live EXCEPT ![c] = FALSE]
             /\ handles' = [handles EXCEPT ![c] = {}] /\ read' = [read EXCEPT ![c] = {}]
             /\ result' = [result EXCEPT ![c] = "ok"]
             /\ answer' = [answer EXCEPT ![c] = 0]
             /\ repeated' = [repeated EXCEPT ![c] = FALSE]
             /\ UNCHANGED <<server, daemon, apiOpen>>

--------------------------------------------------------------------------------
(* Writes.                                                                 *)

acting == <<daemon, apiOpen, req, live, handles, read>>

\* The write comes to nothing but an answer.
Reject(c, o) == Answer(c, o) /\ UNCHANGED <<server, result, repeated, acting>>

\* The write is done: the server is read, unless it is gone.
Done(c, o) == /\ IF o = "deleted" THEN Answer(c, o) ELSE Goto(c, "lookup")
              /\ result' = [result EXCEPT ![c] = o]
              /\ UNCHANGED <<repeated, acting>>

\* The body of a PUT is validated before its handler runs, and the name of the
\* path inside it, where nobody catches the error; the CLI catches both.
RejectInput(c) == /\ pc[c] = "act" /\ req[c].verb = "create"
                  /\ \/ \E i \in Inputs : ~WellFormed(i) /\ Reject(c, "invalid")
                     \/ /\ req[c].name \notin Names
                        /\ Reject(c, IF c \in ApiClients THEN "internal" ELSE "invalid")

\* The request has been accepted and makes its first libvirt call.
Acts(c, v) == pc[c] = "act" /\ live[c] /\ req[c].verb = v /\ req[c].name \in Names

\* A call of the write fails or is refused; some have taken effect before it.
Fail(c) == /\ Answer(c, "unavailable")
           /\ result' = [result EXCEPT ![c] = "failed"]
           /\ UNCHANGED acting

\* A filter whose XML has no UUID is not defined over one that is there.
Clashes(s, n) == s["filters"] # None /\ n \in walls

\* teardown of the name, whoever the domain belongs to.
TornDown(n) == /\ dom' = [dom EXCEPT ![n] = None] /\ want' = [want EXCEPT ![n] = None]
               /\ torn' = [torn EXCEPT ![n] = {}] /\ walls' = walls \ {n}

\* One that fails after destroy, or after undefine.
PartlyTornDown(n) ==
    \/ /\ dom[n] # None /\ dom' = [dom EXCEPT ![n].active = FALSE]
       /\ UNCHANGED <<walls, want, torn>>
    \/ /\ dom' = [dom EXCEPT ![n] = None] /\ want' = [want EXCEPT ![n] = None]
       /\ torn' = [torn EXCEPT ![n] = {}] /\ UNCHANGED walls

\* create finds the name free, and does not look again.
FindFree(c) == /\ Acts(c, "create") /\ dom[req[c].name] = None
               /\ Goto(c, "make") /\ UNCHANGED <<server, result, repeated, acting>>

Makes(c) == pc[c] = "make" /\ live[c]

\* defineXML and setMetadata, when the name is still free.
Made(n, u, i, on) ==
    /\ dom' = [dom EXCEPT ![n] = [uuid |-> u, meta |-> ToStore(i, n),
                                  xml |-> Built(Filled(i, n), n), active |-> on]]
    /\ want' = [want EXCEPT ![n] = Filled(i, n)]

Walled(i, n) == IF Filled(i, n)["filters"] = None THEN walls ELSE walls \cup {n}

\* The filter or the domain is refused when there is one by now: whatever has
\* the name is torn down.
Create(c) == LET n == req[c].name IN
    /\ Makes(c)
    /\ \E i \in AcceptedInputs :
         IF dom[n] # None \/ Clashes(Filled(i, n), n)
         THEN TornDown(n) /\ Fail(c) /\ UNCHANGED repeated
         ELSE /\ \E u \in Fresh : Made(n, u, i, TRUE)
              /\ walls' = Walled(i, n) /\ UNCHANGED torn
              /\ Done(c, "created")

\* An error that no libvirt call raises: a malformed --startup-param; no seed,
\* for lack of a secret the startup script needs, or because cloud-localds or
\* the key file fails, for which the API has no handler.
LocalError(c) ==
    \/ /\ c \in CliClients /\ pc[c] = "act" /\ req[c].verb \in {"create", "power"}
       /\ Reject(c, "invalid")
    \/ \E o \in {"invalid", "internal"} :
         \/ Acts(c, "power") /\ Managed(dom[req[c].name]) /\ Reject(c, o)
         \/ /\ Makes(c) /\ TornDown(req[c].name)
            /\ Answer(c, o) /\ UNCHANGED <<result, repeated, acting>>

\* What _converge does to the domain and the filter.
Redefined(d, n, s) == Converged(d.xml, Completed(d.meta, n), s, n)

Rewalled(changed, i, n) == IF "filters" \notin changed THEN walls
                           ELSE IF Filled(i, n)["filters"] = None THEN walls \ {n}
                           ELSE walls \cup {n}

\* With it done, and _write_spec.
Converge(n, i) == LET s == Filled(i, n) IN
    /\ dom' = [dom EXCEPT ![n].xml = Redefined(dom[n], n, s), ![n].meta = ToStore(i, n)]
    /\ walls' = Rewalled(Differing(Completed(dom[n].meta, n), s), i, n)
    /\ want' = [want EXCEPT ![n] = s]
    /\ torn' = [torn EXCEPT ![n] = IF @ \subseteq {s} THEN {} ELSE @]

\* Cut short: before or after the filter is there, after defineXML, or before
\* _write_spec.
ConvergeInPart(n, i) ==
    LET s == Filled(i, n)
        rewalled == Rewalled(Differing(Completed(dom[n].meta, n), s), i, n) IN
    /\ UNCHANGED want
    /\ \/ walls' \in {walls, walls \cup rewalled} /\ UNCHANGED <<dom, torn>>
       \/ /\ walls' \in {walls \cup rewalled, rewalled}
          /\ dom' = [dom EXCEPT ![n].xml = Redefined(dom[n], n, s)]
          /\ torn' = [torn EXCEPT ![n] = @ \cup {s}]

Convergeable(d, n, i) == LET changed == Differing(Completed(d.meta, n), Filled(i, n)) IN
    Managed(d) /\ changed \subseteq Mutable /\ changed # {} /\ ~d.active

\* _converge is refused the filter.
Unwallable(d, n, i) == LET s == Filled(i, n) IN
    "filters" \in Differing(Completed(d.meta, n), s) /\ Clashes(s, n)

\* create on a name that is taken: a refusal, nothing to do, or a convergence.
CreateAgain(c) == LET n == req[c].name  d == dom[n] IN
    /\ Acts(c, "create") /\ d # None
    /\ \E i \in AcceptedInputs :
         LET s == Filled(i, n)
             changed == Differing(Completed(d.meta, n), s)
             refused(o) == Answer(c, o) /\ UNCHANGED <<server, result>> IN
         /\ repeated' = [repeated EXCEPT ![c] = s = want[n]]
         /\ \/ ~Managed(d) /\ refused("conflict")
            \/ Managed(d) /\ ~(changed \subseteq Mutable) /\ refused("conflict")
            \/ Managed(d) /\ changed \subseteq Mutable /\ changed # {} /\ d.active /\ refused("running")
            \/ Managed(d) /\ changed = {} /\ Goto(c, "lookup") /\ UNCHANGED <<server, result>>
            \/ Convergeable(d, n, i) /\ Unwallable(d, n, i) /\ Fail(c) /\ UNCHANGED server
            \/ /\ Convergeable(d, n, i) /\ ~Unwallable(d, n, i)
               /\ Goto(c, "lookup") /\ UNCHANGED result /\ Converge(n, i)
    /\ UNCHANGED acting

Missing(c) == /\ Acts(c, "power") \/ Acts(c, "delete")
              /\ ~Managed(dom[req[c].name])
              /\ Reject(c, "notfound")

\* The power of a server after a power operation; without --force the guest is
\* asked, and answers when it likes.
PowerAfter(v, on) == CASE v \in {"start", "restart --force", "reinstall"} -> TRUE
                       [] v = "stop --force" -> FALSE
                       [] v \in {"stop", "restart"} -> on

Power(c) == LET n == req[c].name IN
    /\ Acts(c, "power") /\ Managed(dom[n])
    /\ \E v \in PowerOps :
         \/ v = "restart" /\ ~dom[n].active /\ Reject(c, "notrunning")
         \/ /\ v = "restart" => dom[n].active
            /\ dom' = [dom EXCEPT ![n].active = PowerAfter(v, @)]
            /\ Done(c, "ok") /\ UNCHANGED <<walls, want, torn>>

Delete(c) == /\ Acts(c, "delete") /\ Managed(dom[req[c].name])
             /\ TornDown(req[c].name) /\ Done(c, "deleted")

Write(c) == \/ RejectInput(c) \/ LocalError(c) \/ FindFree(c) \/ Create(c) \/ CreateAgain(c)
            \/ Missing(c) \/ Power(c) \/ Delete(c)

--------------------------------------------------------------------------------
(* Writes a libvirt call of which fails: an image or a network is missing, *)
(* the guest cannot be destroyed, the disk is full.                        *)

\* create tears down; when that fails too it may leave a filter, a domain
\* without metadata, or a server that does not run.
CreateFails(c) == LET n == req[c].name IN
    /\ Makes(c)
    /\ \/ TornDown(n)
       \/ dom[n] # None /\ PartlyTornDown(n)
       \/ /\ dom[n] = None /\ UNCHANGED torn
          /\ \E i \in AcceptedInputs :
               /\ walls' = Walled(i, n)
               /\ \/ UNCHANGED <<dom, want>>
                  \/ /\ ~Clashes(Filled(i, n), n)
                     /\ \E u \in Fresh :
                          \/ Made(n, u, i, FALSE)
                          \/ /\ dom' = [dom EXCEPT ![n] = [uuid |-> u, meta |-> None,
                                                xml |-> Built(Filled(i, n), n), active |-> FALSE]]
                             /\ UNCHANGED want

ConvergeFails(c) == LET n == req[c].name IN
    /\ Acts(c, "create")
    /\ \E i \in AcceptedInputs :
         /\ Convergeable(dom[n], n, i) /\ ~Unwallable(dom[n], n, i)
         /\ ConvergeInPart(n, i)

\* restart --force and reinstall have destroyed the guest, or not.
PowerFails(c) == LET n == req[c].name IN
    /\ Acts(c, "power") /\ Managed(dom[n])
    /\ dom' \in {dom, [dom EXCEPT ![n].active = FALSE]}
    /\ UNCHANGED <<walls, want, torn>>

DeleteFails(c) == LET n == req[c].name IN
    /\ Acts(c, "delete") /\ Managed(dom[n])
    /\ UNCHANGED server \/ PartlyTornDown(n)

WriteFails(c) == /\ CreateFails(c) \/ ConvergeFails(c) \/ PowerFails(c) \/ DeleteFails(c)
                 /\ Fail(c) /\ UNCHANGED repeated

--------------------------------------------------------------------------------
(* Reads.  A handle finds its domain by UUID, whatever its name is now.    *)

reading == <<server, daemon, apiOpen, req, live, result, repeated>>

\* Every error of a lookup counts as a server that is not there.
NotThere(c) == IF pc[c] = "lookup" THEN "notfound" ELSE "unavailable"

\* libvirtError, whatever its code.
HostError(c) == "unavailable"

\* A call on a broken connection.
Broken(c) == /\ pc[c] \in {"act", "make", "lookup", "managed", "spec", "state", "lease", "list", "each"}
             /\ ~live[c]
             /\ pc[c] = "act" => req[c].name \in Names
             /\ Answer(c, HostError(c))
             /\ UNCHANGED <<handles, read, reading>>

\* lookupByName raises VIR_ERR_NO_DOMAIN, and nobody translates it.
UnknownNameRaises == "unavailable"

UnknownName == "notfound"

Lookup(c) == LET d == dom[req[c].name] IN
    /\ pc[c] = "lookup" /\ live[c]
    /\ IF d = None THEN Answer(c, UnknownName) /\ handles' = handles
       ELSE Goto(c, "managed") /\ handles' = [handles EXCEPT ![c] = {d.uuid}]
    /\ UNCHANGED <<read, reading>>

\* The domain is looked up again for every call.
DomainNow(c) == {n \in Names : handles[c] # {} /\ n = req[c].name /\ dom[n] # None}

DomainOf(c) == UNION {OwnerOf(u) : u \in handles[c]}

\* A call on the handle that get or status holds.
Ask(c, l) == pc[c] = l /\ live[c]

Vanished(c) == /\ pc[c] \in {"managed", "spec", "state", "lease"} /\ live[c]
               /\ DomainOf(c) = {}
               /\ Answer(c, HostError(c))
               /\ UNCHANGED <<handles, read, reading>>

CheckMetadata(c) == \E n \in DomainOf(c) :
    /\ Ask(c, "managed")
    /\ IF Managed(dom[n]) THEN Goto(c, "spec") ELSE Answer(c, "notfound")
    /\ UNCHANGED <<handles, read, reading>>

ReadFrom(c, n) == read' = [read EXCEPT ![c] = @ \cup {dom[n].uuid}]

ReadSpec(c) == \E n \in DomainOf(c) :
    /\ Ask(c, "spec")
    /\ Goto(c, "state") /\ ReadFrom(c, n)
    /\ UNCHANGED <<handles, reading>>

HasStaticIp(s) == \E i \in DOMAIN s["networks"] : s["networks"][i] \in StaticNets

\* A running server without a static address is looked for in the leases.
ReadState(c) == \E n \in DomainOf(c) :
    /\ Ask(c, "state")
    /\ ReadFrom(c, n)
    /\ IF dom[n].active /\ ~HasStaticIp(dom[n].meta) THEN Goto(c, "lease")
       ELSE Answer(c, result[c])
    /\ UNCHANGED <<handles, reading>>

\* libvirt has no leases of a domain that does not run any more.
ReadLease(c) == \E n \in DomainOf(c) :
    /\ Ask(c, "lease")
    /\ Answer(c, IF dom[n].active THEN result[c] ELSE HostError(c))
    /\ UNCHANGED <<handles, read, reading>>

ListAll(c) == /\ pc[c] = "list" /\ live[c]
              /\ handles' = [handles EXCEPT ![c] = {dom[n].uuid : n \in {m \in Names : dom[m] # None}}]
              /\ Goto(c, "each")
              /\ UNCHANGED <<read, reading>>

AnyDomain(d) == TRUE

IsManaged(d) == Managed(d)

\* _is_managed of the next domain, in the order libvirt listed them; one that
\* is gone ends the whole list.
Each(c) == \E u \in handles[c] :
    /\ pc[c] = "each" /\ live[c]
    /\ handles' = [handles EXCEPT ![c] = @ \ {u}]
    /\ IF OwnerOf(u) = {} THEN Answer(c, HostError(c)) /\ read' = read
       ELSE \E n \in OwnerOf(u) :
              /\ Goto(c, "each")
              /\ IF IsManaged(dom[n]) THEN ReadFrom(c, n) ELSE read' = read
    /\ UNCHANGED reading

ListEnds(c) == /\ pc[c] = "each" /\ live[c] /\ handles[c] = {}
               /\ Answer(c, "ok")
               /\ UNCHANGED <<handles, read, reading>>

Read(c) == \/ Lookup(c) \/ CheckMetadata(c) \/ ReadSpec(c) \/ ReadState(c) \/ ReadLease(c)
           \/ Vanished(c) \/ ListAll(c) \/ Each(c) \/ ListEnds(c) \/ Broken(c)

--------------------------------------------------------------------------------
(* The host.                                                               *)

GuestHalt(n) == /\ dom[n] # None /\ dom[n].active
                /\ dom' = [dom EXCEPT ![n].active = FALSE]
                /\ UNCHANGED <<walls, want, torn, daemon, apiOpen, clientVars>>

\* Another tool defines a domain of its own, or removes one.
OtherTool(n) == /\ \/ /\ dom[n] = None
                      /\ \E u \in Fresh : dom' = [dom EXCEPT ![n] = Foreign(u)]
                   \/ dom[n] # None /\ ~Managed(dom[n]) /\ dom' = [dom EXCEPT ![n] = None]
                /\ UNCHANGED <<walls, want, torn, daemon, apiOpen, clientVars>>

StopLibvirtd == /\ daemon
                /\ daemon' = FALSE /\ apiOpen' = FALSE
                /\ live' = [c \in Clients |-> FALSE]
                /\ UNCHANGED <<server, req, pc, handles, read, result, answer, repeated>>

StartLibvirtd == /\ ~daemon
                 /\ daemon' = TRUE
                 /\ UNCHANGED <<server, apiOpen, clientVars>>

\* The API is restarted between requests, the only way to a new connection.
RestartApi == /\ daemon /\ ~apiOpen
              /\ \A c \in ApiClients : pc[c] = "idle"
              /\ apiOpen' = TRUE
              /\ UNCHANGED <<server, daemon, clientVars>>

About(r) == IF r.verb = "list" THEN Names ELSE {r.name} \cap Names

\* What a request sees of the host from its first state to its last.
Observe == seen' = [c \in Clients |->
    IF pc'[c] = "idle" THEN NothingSeen
    ELSE LET S == About(req'[c])
             now == ServersIn(dom', S)
             was == IF pc[c] = "idle" THEN [NothingSeen EXCEPT !.always = now] ELSE seen[c]
             lost == {n \in S : dom[n] # None /\ (dom'[n] # None => dom[n].active /\ ~dom'[n].active)} IN
         [always |-> was.always \cap now, ever |-> was.ever \cup now,
          gone |-> was.gone \cup {n \in lost : dom'[n] = None},
          halted |-> was.halted \cup {n \in lost : dom'[n] # None},
          cut |-> was.cut \/ ~live'[c]]]

Event == \/ \E n \in Names : GuestHalt(n) \/ OtherTool(n)
         \/ \E c \in Clients : WriteFails(c)
         \/ StopLibvirtd

\* Nothing else happens while an answer is there to be read: nobody can tell.
Step == \/ \E c \in Clients : Finish(c) /\ UNCHANGED <<begun, events>>
        \/ /\ \A c \in Clients : pc[c] # "answered"
           /\ \/ \E c \in Clients, r \in Requests :
                   Begin(c, r) /\ begun < MaxRequests /\ begun' = begun + 1 /\ UNCHANGED events
              \/ /\ \/ \E c \in Clients : Open(c) \/ Write(c) \/ Read(c)
                    \/ StartLibvirtd \/ RestartApi
                 /\ UNCHANGED <<begun, events>>
              \/ Event /\ events < MaxEvents /\ events' = events + 1 /\ UNCHANGED begun

Next == Step /\ Observe

Spec == Init /\ [][Next]_vars

--------------------------------------------------------------------------------
(* Properties.                                                             *)

Answered(c, codes) == pc[c] = "answered" /\ answer[c] \in codes

\* The type of every variable: metadata and definitions are whole.
TypeOK ==
    /\ dom \in [Names -> Domains \cup {None}]
    /\ want \in [Names -> Specs \cup {None}]
    /\ walls \subseteq Names /\ torn \in [Names -> SUBSET Specs]
    /\ daemon \in BOOLEAN /\ apiOpen \in BOOLEAN /\ (apiOpen => daemon)
    /\ req \in [Clients -> Requests \cup {None}]
    /\ pc \in [Clients -> {"idle", "open", "act", "make", "lookup", "managed", "spec",
                           "state", "lease", "list", "each", "answered"}]
    /\ live \in [Clients -> BOOLEAN]
    /\ handles \in [Clients -> SUBSET Uuids] /\ read \in [Clients -> SUBSET Uuids]
    /\ result \in [Clients -> {"ok", "created", "deleted", "failed"}]
    /\ answer \in [Clients -> 0 .. 503]
    /\ repeated \in [Clients -> BOOLEAN]
    /\ seen \in [Clients -> [always : SUBSET Uuids, ever : SUBSET Uuids,
                            gone : SUBSET Names, halted : SUBSET Names, cut : BOOLEAN]]
    /\ begun \in 0 .. MaxRequests /\ events \in 0 .. MaxEvents

\* The spec and the status in one answer are of one domain, also when the name
\* is deleted and given to a new server between the calls.
OneServerRead ==
    \A c \in Clients : Answered(c, {200, 201, 0}) /\ req[c].verb \notin {"list", "delete"} =>
        Cardinality(read[c]) = 1

\* A list has every server that was there all the time, and nothing that never
\* was a server, whatever is created and deleted while it goes on.
ListComplete ==
    \A c \in Clients : Answered(c, {200, 0}) /\ req[c].verb = "list" =>
        seen[c].always \subseteq read[c] /\ read[c] \subseteq seen[c].ever

\* 503 or exit code 7 has a cause in the lifetime of the request: its connection
\* broke, or a domain it reads vanished, or powered off before its lease was
\* read, or it is a write and one of the calls that change the host failed or was
\* refused.  Nothing else does it to a get, a status or a list.
UnavailableHasCause ==
    \A c \in Clients : Answered(c, {503, 7}) =>
        \/ seen[c].cut
        \/ req[c].verb = "list" /\ seen[c].gone # {}
        \/ req[c].verb # "list" /\ req[c].name \in seen[c].gone \cup seen[c].halted
        \/ req[c].verb \in {"create", "power", "delete"} /\ result[c] = "failed"

\* 404 or exit code 3 is never given for a server that was there throughout the
\* request, in particular not because libvirtd is down.
NotFoundHasCause ==
    \A c \in Clients : Answered(c, {404, 3}) =>
        LET d == dom[req[c].name] IN ~(Managed(d) /\ d.uuid \in seen[c].always)

\* However often a server was converged, and whatever version made it, its
\* definition is the one a new server with the accepted spec would get, unless a
\* convergence stopped between defineXML and _write_spec and the next one that
\* succeeded was to another spec.
DefinitionMatchesSpec ==
    \A n \in Names : Managed(dom[n]) /\ torn[n] = {} => dom[n].xml = Built(want[n], n)

\* Whoever asks for the spec a server was made from is never refused, also when
\* its metadata lacks the fields a later version added.
SameYamlAccepted ==
    \A c \in Clients : repeated[c] => ~Answered(c, {409, 4, 6})
================================================================================
