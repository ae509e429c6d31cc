-------------------------------- MODULE Exporter --------------------------------
(***************************************************************************)
(* exporter.DomainCollector: every scrape of Prometheus is a call of       *)
(* collect() on a thread of its own, and all of them share self._mgr, a    *)
(* manager with an open libvirt connection that is made on demand and      *)
(* dropped when a call fails.  Nothing locks self._mgr, so each of its     *)
(* reads and writes is a step.  libvirtd stops and comes back, which       *)
(* breaks every connection; meanwhile the API and the CLI define, mark and *)
(* undefine domains.                                                       *)
(*                                                                         *)
(* A domain stands for one UUID: a server deleted and created again is     *)
(* another domain, and handles on the old one find nothing.                *)
(***************************************************************************)
EXTENDS Naturals, FiniteSets

CONSTANTS Scrapers,   \* threads of the HTTP server
          Conns,      \* libvirt connection objects
          Doms,       \* domains
          MaxStops,   \* how often libvirtd stops
          None        \* no connection, no domain

ASSUME ExporterAssumption == MaxStops \in Nat /\ None \notin Conns \cup Doms

VARIABLES
    up,         \* libvirtd answers
    stops,      \* how often it stopped
    status,     \* status[d]: absent, bare (without spec metadata) or managed
    usable,     \* connections of this libvirtd that are open
    closed,     \* connections of this libvirtd that were closed
    mgr,        \* self._mgr, as the connection of the manager, or None
    pc,         \* what each scrape does next, or how it ended
    conn,       \* conn[s]: the connection whose statistics s reads, or None
    left,       \* left[s]: handles of all_stats the loop has yet to visit
    asking,     \* asking[s]: the handle passed to is_managed, or None
    reported,   \* reported[s]: the domains with metrics in the response
    marked,     \* history: the managed domains when s got its statistics
    overlap     \* history: overlap[s] when another scrape ran at the same time

hostVars == <<up, stops, status>>
localVars == <<conn, left, asking, reported, marked>>
vars == <<hostVars, usable, closed, mgr, pc, localVars, overlap>>

Ended == {"ok", "failed", "raised"}
Active == {"check", "open", "read", "stats", "loop", "ask", "drop", "close", "clear"}

Running(s) == pc[s] \in Active

\* The connections some scrape other than s refers to: Python closes a connection
\* with its last reference.
HeldByOthers(s) == {conn[t] : t \in Scrapers \ {s}}
Unreferenced(s) == Conns \ (HeldByOthers(s) \cup {mgr})

Managed == {d \in Doms : status[d] = "managed"}

Init == /\ up = TRUE
        /\ stops = 0
        /\ status = [d \in Doms |-> "absent"]
        /\ usable = {}
        /\ closed = {}
        /\ mgr = None
        /\ pc = [s \in Scrapers |-> "idle"]
        /\ conn = [s \in Scrapers |-> None]
        /\ left = [s \in Scrapers |-> {}]
        /\ asking = [s \in Scrapers |-> None]
        /\ reported = [s \in Scrapers |-> {}]
        /\ marked = [s \in Scrapers |-> {}]
        /\ overlap = [s \in Scrapers |-> FALSE]

Goto(s, from, to) == pc[s] = from /\ pc' = [pc EXCEPT ![s] = to]

\* A call through connection c is answered: an open connection answers, a broken
\* one raises, and one that was closed while handles still refer to it may do
\* either.
Answers(c) == c \in usable \cup closed
Raises(c) == c \notin usable

--------------------------------------------------------------------------------
(* One scrape. *)

Scrape(s) ==
    /\ Goto(s, "idle", "check")
    /\ overlap' = [t \in Scrapers |->
                     IF t = s THEN \E o \in Scrapers : Running(o)
                              ELSE overlap[t] \/ Running(t)]
    /\ UNCHANGED <<hostVars, usable, closed, mgr, localVars>>

\* if self._mgr is None
CheckManager(s) ==
    /\ \/ mgr # None /\ Goto(s, "check", "read")
       \/ mgr = None /\ Goto(s, "check", "open")
    /\ UNCHANGED <<hostVars, usable, closed, mgr, localVars, overlap>>

\* self._mgr = self._manager_factory(), which may replace a manager another scrape
\* put there since.
Connect(s) ==
    /\ up
    /\ Goto(s, "open", "read")
    /\ Unreferenced(s) # {}
    /\ mgr' = CHOOSE c \in Unreferenced(s) : TRUE
    /\ usable' = (usable \cap HeldByOthers(s)) \cup {mgr'}
    /\ closed' = closed \cap HeldByOthers(s)
    /\ UNCHANGED <<hostVars, localVars, overlap>>

ConnectFails(s) ==
    /\ ~up
    /\ Goto(s, "open", "drop")
    /\ UNCHANGED <<hostVars, usable, closed, mgr, localVars, overlap>>

\* self._mgr.conn: an AttributeError if self._mgr is None by now.
ReadManager(s) ==
    /\ \/ mgr # None /\ Goto(s, "read", "stats")
       \/ mgr = None /\ Goto(s, "read", "raised")
    /\ conn' = [conn EXCEPT ![s] = mgr]
    /\ UNCHANGED <<hostVars, usable, closed, mgr, left, asking, reported, marked, overlap>>

\* getAllDomainStats() hands out a handle of every domain.
GetStats(s) ==
    /\ Answers(conn[s])
    /\ Goto(s, "stats", "loop")
    /\ left' = [left EXCEPT ![s] = {d \in Doms : status[d] # "absent"}]
    /\ marked' = [marked EXCEPT ![s] = Managed]
    /\ UNCHANGED <<hostVars, usable, closed, mgr, conn, asking, reported, overlap>>

GetStatsFails(s) ==
    /\ Raises(conn[s])
    /\ Goto(s, "stats", "drop")
    /\ conn' = [conn EXCEPT ![s] = None]
    /\ UNCHANGED <<hostVars, usable, closed, mgr, left, asking, reported, marked, overlap>>

\* _drop_manager without its test of self._mgr.
DropUnchecked(s) ==
    /\ Goto(s, "drop", "close")
    /\ UNCHANGED <<hostVars, usable, closed, mgr, localVars, overlap>>

\* _drop_manager: if self._mgr is not None
Drop(s) ==
    /\ \/ mgr # None /\ Goto(s, "drop", "close")
       \/ mgr = None /\ Goto(s, "drop", "failed")
    /\ UNCHANGED <<hostVars, usable, closed, mgr, localVars, overlap>>

\* self._mgr.conn.close(), whatever self._mgr is by now; a libvirtError is
\* ignored, the AttributeError of None is not.
Close(s) ==
    /\ \/ mgr # None /\ Goto(s, "close", "clear")
       \/ mgr = None /\ Goto(s, "close", "raised")
    /\ usable' = usable \ {mgr}
    /\ closed' = closed \cup (usable \cap {mgr})
    /\ UNCHANGED <<hostVars, mgr, localVars, overlap>>

\* The manager stays although its connection is closed.
KeepManager(s) ==
    /\ Goto(s, "clear", "failed")
    /\ UNCHANGED <<hostVars, usable, closed, mgr, localVars, overlap>>

\* self._mgr = None, and the response is scrape_success 0 alone.
Clear(s) ==
    /\ Goto(s, "clear", "failed")
    /\ mgr' = None
    /\ usable' = usable \cap HeldByOthers(s)
    /\ closed' = closed \cap HeldByOthers(s)
    /\ UNCHANGED <<hostVars, localVars, overlap>>

\* The whole list goes to is_managed.
VisitAll(s) ==
    /\ left[s] # {}
    /\ mgr # None /\ Goto(s, "loop", "ask")
    /\ asking' = [asking EXCEPT ![s] = left[s]]
    /\ UNCHANGED <<hostVars, usable, closed, mgr, conn, left, reported, marked, overlap>>

\* The loop takes the next handle and reads self._mgr.is_managed.
Visit(s) ==
    /\ \E d \in left[s] :
         \/ /\ mgr # None /\ Goto(s, "loop", "ask")
            /\ asking' = [asking EXCEPT ![s] = d]
            /\ left' = [left EXCEPT ![s] = @ \ {d}]
         \/ /\ mgr = None /\ Goto(s, "loop", "raised")
            /\ UNCHANGED <<asking, left>>
    /\ UNCHANGED <<hostVars, usable, closed, mgr, conn, reported, marked, overlap>>

\* Any domain that has metadata to ask for, also if it is not ours.
HasAnyMetadata(d) == status[d] # "absent"

\* What is_managed answers of a domain that exists.
IsManaged(d) == status[d] = "managed"

\* is_managed(dom) and dom.name() end: the domain is managed and gets its metrics.
Report(s) ==
    /\ Goto(s, "ask", "loop")
    /\ Answers(conn[s]) /\ IsManaged(asking[s])
    /\ reported' = [reported EXCEPT ![s] = @ \cup {asking[s]}]
    /\ asking' = [asking EXCEPT ![s] = None]
    /\ UNCHANGED <<hostVars, usable, closed, mgr, conn, left, marked, overlap>>

\* A domain that is gone ends the loop.
BreakOff(s) ==
    /\ Goto(s, "ask", "loop")
    /\ Raises(conn[s]) \/ ~IsManaged(asking[s])
    /\ left' = [left EXCEPT ![s] = {}]
    /\ asking' = [asking EXCEPT ![s] = None]
    /\ UNCHANGED <<hostVars, usable, closed, mgr, conn, reported, marked, overlap>>

\* It is not managed, or a call raised libvirtError because the domain is gone or
\* for any other reason: both continue with the next one.
Skip(s) ==
    /\ Goto(s, "ask", "loop")
    /\ Raises(conn[s]) \/ ~IsManaged(asking[s])
    /\ asking' = [asking EXCEPT ![s] = None]
    /\ UNCHANGED <<hostVars, usable, closed, mgr, conn, left, reported, marked, overlap>>

\* The response is scrape_success 1 and the metrics.
Succeed(s) ==
    /\ left[s] = {}
    /\ Goto(s, "loop", "ok")
    /\ UNCHANGED <<hostVars, usable, closed, mgr, localVars, overlap>>

\* The response is sent and the thread forgets its locals.
Respond(s) ==
    /\ pc[s] \in Ended
    /\ pc' = [pc EXCEPT ![s] = "idle"]
    /\ conn' = [conn EXCEPT ![s] = None]
    /\ left' = [left EXCEPT ![s] = {}]
    /\ asking' = [asking EXCEPT ![s] = None]
    /\ reported' = [reported EXCEPT ![s] = {}]
    /\ marked' = [marked EXCEPT ![s] = {}]
    /\ overlap' = [overlap EXCEPT ![s] = FALSE]
    /\ usable' = usable \cap (HeldByOthers(s) \cup {mgr})
    /\ closed' = closed \cap (HeldByOthers(s) \cup {mgr})
    /\ UNCHANGED <<hostVars, mgr>>

Step(s) == \/ CheckManager(s) \/ Connect(s) \/ ConnectFails(s) \/ ReadManager(s)
           \/ GetStats(s) \/ GetStatsFails(s)
           \/ Drop(s) \/ Close(s) \/ Clear(s)
           \/ Visit(s) \/ Report(s) \/ Skip(s) \/ Succeed(s) \/ Respond(s)

--------------------------------------------------------------------------------
(* The host. *)

\* defineXML of a new domain; no handle refers to it yet.
Define(d) ==
    /\ up
    /\ status[d] = "absent"
    /\ \A s \in Scrapers : d \notin left[s] \cup reported[s] \cup marked[s] \cup {asking[s]}
    /\ status' = [status EXCEPT ![d] = "bare"]
    /\ UNCHANGED <<up, stops, usable, closed, mgr, pc, localVars, overlap>>

\* setMetadata makes it a server of the platform.
Mark(d) ==
    /\ up
    /\ status[d] = "bare"
    /\ status' = [status EXCEPT ![d] = "managed"]
    /\ UNCHANGED <<up, stops, usable, closed, mgr, pc, localVars, overlap>>

Undefine(d) ==
    /\ up
    /\ status[d] # "absent"
    /\ status' = [status EXCEPT ![d] = "absent"]
    /\ UNCHANGED <<up, stops, usable, closed, mgr, pc, localVars, overlap>>

\* libvirtd stops: domains stay, connections are broken for good.
StopLibvirtd ==
    /\ up
    /\ stops < MaxStops
    /\ up' = FALSE
    /\ stops' = stops + 1
    /\ usable' = {}
    /\ closed' = {}
    /\ UNCHANGED <<status, mgr, pc, localVars, overlap>>

StartLibvirtd ==
    /\ ~up
    /\ up' = TRUE
    /\ UNCHANGED <<stops, status, usable, closed, mgr, pc, localVars, overlap>>

Next == \/ \E s \in Scrapers : Scrape(s) \/ Step(s)
        \/ \E d \in Doms : Define(d) \/ Mark(d) \/ Undefine(d)
        \/ StopLibvirtd \/ StartLibvirtd

Spec == Init /\ [][Next]_vars

\* Threads go on and Prometheus keeps scraping; nothing is said of libvirtd.
FairSpec == /\ Spec
            /\ \A s \in Scrapers : WF_vars(Step(s))
            /\ WF_vars(\E s \in Scrapers : Scrape(s))

--------------------------------------------------------------------------------
(* Properties. *)

\* The type invariant: connections, handles and program counters are of their kind.
TypeOK ==
    /\ up \in BOOLEAN
    /\ stops \in 0..MaxStops
    /\ status \in [Doms -> {"absent", "bare", "managed"}]
    /\ usable \subseteq Conns
    /\ closed \subseteq Conns
    /\ mgr \in Conns \cup {None}
    /\ pc \in [Scrapers -> {"idle"} \cup Active \cup Ended]
    /\ conn \in [Scrapers -> Conns \cup {None}]
    /\ left \in [Scrapers -> SUBSET Doms]
    /\ asking \in [Scrapers -> Doms \cup {None}]
    /\ reported \in [Scrapers -> SUBSET Doms]
    /\ marked \in [Scrapers -> SUBSET Doms]
    /\ overlap \in [Scrapers -> BOOLEAN]

\* A scrape that ran while no other did ends with a response, whatever libvirtd
\* does: only a concurrent _drop_manager takes self._mgr away under its feet.
AloneNeverRaises == \A s \in Scrapers : pc[s] = "raised" => overlap[s]

\* If the connection of a scrape lasted, its response has every server that was
\* managed from the statistics to the end, however many domains vanish, appear
\* or get dropped managers meanwhile.
CompleteWhenConnected ==
    \A s \in Scrapers :
        pc[s] = "ok" /\ conn[s] \in usable => marked[s] \cap Managed \subseteq reported[s]

\* No response has a domain that is there without being managed: domains of other
\* tools, and servers create has not written the spec of.
ReportedOnlyManaged ==
    \A s \in Scrapers : \A d \in reported[s] : status[d] # "bare"

\* collect() reconnects by itself: once libvirtd stays up and scrapes no longer
\* overlap, scrapes succeed again and again.
Recovers ==
    <>[]up /\ <>[](\A s \in Scrapers : \A t \in Scrapers \ {s} : ~(Running(s) /\ Running(t)))
        => []<>(\E s \in Scrapers : pc[s] = "ok")

\* The docstring of collect: a failure to talk to libvirt does not propagate.
\* With two threads it does, as the AttributeError of a manager another scrape
\* dropped.
NeverRaises == \A s \in Scrapers : pc[s] # "raised"

\* The same docstring: if libvirt cannot be reached, scrape_success is 0.  A
\* libvirtd that stops in the loop makes every remaining server be skipped, and
\* the scrape succeed.
SuccessIsComplete ==
    \A s \in Scrapers : pc[s] = "ok" => marked[s] \cap Managed \subseteq reported[s]
================================================================================
