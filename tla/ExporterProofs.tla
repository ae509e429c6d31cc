----------------------------- MODULE ExporterProofs -----------------------------
(***************************************************************************)
(* Proofs about Exporter for any set of scrapes, connections and domains   *)
(* and any number of stops of libvirtd.                                    *)
(***************************************************************************)
EXTENDS Exporter, TLAPS

\* While a scrape runs alone, no other is under way.
AloneInv == \A s \in Scrapers : Running(s) /\ ~overlap[s] =>
                \A t \in Scrapers \ {s} : ~Running(t)

\* A scrape that runs alone finds the manager it saw or made.
ManagerInv == \A s \in Scrapers :
    pc[s] \in {"read", "stats", "loop", "ask", "close"} /\ ~overlap[s] => mgr # None

\* A domain in a response, or managed when the statistics were taken, is never
\* defined again while the scrape lasts.
SeenInv == \A s \in Scrapers : \A d \in reported[s] \cup marked[s] : status[d] # "bare"

\* The loop holds the handle it asks about, and no other.
AskInv == \A s \in Scrapers : /\ pc[s] = "ask" => asking[s] \in Doms
                              /\ pc[s] # "ask" => asking[s] = None
                              /\ pc[s] = "ok" => left[s] = {}

\* As long as the connection lasts, a managed server is reported or to be visited.
VisitInv == \A s \in Scrapers :
    pc[s] \in {"loop", "ask", "ok"} /\ conn[s] \in usable =>
        marked[s] \cap Managed \subseteq reported[s] \cup left[s] \cup {asking[s]}

IInv == /\ TypeOK
        /\ AloneInv
        /\ ManagerInv
        /\ AloneNeverRaises
        /\ SeenInv
        /\ AskInv
        /\ VisitInv

\* Every variable keeps its type, whichever step is taken.
LEMMA TypeStep == ASSUME TypeOK, AskInv, [Next]_vars PROVE TypeOK'
<1> USE ExporterAssumption DEF TypeOK, Active, Ended, Goto, hostVars, localVars
<1>1. ASSUME NEW s \in Scrapers, Scrape(s) PROVE TypeOK'
  BY <1>1 DEF Scrape, Running
<1>2. ASSUME NEW s \in Scrapers, CheckManager(s) PROVE TypeOK'
  BY <1>2 DEF CheckManager
<1>3. ASSUME NEW s \in Scrapers, Connect(s) PROVE TypeOK'
  <2>1. mgr' \in Conns
    BY <1>3 DEF Connect, Unreferenced
  <2> QED BY <1>3, <2>1 DEF Connect
<1>4. ASSUME NEW s \in Scrapers, ConnectFails(s) PROVE TypeOK'
  BY <1>4 DEF ConnectFails
<1>5. ASSUME NEW s \in Scrapers, ReadManager(s) PROVE TypeOK'
  BY <1>5 DEF ReadManager
<1>6. ASSUME NEW s \in Scrapers, GetStats(s) PROVE TypeOK'
  BY <1>6 DEF GetStats, Managed
<1>7. ASSUME NEW s \in Scrapers, GetStatsFails(s) PROVE TypeOK'
  BY <1>7 DEF GetStatsFails
<1>8. ASSUME NEW s \in Scrapers, Drop(s) PROVE TypeOK'
  BY <1>8 DEF Drop
<1>9. ASSUME NEW s \in Scrapers, Close(s) PROVE TypeOK'
  BY <1>9 DEF Close
<1>10. ASSUME NEW s \in Scrapers, Clear(s) PROVE TypeOK'
  BY <1>10 DEF Clear
<1>11. ASSUME NEW s \in Scrapers, Visit(s) PROVE TypeOK'
  BY <1>11 DEF Visit
<1>12. ASSUME NEW s \in Scrapers, Report(s) PROVE TypeOK'
  BY <1>12 DEF Report, AskInv
<1>13. ASSUME NEW s \in Scrapers, Skip(s) PROVE TypeOK'
  BY <1>13 DEF Skip
<1>14. ASSUME NEW s \in Scrapers, Succeed(s) PROVE TypeOK'
  BY <1>14 DEF Succeed
<1>15. ASSUME NEW s \in Scrapers, Respond(s) PROVE TypeOK'
  BY <1>15 DEF Respond
<1>16. ASSUME NEW d \in Doms, Define(d) \/ Mark(d) \/ Undefine(d) PROVE TypeOK'
  BY <1>16 DEF Define, Mark, Undefine
<1>17. ASSUME StopLibvirtd PROVE TypeOK'
  <2>1. stops' \in 0..MaxStops
    BY <1>17 DEF StopLibvirtd
  <2> QED
    BY <1>17, <2>1 DEF StopLibvirtd
<1>18. ASSUME StartLibvirtd PROVE TypeOK'
  BY <1>18 DEF StartLibvirtd
<1>19. ASSUME UNCHANGED vars PROVE TypeOK'
  BY <1>19 DEF vars
<1> QED
  BY <1>1, <1>2, <1>3, <1>4, <1>5, <1>6, <1>7, <1>8, <1>9, <1>10, <1>11, <1>12,
     <1>13, <1>14, <1>15, <1>16, <1>17, <1>18, <1>19 DEF Next, Step

\* Scrapes keep away from each other's manager while they do not overlap, and the
\* loop loses no server: the safety conjuncts are preserved by every step.
LEMMA SafeStep == ASSUME IInv, TypeOK', [Next]_vars PROVE IInv'
<1> USE ExporterAssumption DEF IInv, TypeOK, Active, Ended, Goto, hostVars, localVars,
        Running, Managed, AloneInv, ManagerInv, AloneNeverRaises, SeenInv, AskInv, VisitInv
<1>1. ASSUME NEW s \in Scrapers, Scrape(s) PROVE IInv'
  <2>1. \A t \in Scrapers : ~Running(s) /\ (t # s => Running(t)' = Running(t) /\ pc'[t] = pc[t])
    BY <1>1 DEF Scrape
  <2>2. overlap'[s] = \E o \in Scrapers : Running(o)
    BY <1>1 DEF Scrape
  <2>3. \A t \in Scrapers \ {s} : overlap'[t] = (overlap[t] \/ Running(t))
    BY <1>1 DEF Scrape
  <2>4. AloneInv'
    BY <2>1, <2>2, <2>3
  <2>5. ManagerInv' /\ AloneNeverRaises'
    BY <1>1, <2>1, <2>3 DEF Scrape
  <2>6. SeenInv' /\ AskInv' /\ VisitInv'
    BY <1>1 DEF Scrape
  <2> QED BY <2>4, <2>5, <2>6
<1>2. ASSUME NEW s \in Scrapers, CheckManager(s) PROVE IInv'
  BY <1>2 DEF CheckManager
<1>3. ASSUME NEW s \in Scrapers, Connect(s) PROVE IInv'
  <2>1. mgr' \in Unreferenced(s)
    BY <1>3 DEF Connect
  <2>2. mgr' # None /\ \A t \in Scrapers : t # s => mgr' # conn[t]
    BY <2>1 DEF Unreferenced, HeldByOthers
  <2> QED BY <1>3, <2>2 DEF Connect
<1>4. ASSUME NEW s \in Scrapers, ConnectFails(s) PROVE IInv'
  BY <1>4 DEF ConnectFails
<1>5. ASSUME NEW s \in Scrapers, ReadManager(s) PROVE IInv'
  BY <1>5 DEF ReadManager
<1>6. ASSUME NEW s \in Scrapers, GetStats(s) PROVE IInv'
  BY <1>6 DEF GetStats
<1>7. ASSUME NEW s \in Scrapers, GetStatsFails(s) PROVE IInv'
  BY <1>7 DEF GetStatsFails
<1>8. ASSUME NEW s \in Scrapers, Drop(s) PROVE IInv'
  BY <1>8 DEF Drop
<1>9. ASSUME NEW s \in Scrapers, Close(s) PROVE IInv'
  BY <1>9 DEF Close
<1>10. ASSUME NEW s \in Scrapers, Clear(s) PROVE IInv'
  BY <1>10 DEF Clear
<1>11. ASSUME NEW s \in Scrapers, Visit(s) PROVE IInv'
  BY <1>11 DEF Visit
<1>12. ASSUME NEW s \in Scrapers, Report(s) PROVE IInv'
  BY <1>12 DEF Report, IsManaged
<1>13. ASSUME NEW s \in Scrapers, Skip(s) PROVE IInv'
  BY <1>13 DEF Skip, IsManaged, Raises
<1>14. ASSUME NEW s \in Scrapers, Succeed(s) PROVE IInv'
  BY <1>14 DEF Succeed
<1>15. ASSUME NEW s \in Scrapers, Respond(s) PROVE IInv'
  BY <1>15 DEF Respond
<1>16. ASSUME NEW d \in Doms, Define(d) PROVE IInv'
  BY <1>16 DEF Define
<1>17. ASSUME NEW d \in Doms, Mark(d) PROVE IInv'
  BY <1>17 DEF Mark
<1>18. ASSUME NEW d \in Doms, Undefine(d) PROVE IInv'
  BY <1>18 DEF Undefine
<1>19. ASSUME StopLibvirtd PROVE IInv'
  BY <1>19 DEF StopLibvirtd
<1>20. ASSUME StartLibvirtd PROVE IInv'
  BY <1>20 DEF StartLibvirtd
<1>21. ASSUME UNCHANGED vars PROVE IInv'
  BY <1>21 DEF vars
<1> QED
  BY <1>1, <1>2, <1>3, <1>4, <1>5, <1>6, <1>7, <1>8, <1>9, <1>10, <1>11, <1>12, <1>13,
     <1>14, <1>15, <1>16, <1>17, <1>18, <1>19, <1>20, <1>21 DEF Next, Step

\* The inductive invariant is an invariant of scrapes.
LEMMA SpecIInv == Spec => []IInv
<1>1. Init => IInv
  BY ExporterAssumption DEF Init, IInv, TypeOK, Active, Ended, Running, Managed, AloneInv,
     ManagerInv, AloneNeverRaises, SeenInv, AskInv, VisitInv
<1>2. IInv /\ [Next]_vars => IInv'
  BY TypeStep, SafeStep DEF IInv
<1> QED BY <1>1, <1>2, PTL DEF Spec

\* However libvirtd stops, a scrape that no other ran beside ends with a response.
THEOREM ExceptionsNeedOverlap == Spec => []AloneNeverRaises
<1>1. IInv => AloneNeverRaises
  BY DEF IInv
<1> QED BY SpecIInv, <1>1, PTL

\* Whatever the other scrapes do and whatever domains vanish, a response made over
\* one lasting connection misses no managed server.
THEOREM ResponseComplete == Spec => []CompleteWhenConnected
<1>1. IInv => CompleteWhenConnected
  BY ExporterAssumption DEF IInv, TypeOK, AskInv, VisitInv, CompleteWhenConnected, Managed
<1> QED BY SpecIInv, <1>1, PTL

\* No response has metrics of a domain that is there without the spec metadata.
THEOREM ResponseManaged == Spec => []ReportedOnlyManaged
<1>1. IInv => ReportedOnlyManaged
  BY DEF IInv, SeenInv, ReportedOnlyManaged
<1> QED BY SpecIInv, <1>1, PTL

\* Connections, handles and program counters keep their types.
THEOREM ExporterTypes == Spec => []TypeOK
<1>1. IInv => TypeOK
  BY DEF IInv
<1> QED BY SpecIInv, <1>1, PTL
================================================================================
