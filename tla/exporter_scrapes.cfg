SPECIFICATION FairSpec
CONSTANTS
    Scrapers = {s1, s2}
    Conns = {c1, c2, c3}
    Doms = {d1, d2}
    MaxStops = 1
    None = None
INVARIANTS TypeOK AloneNeverRaises CompleteWhenConnected ReportedOnlyManaged
PROPERTIES Recovers
