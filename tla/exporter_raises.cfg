SPECIFICATION Spec
CONSTANTS
    Scrapers = {s1, s2}
    Conns = {c1, c2, c3}
    Doms = {d1}
    MaxStops = 1
    None = None
INVARIANTS NeverRaises
