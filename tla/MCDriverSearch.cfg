\* Three drivers for two places in the question, durations on both sides of a minute.
CONSTANTS
    d1 = d1
    d2 = d2
    d3 = d3
    u1 = u1
    u2 = u2
    s1 = s1
    NoRow = NoRow
    NoRoute = NoRoute
    Drivers = {d1, d2, d3}
    Reports = {u1, u2}
    Searches = {s1}
    MaxCandidates = 2
    Fresh = 1
    TimeLimit = 1
    Minute = 2
    Durations = {2, 3}
    MaxTime = 3
VIEW View
SYMMETRY Symmetry
SPECIFICATION Spec
INVARIANTS TypeOK OffersFresh OffersRanked
CHECK_DEADLOCK FALSE
