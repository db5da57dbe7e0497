SPECIFICATION Spec
CONSTANTS
    Producers = {p1, p2}
    Consumers = {c1}
    Impatient = {c1}
    Owners = {o}
    Closers = {}
    Workers = {w1, w2}
    MaxTickets = 2
    MaxResets = 1
SYMMETRY Symmetry
INVARIANTS
    TypeOK
    InFlightExact
    DepthCovers
    StatsMatchResults
    ListMatchesResults
PROPERTY
    LeavesSettled
