SPECIFICATION FairSpec
CONSTANTS
    Producers = {p1}
    Consumers = {c1}
    Impatient = {}
    Owners = {o}
    Closers = {k}
    Workers = {w1}
    MaxTickets = 2
    MaxResets = 1
INVARIANT
    SpanEndsAtLastResult
PROPERTY
    CallsReturn
