SPECIFICATION Spec
CONSTANTS
    Producers = {p1}
    Consumers = {c1}
    Impatient = {}
    Owners = {}
    Closers = {}
    Workers = {w1, w2}
    MaxTickets = 2
    MaxResets = 0
INVARIANT
    SpanEndsAtLastResult
