SPECIFICATION Spec
CONSTANTS
    Producers = {p1}
    Consumers = {c1, c2}
    Impatient = {}
    Owners = {}
    Closers = {}
    Workers = {w1}
    MaxTickets = 1
    MaxResets = 0
INVARIANT
    HandedBackOnce
