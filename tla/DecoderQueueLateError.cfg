SPECIFICATION Spec
CONSTANTS
    Producers = {p1}
    Consumers = {c1}
    Impatient = {c1}
    Owners = {}
    Closers = {}
    Workers = {w1}
    MaxTickets = 1
    MaxResets = 0
PROPERTY
    ErrorsAreRaised
