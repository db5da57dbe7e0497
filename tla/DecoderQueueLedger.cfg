SPECIFICATION FairSpec
CONSTANTS
    Producers = {p1}
    Consumers = {c1}
    Impatient = {c1}
    Owners = {o}
    Closers = {}
    Workers = {w1, w2}
    MaxTickets = 2
    MaxResets = 1
PROPERTY
    KeepsLedger
