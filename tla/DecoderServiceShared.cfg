SPECIFICATION Spec
CONSTANTS
    client1 = client1
    client2 = client2
    thread1 = thread1
    thread2 = thread2
    NoThread = NoThread
    Clients = {client1}
    Threads = {thread1, thread2}
    ClientOf <- Shared
    MaxCalls = 2
    Pieces = 2
SYMMETRY Symmetry
INVARIANTS
    TypeOK
    InStep
    OwnPredictions
