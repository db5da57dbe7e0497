SPECIFICATION FairSpec
CONSTANTS
    client1 = client1
    client2 = client2
    thread1 = thread1
    thread2 = thread2
    NoThread = NoThread
    Clients = {client1, client2}
    Threads = {thread1, thread2}
    ClientOf <- Apart
    MaxCalls = 1
    Pieces = 1
INVARIANT
    NothingLeftBehind
PROPERTIES
    CallsAndSessionsEnd
