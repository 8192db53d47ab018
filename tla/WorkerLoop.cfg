CONSTANTS
    Workers = {w1, w2}
    Clients = {c1, c2}
    QuicClients = {q1}
    MaxConnections = 1
    MaxQuic = 1
    MaxInitials = 1
    NumAccepts = 2
SPECIFICATION Spec
INVARIANTS WorkerInv ConnectionLimit ListenerResumes
PROPERTIES BacklogRetried ShutdownCompletes
