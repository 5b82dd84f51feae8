SPECIFICATION LoggerSpec
CONSTANTS
    w1 = w1
    w2 = w2
    r1 = r1
    Writers <- MCWriters
    Readers <- MCReaders
    Entries <- MCEntries
    Base = 2
    Size = 8
    MaxFaults = 1
    StaleFaults = FALSE
SYMMETRY WriterSymmetry
INVARIANTS
    NoSilentLoss
    WaitersCaughtUp
PROPERTIES
    ImplementsQueue
