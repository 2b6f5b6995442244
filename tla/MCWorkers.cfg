CONSTANTS
    r1 = r1
    r2 = r2
    r3 = r3
    r4 = r4
    w1 = w1
    w2 = w2
    nobody = nobody
    Request = {r1, r2, r3, r4}
    Worker = {w1, w2}
    WorkerOf <- MCTwoWorkers
    PoolSize = 1
    Nobody = nobody
SPECIFICATION FairSpec
INVARIANTS
    TypeOK
    WriterIsRunning
    ConnectionsComeBack
PROPERTIES
    EveryRequestEnds
