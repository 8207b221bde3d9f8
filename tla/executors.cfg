SPECIFICATION Spec
CONSTANTS
    Jobs <- MCJobs
    KindOf <- MCKindOf
    CharacterOf <- MCCharacterOf
    Workers <- MCWorkers
    WorkerOf <- MCWorkerOf
    QueueCapacity = 1
    Mailbox = 1
    MaxExecutors = 2
    MaxJobs = 2
    MaxRuns = 1
INVARIANTS
    ReservationsBalanced
    AnsweredOnce
    LetGoOnlyUntried
PROPERTIES
    ResultsArrive
CHECK_DEADLOCK FALSE
