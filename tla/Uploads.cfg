\* Two uploads of three variants on two threads, two signals and the end of the lifespan.
SPECIFICATION FairSpec
CONSTANTS
    Upload = {u1, u2}
    Variants = 3
    Workers = 2
    MaxSignals = 2
INVARIANTS
    NeverRefused
    WorkersBounded
    ShutdownDrains
    AnsweredIsStored
    PoolLeftOnlyBySignal
PROPERTY UploadsEnd
CHECK_DEADLOCK FALSE
