\* Three uploads and a deletion build the backend, with two faults and a crash.
SPECIFICATION StorageFairSpec
CONSTANTS
    Call = {u1, u2, u3, d}
    Uploader = {u1, u2, u3}
    MaxFaults = 2
    MaxCrashes = 1
INVARIANTS
    UsedHasBucket
PROPERTIES
    BecomesPublic
    RepeatsSucceed
CHECK_DEADLOCK FALSE
