\* Four requests of up to two transactions each, pools of one connection.
SPECIFICATION FairSpec
CONSTANTS
    Request = {r1, r2, r3, r4}
    None = None
    Cap = 1
    MaxTransactions = 2
INVARIANTS
    ConnectionsAccounted
    EnginesOfFirstRequests
PROPERTY WaitersServed
CHECK_DEADLOCK FALSE
