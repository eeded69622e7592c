SPECIFICATION Spec
CONSTANTS
    Table = {1, 2}
    MySQL <- Tables
    Push <- Pushes
    END_UID = 38
    COUNTS_PER_LOOP = 16
    UID_COUNT_PER_TIME = 16
    Garbage <- Bytes
CHECK_DEADLOCK FALSE
INVARIANTS TypeOK UsersReached ReachedOnce NoStrangers
