SPECIFICATION FairSpec
CONSTANTS
    Tasks = {t1, t2, t3}
    Sizes = {1, 3}
    kBufferSize = 8
    kBlockSize = 4
    kLogFileSize = 8
    Word = 16
    Len16 = 16
    kPageSize = 2
    Zero = Zero
    Free = Free
    SubmitStarts = TRUE
    Phased = TRUE
PROPERTIES LeaderFinishes WaiterReleased DeviceAsPromised
CHECK_DEADLOCK FALSE
