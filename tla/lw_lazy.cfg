SPECIFICATION FairSpec
CONSTANTS
    Tasks = {t1, t2, t3}
    Sizes = {1, 2}
    kBufferSize = 4
    kBlockSize = 4
    kLogFileSize = 8
    Word = 8
    Len16 = 8
    kPageSize = 2
    Zero = Zero
    Free = Free
    SubmitStarts = FALSE
    Phased = TRUE
PROPERTIES LeaderFinishes
CHECK_DEADLOCK FALSE
