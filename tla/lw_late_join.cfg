SPECIFICATION Spec
CONSTANTS
    Tasks = {t1, t2, t3}
    Sizes = {1, 2}
    kBufferSize = 8
    kBlockSize = 4
    kLogFileSize = 8
    Word = 16
    Len16 = 8
    kPageSize = 2
    Zero = Zero
    Free = Free
    SubmitStarts = TRUE
    Phased = FALSE
SYMMETRY TaskSymmetry
INVARIANTS TailOwnerLeads
CHECK_DEADLOCK FALSE
