SPECIFICATION AllSpec
CONSTANTS
    MaxBuffers = 3
    MaxSize = 4
    Lengths = {1, 2, 3, 5}
    MaxBound = 5
    MaxInserts = 2
    Bytes = {0, 1, 255}
    ByteCounts = {1, 2, 4}
    Threads = {t1, t2}
    Nth = {0, 2}
    MaxEnables = 2
    MaxPasses = 2
INVARIANTS TypeOK PartsAreRequest PartsFull CountsBracket LittleEndian PointTypeOK FiresAsAsked
PROPERTY LoopsEnd
CHECK_DEADLOCK FALSE
