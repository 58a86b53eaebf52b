SPECIFICATION AllSpec
CONSTANTS
    kBufferSize = 8
    Word = 16
    Sizes = {1, 2, 3, 5, 8}
    Producers = {p1, p2}
    SliceBuffer = 4
    SliceWord = 8
    SliceSizes = {1, 3}
    Processes = {a, b, c}
    Objects = {o1, o2, o3, o4}
    None = None
INVARIANTS TypeOK WindowBounded NoOverlap TypesOK GrantsDisjoint NameTransient
PROPERTIES IsWindow AllServe PrivateOnceUnlinked
