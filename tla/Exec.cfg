CONSTANTS
    p1 = p1
    p2 = p2
    p3 = p3
    None = None
    Tasks = {shell, job}
    Progs = {p1, p2, p3}
    Dyn = {p2}
    Image <- MCImage
    TableAt <- MCTableAt
    Extent <- MCSize
    Size <- MCSize
    Bias = 10
    KernelHalf <- MCKernelHalf
    Ident <- MCIdent
    Home <- MCHome
    HeapLo = 3
    HeapHi = 4
    MmapLo = 4
    MmapHi = 6
    StackLo = 6
    StackHi = 7
    NFrames = 7
    Reserved = {1}
    MmapSlots = 2
SYMMETRY MCSymmetry
SPECIFICATION Spec
CONSTRAINT BeforeTrespass
INVARIANTS
    FramesSound
    WindowOwned
    CleanAfterExec
PROPERTIES
    FailedCallsUndone
