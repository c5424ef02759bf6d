\* Two nodes of two page frames each: a free that merges two buddies counts
\* the buddy's pages twice, and two callers end up owning one frame.
CONSTANTS
    NodeCount = 2
    PagesPerNode = 2
    MAX_ORDER = 2
    CountMod = 8
    MaxFreePages = 3
    PAGE_SIZE = 4
    Sizes = {4, 5}
    Cpus = {c1, c2}
    NoCall = NoCall
    Distance <- MCDistance
SPECIFICATION Spec
CONSTRAINT StateBound
SYMMETRY CpuSymmetry
INVARIANT BuddyAccountedOnce
