\* Two nodes of two page frames each, free lists of orders 0 and 1, and two
\* CPUs whose allocations interleave; free_pages is explored up to 3.
CONSTANTS
    NodeCount = 2
    PagesPerNode = 2
    MAX_ORDER = 2
    CountMod = 8
    MaxFreePages = 3
    PAGE_SIZE = 4
    Sizes = {4, 5}
    Cpus = {c1, c2}
    NoCall = NoCall
    Distance <- MCDistance
SPECIFICATION Spec
CONSTRAINT StateBound
SYMMETRY CpuSymmetry
INVARIANT TypeOK
INVARIANT NoPageLost
INVARIANT FreeBlocksAligned
