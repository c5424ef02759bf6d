\* Every distance row over four nodes with values 10, 20 and 30, and
\* kmalloc_node sizes around the page and block boundaries.
CONSTANTS
    NodeCount = 4
    DistVals = {10, 20, 30}
    PAGE_SIZE = 4
    Sizes = {1, 3, 4, 5, 8, 9, 16, 17}
SPECIFICATION Spec
INVARIANT FallbackIsStableSort
INVARIANT KmallocOrderMinimal
