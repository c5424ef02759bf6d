\* Two threads, each unqueued, as DosCreateThread made it, or after
\* DosSetPriority with class 0 (keep), 1 (idle-time) or 2 (regular) and a
\* delta of -2, 0 or +2; the levels the mapping produces are carried.
CONSTANTS
    Items = {a, b}
    Idle = Idle
    Nowhere = Nowhere
    PClasses = {0, 1, 2}
    Deltas <- MCDeltas
    Classes = {0, 1}
    Levels = {0, 15, 16, 31}
    CounterMod = 8
SPECIFICATION Spec
INVARIANT PickIsHighest
