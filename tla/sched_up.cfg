\* One CPU, two user threads: creation (ready and suspended), priority
\* changes, yield, block and wake, suspend and resume, kill and critical
\* sections, with timer ticks and the idle loop.
CONSTANTS
    i0 = i0
    i1 = i1
    i2 = i2
    i3 = i3
    t1 = t1
    t2 = t2
    t3 = t3
    NoThread = NoThread
    CPUS = {0}
    Online = {0}
    Threads = {t1, t2}
    IdleOf <- MCIdleOf
    Classes = {0, 1}
    Levels = {0, 15, 16}
    SLICE = 2
    BALANCE_INTERVAL = 2
    CounterMod = 8
    MaxQueueLen = 3
    MaxSuspend = 2
    PClasses = {0}
    Deltas <- MCDeltas
    Masks = {{0}}
    Calls = {"create", "create_suspended", "priority", "yield", "block", "wake", "suspend", "resume", "kill", "critsec"}
SPECIFICATION Spec
CONSTRAINT QueueBound
CONSTRAINT NotCrashed
SYMMETRY ThreadSymmetry
INVARIANT TypeOK
INVARIANT CountsMatchLists
INVARIANT ActiveBitmapExact
INVARIANT ClassBitmapExact
INVARIANT ReadyQueuedOnce
