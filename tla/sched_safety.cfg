\* Two CPUs, three user threads with create, priority, yield, suspend,
\* resume and critical sections: an idle loop re-enqueues its idle thread,
\* an AP takes a timer tick before its first schedule(), a caller inside
\* the unlock-to-enqueue window of DosSetPriority is preempted and another
\* thread operates on the same target, a thread the balancer has detached
\* is Ready and on no list while DosSetPriority runs, or a thread inside
\* DosEnterCritSec calls it again and spins on its own critsec_lock.
CONSTANTS
    i0 = i0
    i1 = i1
    i2 = i2
    i3 = i3
    t1 = t1
    t2 = t2
    t3 = t3
    NoThread = NoThread
    CPUS = {0, 1}
    Online = {0, 1}
    Threads = {t1, t2, t3}
    IdleOf <- MCIdleOf
    Classes = {0, 1}
    Levels = {0, 15, 16}
    SLICE = 2
    BALANCE_INTERVAL = 2
    CounterMod = 8
    MaxQueueLen = 3
    MaxSuspend = 2
    PClasses = {0}
    Deltas <- MCDeltas
    Masks = {{0}}
    Calls = {"create", "create_suspended", "priority", "yield", "suspend", "resume", "critsec"}
SPECIFICATION Spec
CONSTRAINT QueueBound
SYMMETRY ThreadSymmetry
INVARIANT SchedulerSafe
