\* Two CPUs, two user threads making create, priority, kill and affinity calls;
\* timer ticks, reschedule IPIs, the idle loops and the load balancer run
\* throughout.  The run-queue counters and lists disagree in this
\* configuration (see the violation runs); what is checked is that no Ready
\* thread is lost.
CONSTANTS
    i0 = i0
    i1 = i1
    i2 = i2
    i3 = i3
    t1 = t1
    t2 = t2
    t3 = t3
    NoThread = NoThread
    CPUS = {0, 1}
    Online = {0, 1}
    Threads = {t1, t2}
    IdleOf <- MCIdleOf
    Classes = {0, 1}
    Levels = {0, 15, 16}
    SLICE = 1
    BALANCE_INTERVAL = 2
    CounterMod = 8
    MaxQueueLen = 2
    MaxSuspend = 2
    PClasses = {0}
    Deltas = {0}
    Masks = {{1}, {0, 1}}
    Calls = {"create", "priority", "kill", "affinity"}
SPECIFICATION Spec
CONSTRAINT QueueBound
CONSTRAINT NotCrashed
CONSTRAINT QueuesSound
SYMMETRY ThreadSymmetry
INVARIANT ReadyNotLost
