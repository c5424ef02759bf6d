\* smp_call_function(wait = 1) from the BSP after AP 1 fails to start and
\* AP 2 starts, and from a thread on AP 2: every call must return, and only
\* once its IPIs have been handled.
SPECIFICATION Spec
CONSTANTS
    NCPU = 3
    Enabled = {1, 2}
    TIMEOUT = 2
    ApCallers = {2}
PROPERTY CallCompletes
CHECK_DEADLOCK FALSE
