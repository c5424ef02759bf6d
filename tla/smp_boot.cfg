\* AP bring-up with four CPUs, AP 2 disabled in the MADT, APs 1 and 3
\* starting late or never, one smp_call_function(wait = 1) from the BSP and
\* one from a thread on AP 1.
SPECIFICATION Spec
CONSTANTS
    NCPU = 4
    Enabled = {1, 3}
    TIMEOUT = 2
    ApCallers = {1}
INVARIANT TypeOK
PROPERTY BootTerminates
CHECK_DEADLOCK FALSE
