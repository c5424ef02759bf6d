\* Three CPUs on one rwlock: two readers whose critical sections overlap
\* and a writer in write_lock.
SPECIFICATION RwSpec
CONSTANTS
    Procs = {r1, r2, r3}
    TicketMod = 4
    NoOwner = NoOwner
PROPERTY WriterEnters
