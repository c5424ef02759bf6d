\* Three CPUs on the ticket spinlock, two others on the rwlock of
\* spinlock.h; the 16-bit tickets reduced to 4 values, more than the CPUs
\* that can hold tickets at once.  Two CPUs on a seqlock (a writer and a
\* reader, or two writers, at once) with two writes and the uint32_t
\* sequence reduced to 8 values, more than twice the writes.
SPECIFICATION LocksSpec
CONSTANTS
    Procs = {p1, p2, p3}
    p1 = p1
    p2 = p2
    p3 = p3
    r1 = r1
    r2 = r2
    s1 = s1
    s2 = s2
    SeqMod = 8
    MaxWrites = 2
    NoOwner = NoOwner
    TicketMod = 4
INVARIANT LocksTypeOK
INVARIANT RwExclusion
 
PROPERTY ImplementsLock
PROPERTY StarvationFree
PROPERTY ReaderCompletes
