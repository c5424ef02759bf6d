\* Two CPUs routing, masking and unmasking IRQs 0, 1, 3 and 4 on two I/O
\* APICs, to a CPU whose cpu_info_t is live.
SPECIFICATION Spec
CONSTANTS
    Cpus = {c1, c2}
    Chips = {0, 1}
    GsiBase <- MCGsiBase
    MaxRedir <- MCMaxRedir
    Irqs = {0, 1, 3, 4}
    IrqToGsi <- MCIrqToGsi
    Vectors = {48}
    Targets = {1}
    ApicIdOf <- MCApicIdOf
    Freed = {}
    NoCall = NoCall
    NoChip = NoChip
SYMMETRY CpuSymmetry
INVARIANT IrqRoutedAsCalled
