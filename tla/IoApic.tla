------------------------------- MODULE IoApic -------------------------------
(***************************************************************************)
(* The I/O APIC router of kernel/apic/apic.c (ioapic_init, ioapic_route_irq,*)
(* ioapic_mask_irq, ioapic_unmask_irq, ioapic_for_gsi) over the register   *)
(* window of include/os3/apic.h: a register is selected by writing its     *)
(* number to IOREGSEL (base[0]) and then read or written through IOWIN     *)
(* (base[4]).  A redirection entry is two such registers, low word first. *)
(* Each MMIO access is one step; no lock is taken, so the accesses of CPUs *)
(* calling the router at once interleave.                                  *)
(*                                                                         *)
(* A 32-bit register is abstracted to the fields the router uses: the      *)
(* vector (bits 0-7) and mask (bit 16) of a low word, the destination      *)
(* (bits 24-31) of a high word; the other fields of a word are 0.          *)
(***************************************************************************)
EXTENDS Naturals, Sequences, FiniteSets, FiniteSetsExt, TLC

CONSTANTS
    Cpus,       \* CPUs calling the router (model values)
    Chips,      \* ioapics[0 .. num_ioapics - 1]
    GsiBase,    \* [Chips -> Nat]: io->gsi_base
    MaxRedir,   \* [Chips -> Nat]: io->max_redir
    Irqs,       \* irq arguments
    IrqToGsi,   \* [Irqs -> Nat]: acpi_irq_to_gsi, the firmware overrides
    Vectors,    \* vector arguments of ioapic_route_irq
    Targets,    \* dest_cpu arguments
    ApicIdOf,   \* [Targets -> 0..255]: smp_info.cpus[t]->apic_id when set
    Freed,      \* targets whose cpu_info_t smp_boot_cpu freed (smp.c:216)
    NoCall, NoChip

ASSUME Chips = 0..(Cardinality(Chips) - 1) /\ Freed \subseteq Targets

VECTOR_IRQ_BASE    == 32
IOAPIC_REDTBL_BASE == 16

Pins(i) == 0..MaxRedir[i]
ApicIds == {ApicIdOf[t] : t \in Targets}
RegLo(j) == IOAPIC_REDTBL_BASE + j * 2
RegHi(j) == IOAPIC_REDTBL_BASE + j * 2 + 1
Regs(i) == {RegLo(j) : j \in Pins(i)} \cup {RegHi(j) : j \in Pins(i)}

\* ioapic_redir_t as the fields kept, and its two 32-bit halves
\* ((uint32_t)val and val >> 32 in ioapic_write_redir; lo | hi << 32 in
\* ioapic_read_redir).
Redir(v, m, d) == [vec |-> v % 256, mask |-> m, dest |-> d]
Lo(e) == [vec |-> e.vec, mask |-> e.mask, dest |-> 0]
Hi(e) == [vec |-> 0, mask |-> 0, dest |-> e.dest]
Join(lo, hi) == Redir(lo.vec, lo.mask, hi.dest)

\* ioapic_for_gsi: the first I/O APIC whose GSI range holds gsi.
IoapicForGsi(gsi) ==
    LET hit == {i \in Chips : GsiBase[i] <= gsi /\ gsi <= GsiBase[i] + MaxRedir[i]}
    IN IF hit = {} THEN NoChip ELSE Min(hit)

\* The MMIO accesses of ioapic_write_redir and of ioapic_read_redir.
WriteRedirSteps(j) == << <<"sel", RegLo(j)>>, <<"wr", "lo">>, <<"sel", RegHi(j)>>, <<"wr", "hi">> >>
ReadRedirSteps(j)  == << <<"sel", RegLo(j)>>, <<"rd", "lo">>, <<"sel", RegHi(j)>>, <<"rd", "hi">> >>

VARIABLES
    sel,    \* [Chips -> register]: IOREGSEL of each I/O APIC
    reg,    \* [Chips -> [register -> word]]: the registers behind IOWIN
    call,   \* [Cpus -> call in progress or NoCall]
    want    \* the entries a serial order of the finished calls gives

vars == <<sel, reg, call, want>>

\* ioapic_init on the BSP, before any other CPU runs: every entry masked
\* with vector VECTOR_IRQ_BASE + gsi_base + j.
InitRedir(i, j) == Redir(VECTOR_IRQ_BASE + GsiBase[i] + j, 1, 0)

Init ==
    /\ reg = [i \in Chips |-> [r \in Regs(i) |->
                 LET j == (r - IOAPIC_REDTBL_BASE) \div 2
                 IN IF r = RegLo(j) THEN Lo(InitRedir(i, j)) ELSE Hi(InitRedir(i, j))]]
    /\ sel = [i \in Chips |-> RegHi(MaxRedir[i])]
    /\ call = [c \in Cpus |-> NoCall]
    /\ want = [i \in Chips |-> [j \in Pins(i) |-> InitRedir(i, j)]]

\* The call's entry as its caller asked for it (the dest is the target's
\* apic_id), and the words it writes: for a freed target, apic_id is read
\* from freed memory and may be anything: the model tells apart only the
\* ids of the targets and 0.
Start(c, op, irq, new, dests) ==
    LET gsi == IrqToGsi[irq]
        i   == IoapicForGsi(gsi)
    IN /\ call[c] = NoCall
       /\ i # NoChip
       /\ \E d \in dests :
            call' = [call EXCEPT ![c] =
               [op |-> op, chip |-> i, pin |-> gsi - GsiBase[i], asked |-> new,
                new |-> [new EXCEPT !.dest = d], lo |-> Lo(new), hi |-> Hi(new),
                todo |-> IF op = "route" THEN WriteRedirSteps(gsi - GsiBase[i])
                         ELSE ReadRedirSteps(gsi - GsiBase[i]) \o WriteRedirSteps(gsi - GsiBase[i])]]
       /\ UNCHANGED <<sel, reg, want>>

\* ioapic_route_irq: a fixed, physical, unmasked entry for the vector and
\* smp_info.cpus[dest_cpu]->apic_id.
RouteIrq(c) ==
    \E irq \in Irqs, v \in Vectors, t \in Targets :
        Start(c, "route", irq, Redir(v, 0, ApicIdOf[t]),
              IF t \in Freed THEN ApicIds \cup {0} ELSE {ApicIdOf[t]})

\* ioapic_mask_irq and ioapic_unmask_irq: read the entry, set or clear
\* bit 16, write it back.
MaskIrq(c)   == \E irq \in Irqs : Start(c, "mask", irq, Redir(0, 0, 0), {0})
UnmaskIrq(c) == \E irq \in Irqs : Start(c, "unmask", irq, Redir(0, 0, 0), {0})

\* The value the call writes: the routed entry, or the entry it read with
\* the mask bit set or cleared.
Written(k) ==
    CASE k.op = "route"  -> k.new
      [] k.op = "mask"   -> [Join(k.lo, k.hi) EXCEPT !.mask = 1]
      [] k.op = "unmask" -> [Join(k.lo, k.hi) EXCEPT !.mask = 0]

\* The entry the same call makes in a serial order of the calls.
Serial(k, e) == IF k.op = "route" THEN k.asked ELSE [e EXCEPT !.mask = IF k.op = "mask" THEN 1 ELSE 0]

\* Move past the access just made; the last one returns.
Advance(c, k) ==
    IF Len(k.todo) = 1
    THEN /\ call' = [call EXCEPT ![c] = NoCall]
         /\ want' = [want EXCEPT ![k.chip][k.pin] = Serial(k, @)]
    ELSE /\ call' = [call EXCEPT ![c] = [k EXCEPT !.todo = Tail(k.todo)]]
         /\ UNCHANGED want

\* io->base[0] = reg
SelectReg(c) ==
    LET k == call[c] IN
    /\ k # NoCall /\ Head(k.todo)[1] = "sel"
    /\ sel' = [sel EXCEPT ![k.chip] = Head(k.todo)[2]]
    /\ Advance(c, k) /\ UNCHANGED reg

\* return io->base[4], into lo or hi of ioapic_read_redir
ReadWin(c) ==
    LET k == call[c] IN
    /\ k # NoCall /\ Head(k.todo)[1] = "rd"
    /\ LET w == reg[k.chip][sel[k.chip]]
           k2 == IF Head(k.todo)[2] = "lo" THEN [k EXCEPT !.lo = w] ELSE [k EXCEPT !.hi = w]
       IN Advance(c, k2)
    /\ UNCHANGED <<sel, reg>>

\* io->base[4] = val, the low or the high word of the entry
WriteWin(c) ==
    LET k == call[c] IN
    /\ k # NoCall /\ Head(k.todo)[1] = "wr"
    /\ reg' = [reg EXCEPT ![k.chip][sel[k.chip]] =
                 IF Head(k.todo)[2] = "lo" THEN Lo(Written(k)) ELSE Hi(Written(k))]
    /\ Advance(c, k) /\ UNCHANGED sel

Next ==
    \E c \in Cpus :
        \/ RouteIrq(c) \/ MaskIrq(c) \/ UnmaskIrq(c)
        \/ SelectReg(c) \/ ReadWin(c) \/ WriteWin(c)

Spec == Init /\ [][Next]_vars

Busy(i, j) == \E c \in Cpus : call[c] # NoCall /\ call[c].chip = i /\ call[c].pin = j

\* Every redirection entry no call is working on is the entry the finished
\* calls make when run one after another in the order they returned:
\* ioapic_route_irq installs what it was asked for and ioapic_mask_irq /
\* ioapic_unmask_irq change only the mask bit (spec 4.2, external-source
\* router).  The unlocked IOREGSEL / IOWIN pairs and the read of a freed
\* cpu_info_t's apic_id break it.
IrqRoutedAsCalled ==
    \A i \in Chips : \A j \in Pins(i) :
        ~Busy(i, j) => Join(reg[i][RegLo(j)], reg[i][RegHi(j)]) = want[i][j]

CpuSymmetry == Permutations(Cpus)

=============================================================================
