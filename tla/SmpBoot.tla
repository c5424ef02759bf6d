------------------------------- MODULE SmpBoot -------------------------------
(***************************************************************************)
(* Application-processor bring-up and the first cross-CPU function call   *)
(* (kernel/smp/smp.c): smp_init's boot loop (37-125), smp_boot_cpu         *)
(* (180-262) on the BSP, ap_entry (267-308) on each AP, and               *)
(* smp_call_function (390-413) with ipi_call_handler (377-383), called by  *)
(* the BSP after bring-up and by APs in ApCallers at any time once up.     *)
(*                                                                         *)
(* A CPU id is both the logical index the BSP uses and the AP that the     *)
(* MADT entry of that index names: INIT/SIPI and IPIs to logical CPU j go  *)
(* to the APIC id of acpi_info.cpus[j], i.e. to AP j.  An AP that received *)
(* SIPI may start at any later time or never (no fairness): the BSP's      *)
(* wait is bounded by a timeout.                                           *)
(***************************************************************************)
EXTENDS Naturals, FiniteSets, Atomic

CONSTANTS
    NCPU,      \* smp_info.cpu_possible (acpi_info.num_cpus)
    Enabled,   \* APs whose MADT entry has MADT_LAPIC_ENABLED
    TIMEOUT,   \* the 1000 x mdelay(1) wait of smp_boot_cpu, reduced
    ApCallers  \* APs on which a thread makes one smp_call_function(wait = 1)

ASSUME NCPU \in 2..4 /\ Enabled \subseteq 1..(NCPU - 1) /\ TIMEOUT \in 1..3
ASSUME ApCallers \subseteq 1..(NCPU - 1)

CPUs == 0..(NCPU - 1)
APs  == 1..(NCPU - 1)

\* CPU_STATE_OFFLINE, _STARTING, _ONLINE of cpu_info_t.state, plus "None"
\* (smp_info.cpus[j] still NULL) and "Freed" (it points at a freed record).
CpuStates == {"None", "Starting", "Online", "Offline", "Freed"}

VARIABLES
    pc,        \* the BSP: "boot", "wait", "check", "call", "call_wait", "done"
    i,         \* smp_init's loop index
    tmo,       \* smp_boot_cpu's timeout counter
    bootId,    \* ap_boot_cpu_id
    bootDone,  \* ap_boot_done
    ap,        \* [APs -> "off" | "sipi" | "init" | "up"]: what AP a executes
    apId,      \* [APs -> CPU id]: the ap_boot_cpu_id AP a read on entry
    cstate,    \* [CPUs -> state] of smp_info.cpus[j]
    online,    \* smp_info.online_mask
    count,     \* smp_info.cpu_count
    pending,   \* smp_info.ipi_pending
    callIpi,   \* [CPUs -> BOOLEAN]: an IPI_CALL_FUNC latched in CPU j's APIC
    glock,     \* smp_info.global_lock: the CPU holding it, or NoCpu
    acall      \* [ApCallers -> "none" | "spin" | "wait" | "done"]: the AP's
               \* smp_call_function; in "spin" and "wait" its interrupts are off

vars == <<pc, i, tmo, bootId, bootDone, ap, apId, cstate, online, count, pending, callIpi,
          glock, acall>>

NoCpu == -1

Init ==
    /\ pc = "boot" /\ i = 1 /\ tmo = 0
    /\ bootId = 0 /\ bootDone = 0
    /\ ap = [a \in APs |-> "off"] /\ apId = [a \in APs |-> 0]
    /\ cstate = [c \in CPUs |-> IF c = 0 THEN "Online" ELSE "None"]
    /\ online = {0} /\ count = 1
    /\ pending = 0 /\ callIpi = [j \in CPUs |-> FALSE]
    /\ glock = NoCpu /\ acall = [a \in ApCallers |-> "none"]

(***************************************************************************)
(* The BSP.                                                                *)
(***************************************************************************)
\* lapic_send_init, then lapic_send_startup twice, each followed by
\* lapic_wait_ipi: AP a leaves reset and will enter the trampoline.  An AP
\* already started is not restarted (INIT is sent to each index once).
StartAp(apv, a) == [apv EXCEPT ![a] = IF @ = "off" THEN "sipi" ELSE @]

\* smp_init's loop (for i = 1; i < cpu_possible) has tried every index.
AllTried(j) == j = NCPU

\* The outcomes of smp_boot_cpu's two kmalloc_node calls.
Allocs == {"ok", "no_cpu", "no_stack"}

\* Mutant: the loop runs for i <= cpu_possible.
BootNextPastEnd ==
    /\ pc = "boot"
    /\ IF AllTried(i - 1)
       THEN pc' = "call" /\ UNCHANGED <<i, tmo, bootId, bootDone, ap, cstate>>
       ELSE IF i \notin Enabled
       THEN i' = i + 1 /\ UNCHANGED <<pc, tmo, bootId, bootDone, ap, cstate>>
       ELSE /\ cstate' = [cstate EXCEPT ![i] = "Starting"]
            /\ bootId' = i /\ bootDone' = 0
            /\ ap' = StartAp(ap, i)
            /\ tmo' = TIMEOUT /\ pc' = "wait"
            /\ UNCHANGED i
    /\ UNCHANGED <<apId, online, count, pending, callIpi, glock, acall>>

\* One iteration of smp_init's loop.  A disabled AP is skipped.  For an
\* enabled one smp_boot_cpu allocates the cpu_info_t (on failure it returns
\* -1 at once); stores it in smp_info.cpus[i] as Starting; takes
\* ap_boot_lock, sets ap_boot_cpu_id = i and ap_boot_done = 0; allocates the
\* stack (on failure it unlocks, frees the record it left in
\* smp_info.cpus[i] and returns -1); then sends INIT and two SIPIs.
BootNext ==
    /\ pc = "boot"
    /\ IF AllTried(i)
       THEN pc' = "call" /\ UNCHANGED <<i, tmo, bootId, bootDone, ap, cstate>>
       ELSE IF i \notin Enabled
       THEN i' = i + 1 /\ UNCHANGED <<pc, tmo, bootId, bootDone, ap, cstate>>
       ELSE \E r \in Allocs :
            \/ /\ r = "no_cpu"
               /\ i' = i + 1 /\ UNCHANGED <<pc, tmo, bootId, bootDone, ap, cstate>>
            \/ /\ r = "no_stack"
               /\ cstate' = [cstate EXCEPT ![i] = "Freed"]
               /\ bootId' = i /\ bootDone' = 0 /\ i' = i + 1
               /\ UNCHANGED <<pc, tmo, ap>>
            \/ /\ r = "ok"
               /\ cstate' = [cstate EXCEPT ![i] = "Starting"]
               /\ bootId' = i /\ bootDone' = 0
               /\ ap' = StartAp(ap, i)
               /\ tmo' = TIMEOUT /\ pc' = "wait"
               /\ UNCHANGED i
    /\ UNCHANGED <<apId, online, count, pending, callIpi, glock, acall>>

\* Mutant: the wait loop forgets to count down.
WaitTickStuck ==
    /\ pc = "wait" /\ bootDone = 0 /\ tmo > 0
    /\ UNCHANGED vars

\* while (!ap_boot_done && timeout > 0) { mdelay(1); timeout--; }
WaitTick ==
    /\ pc = "wait" /\ bootDone = 0 /\ tmo > 0
    /\ tmo' = tmo - 1
    /\ UNCHANGED <<pc, i, bootId, bootDone, ap, apId, cstate, online, count, pending, callIpi,
                   glock, acall>>

\* The loop ends; spin_unlock(&ap_boot_lock).
WaitEnd ==
    /\ pc = "wait" /\ (bootDone = 1 \/ tmo = 0)
    /\ pc' = "check"
    /\ UNCHANGED <<i, tmo, bootId, bootDone, ap, apId, cstate, online, count, pending, callIpi,
                   glock, acall>>

\* if (!ap_boot_done) -> Offline, return -1; else Online, set in
\* online_mask, return 0, and smp_init increments cpu_count.  ap_boot_done
\* is read again here, after the unlock.
Check ==
    /\ pc = "check"
    /\ IF bootDone = 1
       THEN /\ cstate' = [cstate EXCEPT ![i] = "Online"]
            /\ online' = online \cup {i}
            /\ count' = count + 1
       ELSE /\ cstate' = [cstate EXCEPT ![i] = "Offline"]
            /\ UNCHANGED <<online, count>>
    /\ i' = i + 1 /\ pc' = "boot"
    /\ UNCHANGED <<tmo, bootId, bootDone, ap, apId, pending, callIpi, glock, acall>>

\* The CPUs smp_send_ipi_others(IPI_CALL_FUNC) reaches from CPU self: it
\* loops over i < cpu_count, skips self and CPUs not in online_mask, and
\* smp_send_ipi drops any i >= cpu_count.
CallTargets(self) == {j \in CPUs : j # self /\ j < count /\ j \in online}

\* lapic_send_ipi(apic_id, VECTOR_IPI_CALL) to each target: the fixed IPI
\* is latched in the target's APIC until its handler runs.
SendIpis(ci, targets) == [j \in CPUs |-> ci[j] \/ j \in targets]

\* smp_call_function(func, arg, 1) on CPU self, once spin_lock_irqsave has
\* taken global_lock: ipi_pending = cpu_count - 1, the IPIs, then func on
\* self.  A CPU that finds the lock held spins with interrupts off.
StartCall(self) ==
    /\ glock = NoCpu /\ glock' = self
    /\ pending' = count - 1
    /\ callIpi' = SendIpis(callIpi, CallTargets(self))

\* The BSP's call, made once bring-up is over.
Call ==
    /\ pc = "call" /\ StartCall(0)
    /\ pc' = "call_wait"
    /\ UNCHANGED <<i, tmo, bootId, bootDone, ap, apId, cstate, online, count, acall>>

\* while (atomic_read(&ipi_pending) > 0) cpu_relax(); then the unlock and
\* the restore of the interrupt flag.
CallReturn ==
    /\ pc = "call_wait" /\ pending <= 0
    /\ pc' = "done" /\ glock' = NoCpu
    /\ UNCHANGED <<i, tmo, bootId, bootDone, ap, apId, cstate, online, count, pending, callIpi,
                   acall>>

\* ipi_call_handler on the BSP: it runs outside the BSP's own
\* smp_call_function (which has interrupts off from spin_lock_irqsave on).
BspCall ==
    /\ callIpi[0] /\ pc \in {"boot", "wait", "check", "done"}
    /\ callIpi' = [callIpi EXCEPT ![0] = FALSE]
    /\ pending' = AtomicDec(pending)
    /\ UNCHANGED <<pc, i, tmo, bootId, bootDone, ap, apId, cstate, online, count, glock, acall>>

(***************************************************************************)
(* The APs.                                                                *)
(***************************************************************************)
\* The trampoline reaches ap_entry: cpu_id = ap_boot_cpu_id.
ApEntry(a) ==
    /\ ap[a] = "sipi"
    /\ ap' = [ap EXCEPT ![a] = "init"] /\ apId' = [apId EXCEPT ![a] = bootId]
    /\ UNCHANGED <<pc, i, tmo, bootId, bootDone, cstate, online, count, pending, callIpi,
                   glock, acall>>

\* lapic_init_ap .. sched_init_cpu, ready_count++, ap_boot_done = 1,
\* local_irq_enable, idle loop.
ApReady(a) ==
    /\ ap[a] = "init"
    /\ ap' = [ap EXCEPT ![a] = "up"] /\ bootDone' = 1
    /\ UNCHANGED <<pc, i, tmo, bootId, apId, cstate, online, count, pending, callIpi,
                   glock, acall>>

\* AP a's interrupts are on: it is past local_irq_enable in ap_entry and
\* not inside its own smp_call_function.
IrqOn(a) == ap[a] = "up" /\ (a \in ApCallers => acall[a] \in {"none", "done"})

\* ipi_call_handler on AP a, once its interrupts are on: func(arg),
\* atomic_dec(&ipi_pending), EOI.
ApCall(a) ==
    /\ IrqOn(a) /\ callIpi[a]
    /\ callIpi' = [callIpi EXCEPT ![a] = FALSE]
    /\ pending' = AtomicDec(pending)
    /\ UNCHANGED <<pc, i, tmo, bootId, bootDone, ap, apId, cstate, online, count, glock, acall>>

\* A thread on AP a calls smp_call_function: local_irq_save, then it spins
\* on global_lock.
ApCallBegin(a) ==
    /\ ap[a] = "up" /\ acall[a] = "none"
    /\ acall' = [acall EXCEPT ![a] = "spin"]
    /\ UNCHANGED <<pc, i, tmo, bootId, bootDone, ap, apId, cstate, online, count, pending, callIpi,
                   glock>>

\* ... the lock is free: it takes it and sends the IPIs.
ApCallStart(a) ==
    /\ acall[a] = "spin" /\ StartCall(a)
    /\ acall' = [acall EXCEPT ![a] = "wait"]
    /\ UNCHANGED <<pc, i, tmo, bootId, bootDone, ap, apId, cstate, online, count>>

\* ... ipi_pending has dropped to zero: unlock, interrupts back on.
ApCallReturn(a) ==
    /\ acall[a] = "wait" /\ pending <= 0
    /\ acall' = [acall EXCEPT ![a] = "done"] /\ glock' = NoCpu
    /\ UNCHANGED <<pc, i, tmo, bootId, bootDone, ap, apId, cstate, online, count, pending, callIpi>>

Bsp == BootNext \/ WaitTick \/ WaitEnd \/ Check \/ Call \/ CallReturn

ApCaller(a) == ApCallBegin(a) \/ ApCallStart(a) \/ ApCallReturn(a)

Next ==
    \/ Bsp \/ BspCall
    \/ \E a \in APs : ApEntry(a) \/ ApReady(a) \/ ApCall(a)
    \/ \E a \in ApCallers : ApCaller(a)

\* The BSP runs until it spins; an AP that entered ap_entry finishes its
\* setup and takes its IPIs while its interrupts are on; a caller that has
\* started its smp_call_function keeps spinning on the lock and on
\* ipi_pending.  An AP may never enter ap_entry at all, and a thread need
\* not make its call.
Fairness ==
    /\ WF_vars(Bsp) /\ WF_vars(BspCall)
    /\ \A a \in APs : WF_vars(ApReady(a)) /\ WF_vars(ApCall(a))
    /\ \A a \in ApCallers : WF_vars(ApCallStart(a)) /\ WF_vars(ApCallReturn(a))

Spec == Init /\ [][Next]_vars /\ Fairness

(***************************************************************************)
(* Properties.                                                             *)
(***************************************************************************)
TypeOK ==
    /\ pc \in {"boot", "wait", "check", "call", "call_wait", "done"}
    /\ i \in 1..NCPU /\ tmo \in 0..TIMEOUT
    /\ bootId \in CPUs /\ bootDone \in {0, 1}
    /\ ap \in [APs -> {"off", "sipi", "init", "up"}] /\ apId \in [APs -> CPUs]
    /\ cstate \in [CPUs -> CpuStates]
    /\ online \subseteq CPUs /\ count \in 1..NCPU
    /\ callIpi \in [CPUs -> BOOLEAN] /\ glock \in CPUs \cup {NoCpu}
    /\ acall \in [ApCallers -> {"none", "spin", "wait", "done"}]

\* Every smp_boot_cpu call returns, whether or not its AP ever starts: the
\* BSP's wait for ap_boot_done is bounded by the timeout.
BootTerminates == <>(pc \in {"call", "call_wait", "done"})

\* A CPU's smp_call_function(..., wait = 1) is returning.
Returns(c) ==
    IF c = 0 THEN pc = "call_wait" /\ pc' = "done"
    ELSE acall[c] = "wait" /\ acall'[c] = "done"

\* The contract of smp_call_function(..., wait = 1), from every CPU that
\* calls it: the call returns (spec section 5: after an AP times out "the
\* system continues normally"), and it returns only once every IPI it sent
\* has been handled, i.e. no IPI_CALL_FUNC is still latched.
CallCompletes ==
    /\ <>(pc = "done")
    /\ \A a \in ApCallers : acall[a] = "spin" ~> acall[a] = "done"
    /\ [][\A c \in {0} \cup ApCallers : Returns(c) => \A j \in CPUs : ~callIpi[j]]_vars

=============================================================================
