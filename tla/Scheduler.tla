----------------------------- MODULE Scheduler -----------------------------
(***************************************************************************)
(* The SMP scheduler of osFree: per-CPU run queues with (class, level)     *)
(* FIFO lists and bitmaps (kernel/sched/scheduler.c), the interrupt entry  *)
(* points that drive it (kernel/apic/apic.c, kernel/smp/smp.c) and the     *)
(* OS/2 thread API that calls into it (os3/api/doscalls_thread.c).         *)
(*                                                                         *)
(* Every code path that runs under one run-queue or thread lock, or with   *)
(* interrupts disabled, is one step.  Where the code drops a lock and      *)
(* enqueues afterwards (DosResumeThread, apply_priority_change, the load   *)
(* balancer) the enqueue is a second step of the calling thread, recorded  *)
(* in its field "enq"; other CPUs, and interrupts on its own CPU, run in   *)
(* between.                                                                *)
(***************************************************************************)
EXTENDS RunQueue, SequencesExt, Functions

CONSTANTS
    CPUS,             \* logical CPU ids 0..N-1 (cpu_possible)
    Online,           \* online_mask after smp_init: the CPUs with a run queue;
                      \* cpu_count is their number
    Threads,          \* user threads (model values)
    IdleOf,           \* [CPUS -> idle thread]: rq->idle of each CPU
    NoThread,         \* NULL thread pointer
    SLICE,            \* timeslice_max (DEFAULT_TIMESLICE_MS, reduced)
    BALANCE_INTERVAL, \* LOAD_BALANCE_INTERVAL (reduced)
    MaxQueueLen,      \* bound: longest list the model lets a queue reach
    MaxSuspend,       \* bound: largest suspend_count
    PClasses,         \* DosSetPriority ulClass inputs, 0..4
    Deltas,           \* DosSetPriority delta inputs, -31..31
    Masks,            \* DosSetThreadAffinity mask inputs
    Calls             \* the API calls the user threads make in this model

ASSUME CPUS = 0..(Cardinality(CPUS) - 1)
ASSUME 0 \in Online /\ Online \subseteq CPUS
ASSUME IdleOf \in [CPUS -> {IdleOf[c] : c \in CPUS}] /\ IsInjective(IdleOf)
ASSUME Range(IdleOf) \cap Threads = {} /\ NoThread \notin Threads \cup Range(IdleOf)
ASSUME PClasses \subseteq 0..4 /\ Deltas \subseteq -31..31
ASSUME \A m \in Masks : m \subseteq CPUS /\ m # {}
ASSUME Calls \subseteq {"create", "create_suspended", "block", "wake", "yield", "suspend", "resume",
                        "priority", "affinity", "kill", "critsec"}

CpuCount   == Cardinality(Online)      \* smp_info.cpu_count
Idles      == Range(IdleOf)
AllThreads == Threads \cup Idles
States     == {"Unborn", "Ready", "Running", "Blocked", "Suspended"}   \* THREAD_STATE_*, plus not yet created
\* What a thread still owes: a schedule(), a spin on critsec_lock, or the
\* spin_unlock after preempt_enable() switched it away.
Conts      == {"none", "sched", "suspend", "crit", "unlock"}

VARIABLES
    rq,            \* [CPUS -> run_queue_t]
    th,            \* [AllThreads -> thread_t]
    preempt,       \* preempt_counter: ONE int shared by all CPUs (see README)
    ipi,           \* [CPUS -> BOOLEAN]: a reschedule IPI pending in the APIC
    need_balance,  \* scheduler.need_balance
    crit,          \* the process's critsec_lock holder and critsec_count;
                   \* inside is a history variable: the threads that
                   \* returned from DosEnterCritSec and have not yet
                   \* called DosExitCritSec
    bal,           \* [CPUS -> thread]: the enqueue_thread still owed by the
                   \* CPU's idle-loop context (the thread the balancer has
                   \* detached; on CPU 0 also the boot code's calls)
    oops           \* a CPU dereferenced a NULL pointer: current_thread(), or
                   \* scheduler.runqueues[cpu] of a CPU that is not online

vars == <<rq, th, preempt, ipi, need_balance, crit, bal, oops>>

(***************************************************************************)
(* The run-queue operations, as functions of a record S holding the        *)
(* variables rq, th and ipi, so that a handler can chain them.             *)
(***************************************************************************)
Sys == [rq |-> rq, th |-> th, ipi |-> ipi, oops |-> oops]

\* The (class, level) list a thread belongs to: queues[sched_class][dyn % 32].
KeyIn(ths, t) == <<ths[t].cls, ths[t].dyn % 32>>

\* list_del_init(&t->run_list): unlinks t from whatever list holds it,
\* whichever run queue that is; a no-op for a node on no list.
Unlink(rqs, t) ==
    IF \E c \in CPUS, k \in Keys : Contains(rqs[c].q[k], t)
    THEN LET ck == CHOOSE ck \in CPUS \X Keys : Contains(rqs[ck[1]].q[ck[2]], t)
         IN [rqs EXCEPT ![ck[1]].q[ck[2]] = RemoveFirst(@, t)]
    ELSE rqs

\* enqueue_thread's CPU when preferred_cpu is not in the affinity: the
\* first allowed CPU below cpu_count, or cpu_count if there is none.
FirstAllowed(aff) ==
    LET ok == {x \in aff : x < CpuCount} IN IF ok = {} THEN CpuCount ELSE Min(ok)

\* enqueue_thread(t) (scheduler.c:170-214), executed on CPU c.  The run
\* queue of a CPU that is not online is NULL; smp_send_ipi drops a target
\* at or above cpu_count.
EnqueueS(S, t, c) ==
    LET tt   == S.th[t]
        cpu  == IF tt.pref \in tt.aff THEN tt.pref ELSE FirstAllowed(tt.aff)
        k    == KeyIn(S.th, t)
        cur  == S.rq[cpu].cur
        me   == S.rq[c].cur
        kick == cur # NoThread /\ tt.dyn > S.th[cur].dyn
    IN IF cpu \notin Online THEN [S EXCEPT !.oops = TRUE]
       ELSE [S EXCEPT !.rq[cpu] = AddToRq(@, t, k),
                      !.th = IF kick /\ me # NoThread
                             THEN [@ EXCEPT ![t].st = "Ready", ![me].resched = TRUE]
                             ELSE [@ EXCEPT ![t].st = "Ready"],
                      !.ipi[cpu] = @ \/ (kick /\ cpu # c /\ cpu < CpuCount),
                      !.oops = @ \/ (kick /\ me = NoThread)]

\* dequeue_thread(t) (scheduler.c:219-245): counters of rq[last_cpu].
DequeueS(S, t) ==
    LET cpu == S.th[t].last
        k   == KeyIn(S.th, t)
        r1  == Unlink(S.rq, t)
    IN [S EXCEPT !.rq = [r1 EXCEPT ![cpu] = DropCount(@, k)]]

\* Mutant: schedule() that marks a still-running prev Ready without putting
\* it back on its list.
ScheduleSNoRequeue(S, c, pc) ==
    LET prev == S.rq[c].cur
    IN IF pc > 0 /\ prev = NoThread THEN [S EXCEPT !.oops = TRUE]
       ELSE IF pc > 0 /\ S.th[prev].st = "Running" THEN S
       ELSE
       LET S1 == IF prev = NoThread THEN S
                 ELSE [S EXCEPT !.th[prev].resched = FALSE]
           S2 == IF prev # NoThread /\ S1.th[prev].st = "Running"
                 THEN [S1 EXCEPT !.th[prev].st = "Ready"]
                 ELSE S1
           next == PickNext(S2.rq[c], IdleOf[c])
           S3 == IF next # IdleOf[c] /\ S2.th[next].st = "Ready"
                 THEN LET r1 == Unlink(S2.rq, next)
                      IN [S2 EXCEPT !.rq = [r1 EXCEPT ![c] = DropCount(@, KeyIn(S2.th, next))]]
                 ELSE S2
       IN [S3 EXCEPT !.th[next] = [@ EXCEPT !.st = "Running", !.last = c,
                                            !.slice = IF next \in Idles THEN 0 ELSE SLICE],
                     !.rq[c].cur = next]

\* timeslice_max: DEFAULT_TIMESLICE_MS for threads DosCreateThread makes,
\* never set (0) for the idle threads sched_init_cpu makes.
SliceMax(t) == IF t \in Idles THEN 0 ELSE SLICE

(***************************************************************************)
(* schedule() (scheduler.c:250-342) on CPU c with preempt counter pc.      *)
(***************************************************************************)
ScheduleS(S, c, pc) ==
    LET prev == S.rq[c].cur
    IN IF pc > 0 /\ prev = NoThread THEN [S EXCEPT !.oops = TRUE]
       ELSE IF pc > 0 /\ S.th[prev].st = "Running" THEN S
       ELSE
       LET S1 == IF prev = NoThread THEN S
                 ELSE [S EXCEPT !.th[prev].resched = FALSE]
           S2 == IF prev # NoThread /\ S1.th[prev].st = "Running"
                 THEN [S1 EXCEPT !.th[prev].st = "Ready",
                                 !.rq[c] = AddToRq(@, prev, KeyIn(S1.th, prev))]
                 ELSE S1
           next == PickNext(S2.rq[c], IdleOf[c])
           S3 == IF next # IdleOf[c] /\ S2.th[next].st = "Ready"
                 THEN LET r1 == Unlink(S2.rq, next)
                      IN [S2 EXCEPT !.rq = [r1 EXCEPT ![c] = DropCount(@, KeyIn(S2.th, next))]]
                 ELSE S2
       IN [S3 EXCEPT !.th[next] = [@ EXCEPT !.st = "Running", !.last = c,
                                            !.slice = SliceMax(next)],
                     !.rq[c].cur = next]

\* sched_tick() (scheduler.c:347-385) on CPU c.  boost_ticks is always 0:
\* boost_thread_priority has no caller, so the decay branch is dead code.
TickS(S, c) ==
    LET cur == S.rq[c].cur
        n   == (S.rq[c].ticks + 1) % BALANCE_INTERVAL
        sl  == IF S.th[cur].slice > 0 THEN S.th[cur].slice - 1 ELSE 0
    IN IF cur = NoThread \/ cur = IdleOf[c] THEN S
       ELSE [S EXCEPT !.rq[c].ticks = n,
                      !.th[cur] = [@ EXCEPT !.slice = sl,
                                            !.resched = @ \/ sl = 0]]

\* tick_count % balance_interval = 0 after the increment: need_balance is set.
BalanceDue(S, c) ==
    S.rq[c].cur \notin {NoThread, IdleOf[c]} /\ S.rq[c].ticks = 0

(***************************************************************************)
(* The state after sched_init_cpu() on every CPU (scheduler.c:42-66,       *)
(* 93-128): empty queues, rq->current = NULL, each idle thread bound to    *)
(* its CPU.  thread_create (not part of this source) is taken to zero-fill *)
(* the record: state = 0 = READY, last_cpu = 0, timeslice_max = 0.         *)
(***************************************************************************)
EmptyRq == [q |-> [k \in Keys |-> <<>>], cnt |-> [k \in Keys |-> 0], nr |-> 0,
            act |-> [c \in Classes |-> {}], cbm |-> {}, cur |-> NoThread,
            ticks |-> 0]

IdleInit(c) ==
    [st |-> "Ready", cls |-> 0, base |-> 0, dyn |-> 0, slice |-> 0,
     aff |-> {c}, last |-> 0, pref |-> c, resched |-> FALSE, susp |-> 0,
     term |-> FALSE, enq |-> NoThread, k |-> "none"]

Unborn ==
    [st |-> "Unborn", cls |-> 1, base |-> 16, dyn |-> 16, slice |-> SLICE,
     aff |-> CPUS, last |-> 0, pref |-> 0, resched |-> FALSE, susp |-> 0,
     term |-> FALSE, enq |-> NoThread, k |-> "none"]

Init ==
    /\ rq = [c \in CPUS |-> EmptyRq]
    /\ th = [t \in AllThreads |->
                IF t \in Threads THEN Unborn
                ELSE IdleInit(CHOOSE c \in CPUS : IdleOf[c] = t)]
    /\ preempt = 0
    /\ ipi = [c \in CPUS |-> FALSE]
    /\ need_balance = FALSE
    /\ crit = [holder |-> NoThread, count |-> 0, inside |-> {}]
    /\ bal = [c \in CPUS |-> NoThread]
    /\ oops = FALSE

Apply(S) == rq' = S.rq /\ th' = S.th /\ ipi' = S.ipi /\ oops' = S.oops

(***************************************************************************)
(* Who executes on a CPU.  An API call is made by the user thread current  *)
(* on c that owes no continuation; the idle loop runs while the current    *)
(* thread is NULL (before the first schedule()) or the CPU's idle thread.  *)
(***************************************************************************)
Caller(c)   == rq[c].cur
UserCpu(c)  == Caller(c) \in Threads /\ th[Caller(c)].k = "none"
                                      /\ th[Caller(c)].enq = NoThread
IdleCtx(c)  == Caller(c) \in {NoThread, IdleOf[c]}

(***************************************************************************)
(* apic_timer_handler (apic.c:406-417): sched_tick, EOI, then schedule()   *)
(* if the current thread's NEED_RESCHED flag is set.                       *)
(***************************************************************************)
Timer(c) ==
    /\ \/ /\ Caller(c) # NoThread
          /\ LET S1 == TickS(Sys, c)
             IN Apply(IF S1.th[Caller(c)].resched THEN ScheduleS(S1, c, preempt) ELSE S1)
                /\ need_balance' = (need_balance \/ BalanceDue(S1, c))
       \/ /\ Caller(c) = NoThread /\ c # 0   \* need_resched() reads NULL->flags
          /\ oops' = TRUE
          /\ UNCHANGED <<rq, th, ipi, need_balance>>
    /\ UNCHANGED <<preempt, crit, bal>>

\* ipi_reschedule_handler (smp.c:358-361): set NEED_RESCHED on the current
\* thread and EOI; the switch waits for the next reschedule point.
RescheduleIpi(c) ==
    /\ ipi[c]
    /\ ipi' = [ipi EXCEPT ![c] = FALSE]
    /\ IF Caller(c) = NoThread
       THEN oops' = TRUE /\ UNCHANGED th
       ELSE th' = [th EXCEPT ![Caller(c)].resched = TRUE] /\ UNCHANGED oops
    /\ UNCHANGED <<rq, preempt, need_balance, crit, bal>>

(***************************************************************************)
(* The idle loop of ap_entry (smp.c:297-307): schedule() when the run      *)
(* queue counts work, otherwise idle_balance() -> trigger_load_balance()   *)
(* (scheduler.c:403-489) and hlt.                                          *)
(***************************************************************************)
\* The busiest-CPU scan of trigger_load_balance: online CPUs below cpu_count
\* in index order, a CPU replaces the candidate only when its load exceeds
\* the candidate's by 2.
Busiest(c) ==
    LET step(acc, x) == IF x # c /\ x \in Online /\ x < CpuCount /\ rq[x].nr > acc[2] + 1
                        THEN <<x, rq[x].nr>> ELSE acc
    IN FoldLeft(step, <<c, rq[c].nr>>, [i \in 1..Cardinality(CPUS) |-> i - 1])[1]

\* Threads the migration loop may take from list k of CPU b for CPU c: the
\* 1 ms cache-hot test depends on a clock the model does not keep, so any
\* entry that passes the affinity and BOUND tests may be the first one that
\* also passes it.
Migratable(b, c, k) ==
    {t \in ToSet(rq[b].q[k]) : c \in th[t].aff /\ t \notin Idles}

IdleLoop(c) ==
    /\ IdleCtx(c)
    /\ bal[c] = NoThread
    /\ \/ /\ rq[c].nr > 0
          /\ Apply(ScheduleS(Sys, c, preempt))
          /\ UNCHANGED bal
       \/ /\ rq[c].nr = 0
          /\ LET b == Busiest(c) IN
             \/ UNCHANGED <<rq, th, ipi, bal, oops>>   \* nothing migratable, or all hot
             \/ \E k \in Keys : \E t \in Migratable(b, c, k) :
                  LET n == Dec(rq[b].cnt[k])
                  IN /\ b # c
                     /\ rq' = [rq EXCEPT ![b].q[k] = RemoveFirst(@, t),
                                         ![b].cnt[k] = n,
                                         ![b].nr = Dec(@),
                                         ![b].act[k[1]] = IF n = 0 THEN @ \ {31 - k[2]}
                                                          ELSE @]
                     /\ th' = [th EXCEPT ![t].pref = c]
                     /\ bal' = [bal EXCEPT ![c] = t]
                     /\ UNCHANGED <<ipi, oops>>
    /\ UNCHANGED <<preempt, need_balance, crit>>

\* The rest of trigger_load_balance after the source lock is dropped:
\* enqueue_thread(thread) on this CPU (scheduler.c:467-468); on CPU 0 also
\* the enqueue the boot code owes after apply_priority_change.
BalanceEnqueue(c) ==
    /\ IdleCtx(c)
    /\ bal[c] # NoThread
    /\ Apply(EnqueueS(Sys, bal[c], c))
    /\ bal' = [bal EXCEPT ![c] = NoThread]
    /\ UNCHANGED <<preempt, need_balance, crit>>

(***************************************************************************)
(* Calls a user thread makes.                                              *)
(***************************************************************************)
\* DosSleep(0) -> sched_yield (doscalls_thread.c:338-342, scheduler.c:390-398).
Yield(c) ==
    /\ "yield" \in Calls
    /\ UserCpu(c)
    /\ Apply(ScheduleS([Sys EXCEPT !.th[Caller(c)].slice = 0], c, preempt))
    /\ UNCHANGED <<preempt, need_balance, crit, bal>>

\* thread_block (scheduler.c:494-506) up to its final schedule(): the state
\* becomes Blocked between preempt_disable and preempt_enable, and
\* preempt_enable switches away at once if the counter drops to 0 with
\* NEED_RESCHED set.  Either way the trailing schedule() is still owed.
Block(c) ==
    /\ "block" \in Calls
    /\ UserCpu(c)
    /\ LET t  == Caller(c)
           S1 == [Sys EXCEPT !.th[t].st = "Blocked", !.th[t].k = "sched"]
       IN Apply(IF preempt = 0 /\ th[t].resched THEN ScheduleS(S1, c, 0) ELSE S1)
    /\ UNCHANGED <<preempt, need_balance, crit, bal>>

\* The schedule() call at the end of thread_block (scheduler.c:505), made
\* when the blocking thread next executes on some CPU.
BlockSchedule(c) ==
    /\ Caller(c) \in Threads
    /\ th[Caller(c)].k = "sched"
    /\ Apply(ScheduleS([Sys EXCEPT !.th[Caller(c)].k = "none"], c, preempt))
    /\ UNCHANGED <<preempt, need_balance, crit, bal>>

\* thread_unblock(t), called on CPU c by a waking thread or an interrupt
\* handler (a sleep timer): the wait-queue collaborator makes t Ready and
\* enqueues it.  enqueue_thread's set_need_resched() then marks whatever
\* thread is current on c.
Wake(c, t) ==
    /\ "wake" \in Calls
    /\ Caller(c) # NoThread
    /\ th[t].st = "Blocked"
    /\ Apply(EnqueueS(Sys, t, c))
    /\ UNCHANGED <<preempt, need_balance, crit, bal>>

\* DosCreateThread (doscalls_thread.c:20-74) with CREATE_READY.  Callers are
\* user threads, and the BSP's boot context before its first schedule().
BootCtx(c)      == c = 0 /\ Caller(c) = NoThread /\ bal[c] = NoThread
CreateCaller(c) == UserCpu(c) \/ BootCtx(c)

NewThread(c) == [Unborn EXCEPT !.pref = c]

CreateReady(c, t) ==
    /\ "create" \in Calls
    /\ CreateCaller(c)
    /\ th[t].st = "Unborn"
    /\ Apply(EnqueueS([Sys EXCEPT !.th[t] = NewThread(c)], t, c))
    /\ UNCHANGED <<preempt, need_balance, crit, bal>>

\* DosCreateThread with CREATE_SUSPENDED: the state is Suspended and the
\* suspend_count stays 0.
CreateSuspended(c, t) ==
    /\ "create_suspended" \in Calls
    /\ CreateCaller(c)
    /\ th[t].st = "Unborn"
    /\ th' = [th EXCEPT ![t] = [NewThread(c) EXCEPT !.st = "Suspended"]]
    /\ UNCHANGED <<rq, ipi, preempt, need_balance, crit, bal, oops>>

(***************************************************************************)
(* Thread API calls that drop a lock before enqueue_thread: the call owes  *)
(* the enqueue, recorded in the caller's "enq", as its next step.          *)
(***************************************************************************)
Found(t) == t \in Threads /\ th[t].st # "Unborn"      \* find_thread_by_tid

\* The new (class, base, dynamic) of apply_priority_change.
NewClass(t, pcl) == IF pcl = 0 THEN th[t].cls ELSE pcl - 1
NewBase(t, d)    == LET p == th[t].base + d IN IF p < 0 THEN 0 ELSE IF p > 31 THEN 31 ELSE p
NewDyn(t, pcl, d) == Os2ToInternal(NewClass(t, pcl) + 1, NewBase(t, d) - 16)

\* Mutant: apply_priority_change that takes a Ready thread off its list and
\* never puts it back.
SetPriorityNoRequeue(c, t, pcl, d) ==
    /\ "priority" \in Calls
    /\ CreateCaller(c)
    /\ Found(t)
    /\ <<NewClass(t, pcl), NewDyn(t, pcl, d) % 32>> \in Keys
    /\ LET S1 == IF th[t].st = "Ready" THEN DequeueS(Sys, t) ELSE Sys
       IN Apply([S1 EXCEPT !.th[t].cls  = NewClass(t, pcl),
                           !.th[t].base = NewBase(t, d),
                           !.th[t].dyn  = NewDyn(t, pcl, d)])
    /\ UNCHANGED <<preempt, need_balance, crit, bal>>

\* DosSetPriority(PRTYS_THREAD, pcl, d, t) (doscalls_thread.c:195-276) and
\* apply_priority_change (281-314) up to the unlock.  Inputs whose list
\* falls outside Keys are not enumerated.
SetPriority(c, t, pcl, d) ==
    /\ "priority" \in Calls
    /\ CreateCaller(c)
    /\ Found(t)
    /\ <<NewClass(t, pcl), NewDyn(t, pcl, d) % 32>> \in Keys
    /\ LET was == th[t].st = "Ready"
           S1  == IF was THEN DequeueS(Sys, t) ELSE Sys
           S2  == [S1 EXCEPT !.th[t].cls  = NewClass(t, pcl),
                             !.th[t].base = NewBase(t, d),
                             !.th[t].dyn  = NewDyn(t, pcl, d)]
       IN IF was /\ BootCtx(c)
          THEN Apply(S2) /\ bal' = [bal EXCEPT ![c] = t]
          ELSE Apply([S2 EXCEPT !.th[Caller(c)].enq = IF was THEN t ELSE @])
               /\ UNCHANGED bal
    /\ UNCHANGED <<preempt, need_balance, crit>>

\* DosSuspendThread (doscalls_thread.c:117-149).  A thread suspending itself
\* calls schedule() after the unlock: that call is its continuation.
Suspend(c, t) ==
    /\ "suspend" \in Calls
    /\ UserCpu(c)
    /\ Found(t)
    /\ th[t].susp < MaxSuspend
    /\ LET S1 == [Sys EXCEPT !.th[t].susp = @ + 1]
           S2 == CASE th[t].st = "Ready" ->
                        [DequeueS(S1, t) EXCEPT !.th[t].st = "Suspended"]
                   [] th[t].st = "Running" /\ t = Caller(c) ->
                        [S1 EXCEPT !.th[t].st = "Suspended", !.th[t].k = "suspend"]
                   [] th[t].st = "Running" ->
                        [S1 EXCEPT !.th[t].st = "Suspended", !.ipi[th[t].last] = TRUE]
                   [] OTHER -> S1
       IN Apply(S2)
    /\ UNCHANGED <<preempt, need_balance, crit, bal>>

\* Mutant: DosResumeThread without the ERROR_NOT_FROZEN check.
ResumeNoFrozenCheck(c, t) ==
    /\ "resume" \in Calls
    /\ UserCpu(c)
    /\ Found(t)
    /\ LET wake == th[t].susp = 1 /\ th[t].st = "Suspended"
       IN th' = [th EXCEPT ![t].susp = @ - 1,
                           ![t].st   = IF wake THEN "Ready" ELSE @,
                           ![Caller(c)].enq = IF wake THEN t ELSE NoThread]
    /\ UNCHANGED <<rq, ipi, preempt, need_balance, crit, bal, oops>>

\* DosResumeThread (doscalls_thread.c:154-184) up to the unlock; a zero
\* suspend_count returns ERROR_NOT_FROZEN and changes nothing.
Resume(c, t) ==
    /\ "resume" \in Calls
    /\ UserCpu(c)
    /\ Found(t)
    /\ th[t].susp > 0
    /\ LET wake == th[t].susp = 1 /\ th[t].st = "Suspended"
       IN th' = [th EXCEPT ![t].susp = @ - 1,
                           ![t].st   = IF wake THEN "Ready" ELSE @,
                           ![Caller(c)].enq = IF wake THEN t ELSE NoThread]
    /\ UNCHANGED <<rq, ipi, preempt, need_balance, crit, bal, oops>>

\* The enqueue_thread call a caller owes after dropping the thread lock.
EnqueuePending(c) ==
    /\ Caller(c) \in Threads
    /\ th[Caller(c)].enq # NoThread
    /\ Apply([EnqueueS(Sys, th[Caller(c)].enq, c) EXCEPT !.th[Caller(c)].enq = NoThread])
    /\ UNCHANGED <<preempt, need_balance, crit, bal>>

\* The schedule() a self-suspending thread calls after dropping its lock
\* (doscalls_thread.c:136-138).
SuspendSchedule(c) ==
    /\ Caller(c) \in Threads
    /\ th[Caller(c)].k = "suspend"
    /\ Apply(ScheduleS([Sys EXCEPT !.th[Caller(c)].k = "none"], c, preempt))
    /\ UNCHANGED <<preempt, need_balance, crit, bal>>

\* DosKillThread (doscalls_thread.c:79-112): mark TERMINATING, unblock a
\* Blocked target, and send a reschedule IPI to the CPU a Running target
\* last ran on.  Nothing in this source ever reads the flag.
Kill(c, t) ==
    /\ "kill" \in Calls
    /\ UserCpu(c)
    /\ Found(t)
    /\ t # Caller(c)
    /\ LET S1 == [Sys EXCEPT !.th[t].term = TRUE]
           S2 == IF th[t].st = "Blocked" THEN EnqueueS(S1, t, c) ELSE S1
       IN Apply(IF S2.th[t].st = "Running" /\ th[t].last # c
                THEN [S2 EXCEPT !.ipi[th[t].last] = TRUE] ELSE S2)
    /\ UNCHANGED <<preempt, need_balance, crit, bal>>

\* set_thread_affinity's check: some CPU of the mask is online and below
\* cpu_count; otherwise it returns -1 and changes nothing.
AffinityValid(m) == \E i \in m : i < CpuCount /\ i \in Online

\* set_thread_affinity(t, m) (scheduler.c:547-575) on CPU c, one step under
\* scheduler.global_lock, for a valid mask: a Ready thread whose last_cpu leaves the mask is
\* dequeued, given the mask's first CPU as preferred_cpu and enqueued again.
SetThreadAffinityS(S, t, m, c) ==
    LET S1 == [S EXCEPT !.th[t].aff = m]
    IN IF S.th[t].last \notin m /\ S.th[t].st = "Ready"
       THEN EnqueueS([DequeueS(S1, t) EXCEPT !.th[t].pref = Min(m)], t, c)
       ELSE S1

\* DosSetThreadAffinity (doscalls_thread.c:393-416): find the thread, then
\* set_thread_affinity.
Affinity(c, t, m) ==
    /\ "affinity" \in Calls
    /\ CreateCaller(c)
    /\ Found(t)
    /\ AffinityValid(m)
    /\ Apply(SetThreadAffinityS(Sys, t, m, c))
    /\ UNCHANGED <<preempt, need_balance, crit, bal>>

(***************************************************************************)
(* DosEnterCritSec / DosExitCritSec (doscalls_thread.c:354-387) with       *)
(* preempt_disable / preempt_enable (scheduler.c:526-543).  critsec_lock   *)
(* is a spinlock of the process: a caller that finds it held spins in the  *)
(* "crit" continuation, interruptible by the timer, until it is free.      *)
(***************************************************************************)
\* spin_lock(&critsec_lock); critsec_count++; preempt_disable().
TakeCrit(t) ==
    /\ crit' = [holder |-> t, count |-> crit.count + 1, inside |-> crit.inside \cup {t}]
    /\ preempt' = preempt + 1

\* The caller is a user thread making the call, or one already spinning in
\* spin_lock's loop, which retests the lock each time it runs.
CritCaller(c) ==
    \/ UserCpu(c) /\ "critsec" \in Calls
    \/ Caller(c) \in Threads /\ th[Caller(c)].k = "crit"

EnterCritSec(c) ==
    /\ CritCaller(c)
    /\ \/ /\ crit.holder = NoThread
          /\ TakeCrit(Caller(c))
          /\ th' = [th EXCEPT ![Caller(c)].k = "none"]
       \/ /\ crit.holder # NoThread
          /\ th' = [th EXCEPT ![Caller(c)].k = "crit"]
          /\ UNCHANGED <<crit, preempt>>
    /\ UNCHANGED <<rq, ipi, need_balance, bal, oops>>

\* preempt_enable's test after the decrement: the counter is 0 and the
\* current thread's NEED_RESCHED is set, so it calls schedule().
Resched(c, count) == count = 0 /\ th[Caller(c)].resched

\* DosExitCritSec when critsec_count > 0 (at 0 it returns
\* ERROR_CRITSEC_UNDERFLOW and changes nothing).  It checks neither who
\* holds the lock nor who entered.  preempt_enable() calls schedule() when
\* the counter reaches 0 with NEED_RESCHED set; spin_unlock comes after it,
\* so a caller switched away there still holds critsec_lock.
ExitCritSec(c) ==
    /\ "critsec" \in Calls
    /\ UserCpu(c)
    /\ crit.count > 0
    /\ preempt' = preempt - 1
    /\ IF Resched(c, preempt - 1)
       THEN /\ Apply(ScheduleS([Sys EXCEPT !.th[Caller(c)].k = "unlock"], c, 0))
            /\ crit' = [crit EXCEPT !.count = @ - 1, !.inside = @ \ {Caller(c)}]
       ELSE /\ crit' = [holder |-> NoThread, count |-> crit.count - 1,
                         inside |-> crit.inside \ {Caller(c)}]
            /\ UNCHANGED <<rq, th, ipi, oops>>
    /\ UNCHANGED <<need_balance, bal>>

\* The spin_unlock(&critsec_lock) owed by a caller that preempt_enable()
\* switched away, made when it next runs.
CritUnlock(c) ==
    /\ Caller(c) \in Threads
    /\ th[Caller(c)].k = "unlock"
    /\ crit' = [crit EXCEPT !.holder = NoThread]
    /\ th' = [th EXCEPT ![Caller(c)].k = "none"]
    /\ UNCHANGED <<rq, ipi, preempt, need_balance, bal, oops>>

Next ==
    \E c \in Online :
        \/ Timer(c)
        \/ RescheduleIpi(c)
        \/ IdleLoop(c)
        \/ BalanceEnqueue(c)
        \/ Yield(c)
        \/ Block(c)
        \/ BlockSchedule(c)
        \/ SuspendSchedule(c)
        \/ EnqueuePending(c)
        \/ EnterCritSec(c) \/ ExitCritSec(c) \/ CritUnlock(c)
        \/ \E t \in Threads :
              \/ Wake(c, t) \/ CreateReady(c, t) \/ CreateSuspended(c, t)
              \/ Suspend(c, t) \/ Resume(c, t)
              \/ Kill(c, t) \/ \E m \in Masks : Affinity(c, t, m)
              \/ \E pcl \in PClasses, d \in Deltas : SetPriority(c, t, pcl, d)

Spec == Init /\ [][Next]_vars

(***************************************************************************)
(* Properties.                                                             *)
(***************************************************************************)
OnList(t)      == {ck \in CPUS \X Keys : Contains(rq[ck[1]].q[ck[2]], t)}
Occurrences(t) ==
    MapThenSumSet(LAMBDA ck : Len(SelectSeq(rq[ck[1]].q[ck[2]], LAMBDA x : x = t)), OnList(t))

\* run_queue_t (scheduler.h:121-158): the lists, counters and bitmaps of
\* RunQueue, rq->current, and the tick count that paces the balancer.
\* lock, clock and the statistics are left out.
RunQueueT ==
    [q : [Keys -> Seq(AllThreads)], cnt : [Keys -> 0..(CounterMod - 1)],
     nr : 0..(CounterMod - 1), act : [Classes -> SUBSET (0..31)],
     cbm : SUBSET Classes, cur : AllThreads \cup {NoThread},
     ticks : 0..(BALANCE_INTERVAL - 1)]

\* thread_t (scheduler.h:64-116): state, sched_class, base_priority,
\* dynamic_priority, timeslice, cpu_affinity, last_cpu, preferred_cpu,
\* THREAD_FLAG_NEED_RESCHED, suspend_count (which doscalls_thread.c uses
\* although thread_t does not declare it), THREAD_FLAG_TERMINATING, and
\* two model fields: enq, the thread whose enqueue this thread still owes
\* after a lock drop, and k, where it resumes when it next runs.
ThreadT ==
    [st : States, cls : 0..4, base : 0..31, dyn : 0..255, slice : 0..SLICE,
     aff : SUBSET CPUS, last : CPUS, pref : CPUS, resched : BOOLEAN,
     susp : 0..MaxSuspend, term : BOOLEAN, enq : AllThreads \cup {NoThread},
     k : Conts]

TypeOK ==
    /\ rq \in [CPUS -> RunQueueT]
    /\ th \in [AllThreads -> ThreadT]
    /\ ipi \in [CPUS -> BOOLEAN]
    /\ bal \in [CPUS -> Threads \cup {NoThread}]
    /\ oops \in BOOLEAN
    /\ crit \in [holder : Threads \cup {NoThread}, count : Nat, inside : SUBSET Threads] /\ preempt \in Nat

\* Every run queue's counters agree with its lists: queues[c][p].count is
\* the length of the list, and nr_running their sum.  enqueue_thread,
\* dequeue_thread, schedule() and the balancer each update a list and the
\* counters of a run queue they pick separately.
CountsMatchLists ==
    \A c \in CPUS :
        /\ \A k \in Keys : rq[c].cnt[k] = Len(rq[c].q[k])
        /\ rq[c].nr = SumFunction(rq[c].cnt) % CounterMod

\* active_bitmap[class] has the bit of a level exactly when that level's
\* count is non-zero (the O(1) pick relies on it).
ActiveBitmapExact ==
    \A c \in CPUS, k \in Keys : (31 - k[2]) \in rq[c].act[k[1]] <=> rq[c].cnt[k] > 0

\* class_bitmap has the bit of a class exactly when some level of it is
\* active (spec section 3); the balancer clears only the level bit.
ClassBitmapExact ==
    \A c \in CPUS, cl \in Classes : cl \in rq[c].cbm <=> rq[c].act[cl] # {}

\* A Ready user thread is on exactly one list exactly once, unless a caller
\* that dropped its lock still owes its enqueue_thread (DosResumeThread,
\* apply_priority_change, the balancer); a thread in any other state is on
\* no list.
Owed == Range(bal) \cup {th[x].enq : x \in Threads}

ReadyQueuedOnce ==
    \A t \in Threads :
        IF th[t].st = "Ready"
        THEN \/ Occurrences(t) = 1 /\ t \notin Owed
             \/ Occurrences(t) = 0 /\ t \in Owed
        ELSE OnList(t) = {}

\* The run queues are sound (spec section 8): each run queue's counters
\* match its lists, and a Ready user thread is on exactly one list exactly
\* once unless its enqueue is still owed.  apply_priority_change,
\* DosResumeThread and the load balancer drop a lock between a thread's
\* dequeue and its enqueue, and other callers can act on it in between.
RunQueuesSound == CountsMatchLists /\ ReadyQueuedOnce

\* A Ready user thread is never lost: it is on some run-queue list, or a
\* caller that dropped its lock still owes its enqueue_thread.  The load
\* balancer, apply_priority_change, DosResumeThread and
\* set_thread_affinity each take a thread off a list or make it Ready in
\* one step and put it on a list in another.
ReadyNotLost ==
    \A t \in Threads : th[t].st = "Ready" => OnList(t) # {} \/ t \in Owed

\* The idle thread is never enqueued (spec section 3): schedule() appends
\* any prev that is still Running, the idle thread included.
IdleNeverQueued ==
    \A i \in Idles : OnList(i) = {}

\* No CPU dereferences a NULL pointer: every path that calls need_resched()
\* or set_need_resched() (the timer and IPI handlers, enqueue_thread's
\* preemption check, schedule() with preemption off) runs only once
\* schedule() has set the CPU's current thread, and enqueue_thread only
\* picks CPUs whose run queue sched_init_cpu set up, whatever affinity
\* set_thread_affinity accepted.
NoNullDeref == ~oops

\* No thread spins in DosEnterCritSec on a critsec_lock it holds itself:
\* critsec_count counts nested entries, but spin_lock does not know the
\* holder, so a nested DosEnterCritSec (doscalls_thread.c:363) would wait
\* for its own spin_unlock for ever.
NoCritSelfSpin == \A t \in Threads : ~(th[t].k = "crit" /\ crit.holder = t)

\* Every thread inside a critical section still holds critsec_lock, so no
\* other thread can enter: DosExitCritSec (doscalls_thread.c:377) checks
\* only critsec_count, so a thread on another CPU that never entered can
\* exit in the holder's place and release its lock.
CritHeldByInside == \A t \in crit.inside : crit.holder = t

\* A Suspended thread has a nonzero suspend_count: DosResumeThread wakes
\* a thread only by taking its count from 1 to 0 and refuses a count of 0
\* (ERROR_NOT_FROZEN), so a Suspended thread with count 0 can never be
\* resumed.  DosSuspendThread counts every suspension; DosCreateThread
\* with CREATE_SUSPENDED (doscalls_thread.c:67) sets the state alone.
SuspendedIsCounted == \A t \in Threads : th[t].st = "Suspended" => th[t].susp > 0

\* The scheduler is safe on any mix of CPUs, threads and calls: the run
\* queues stay sound, no idle thread sits on a list, no CPU faults on a
\* NULL pointer, no thread waits on a critsec_lock it holds or is inside
\* a critical section whose lock another released, and every
\* Suspended thread can be resumed.  Each conjunct has its own way to
\* fail (see above); TLC reports the shortest.
SchedulerSafe ==
    /\ RunQueuesSound /\ IdleNeverQueued /\ NoNullDeref
    /\ NoCritSelfSpin /\ CritHeldByInside /\ SuspendedIsCounted

=============================================================================
