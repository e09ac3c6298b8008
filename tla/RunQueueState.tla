--------------------------- MODULE RunQueueState ----------------------------
(***************************************************************************)
(* The state that the run queues of task/ktask and everyone who touches    *)
(* them share: the fields of a task, of a run queue and of the CPU it      *)
(* belongs to, and where each agent is.  RunQueue says what they do to it. *)
(***************************************************************************)
EXTENDS Integers, FiniteSets

CONSTANTS
    CPUs,       \* logical CPUs, each with a run queue
    Tasks,      \* schedulable tasks, the boot "main" task included
    Main,
    Budgeted,   \* deadline and RT tasks, which are throttled when over budget
    Helpers,    \* storage for affinity migration helper tasks
    Wakers,     \* contexts on further CPUs that issue wakeups
    Setters,    \* contexts that call set_task_affinity on another task
    Masks,      \* affinity masks that callers install
    StaleClaims,\* whether a task may be woken a second time while someone is
                \* still inside the handshake of its previous wakeup
    Idle,       \* stands for each CPU's own idle task
    None

ASSUME ConstantsAssumption ==
    /\ IsFiniteSet(CPUs)
    /\ IsFiniteSet(Tasks) /\ IsFiniteSet(Helpers)
    /\ Main \in Tasks /\ Budgeted \subseteq Tasks
    /\ Tasks \cap Helpers = {}
    /\ CPUs \cap Wakers = {} /\ CPUs \cap Setters = {} /\ Wakers \cap Setters = {}
    /\ Masks \subseteq (SUBSET CPUs) \ {{}}
    /\ StaleClaims \in BOOLEAN
    /\ Idle \notin Tasks \cup Helpers /\ None \notin Tasks \cup Helpers
    /\ None \notin CPUs
    /\ Idle # None

AllTasks == Tasks \cup Helpers

\* Whoever can be in the middle of publishing a task on a run queue.
Agents == CPUs \cup Wakers \cup Setters

VARIABLES
    \* per task (TaskInner)
    state,          \* TaskState
    on_cpu,         \* some CPU may still be on this task's stack
    cpu_id,         \* CPU whose run queue owns the task
    home_charged,   \* counted in its owner's nr_home
    cpumask,        \* allowed CPUs
    woke,           \* wake latch of the task's current wait
    wake_flags,     \* PENDING bit of wake_enqueue_flags
    wake_cpu,       \* destination of a deferred wake, None = u32::MAX
    expect,         \* mask the task checks once its own migration is over
    prepared,       \* created, not yet passed to activate_task
    carries,        \* task a migration helper has to publish, or None
    \* per CPU (RunQueue, per-CPU current and PREV_TASK)
    rq,             \* queued tasks of the scheduler
    sched_curr,     \* Scheduler.curr
    nr_home,        \* sticky-home occupancy
    curr,           \* architecture current
    prev,           \* outgoing task until its handoff is finished
    tried,          \* sources already tried by the running idle_pull
    need_resched,   \* need_resched of the current task
    ipi,            \* reschedule IPI sent and not yet handled
    \* per agent
    pc,
    hand,           \* task taken off every queue and not yet published
    dest,           \* run queue selected for it
    after,          \* where the agent continues once it is published
    target,         \* task a waker wakes or a setter moves
    snap            \* mask read by enforce_affinity_placement

runVars == <<state, on_cpu>>
ownerVars == <<cpu_id, home_charged, nr_home>>
maskVars == <<cpumask, expect>>
wakeVars == <<woke, wake_flags, wake_cpu>>
spawnVars == <<prepared, carries>>
queueVars == <<rq, sched_curr>>
stackVars == <<curr, prev>>
reschedVars == <<need_resched, ipi>>
handVars == <<hand, dest, after>>
callVars == <<target, snap>>
vars == <<runVars, ownerVars, maskVars, wakeVars, spawnVars, queueVars, stackVars,
          tried, reschedVars, pc, handVars, callVars>>

TaskState == {"Running", "Ready", "Blocked", "Exited"}

\* A CPU takes interrupts at "run", and at "halt" where it waits for one:
\* everywhere else IRQs are off.
CpuPc == {"run", "halt", "leave", "block", "pull", "steal", "pick", "switch", "clear", "take"}
PublishPc == {"publish", "commit", "migrate"}
WakerPc == {"idle", "unblock", "arm", "check", "claim"}
SetterPc == {"idle", "snapshot", "state", "owner", "dequeue", "kick", "wait", "redo",
             "dequeue2", "verdict", "return", "failed"}

TaskTypes ==
    /\ state \in [AllTasks -> TaskState]
    /\ on_cpu \in [AllTasks -> BOOLEAN]
    /\ cpu_id \in [AllTasks -> CPUs]
    /\ home_charged \in [AllTasks -> BOOLEAN]
    /\ cpumask \in [AllTasks -> (SUBSET CPUs) \ {{}}]
    /\ woke \in [AllTasks -> BOOLEAN]
    /\ wake_flags \in [AllTasks -> BOOLEAN]
    /\ wake_cpu \in [AllTasks -> CPUs \cup {None}]
    /\ expect \in [Tasks -> SUBSET CPUs]
    /\ prepared \in SUBSET Tasks
    /\ carries \in [Helpers -> Tasks \cup {None}]

CpuTypes ==
    /\ rq \in [CPUs -> SUBSET AllTasks]
    /\ sched_curr \in [CPUs -> AllTasks \cup {Idle, None}]
    /\ nr_home \in [CPUs -> Int]
    /\ curr \in [CPUs -> AllTasks \cup {Idle}]
    /\ prev \in [CPUs -> AllTasks \cup {Idle, None}]
    /\ tried \in [CPUs -> SUBSET CPUs]
    /\ need_resched \in [CPUs -> BOOLEAN]
    /\ ipi \in [CPUs -> BOOLEAN]

AgentTypes ==
    /\ pc \in [Agents -> CpuPc \cup PublishPc \cup WakerPc \cup SetterPc]
    /\ \A c \in CPUs : pc[c] \in CpuPc \cup PublishPc
    /\ \A w \in Wakers : pc[w] \in WakerPc \cup PublishPc
    /\ \A s \in Setters : pc[s] \in SetterPc \cup PublishPc
    /\ hand \in [Agents -> AllTasks \cup {None}]
    /\ dest \in [Agents -> CPUs \cup {None}]
    /\ after \in [Agents -> {"run", "loop", "pull", "pick", "idle", "verdict", None}]
    /\ target \in [Wakers \cup Setters -> Tasks \cup {None}]
    /\ snap \in [Setters -> SUBSET CPUs]

TypeOK == TaskTypes /\ CpuTypes /\ AgentTypes
=============================================================================
