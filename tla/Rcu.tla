--------------------------------- MODULE Rcu ---------------------------------
(* The reader side of krcu: read scopes of tasks and interrupt handlers, the  *)
(* per-CPU nodes that remember preempted readers, the watching counters of    *)
(* idle and user windows, and the coordinator's acceptance of node reports.   *)
(* RcuCallbacks adds the callbacks and the driver of the periods.             *)
(*                                                                            *)
(* A step is one hold of a node's or of the coordinator's lock, or one access *)
(* to an atomic.  SeqCst fences surround each of them in the code, so steps   *)
(* interleave but memory is sequentially consistent.                          *)
EXTENDS Naturals, Sequences, FiniteSets, Lists

CONSTANTS
    NrCpus,         \* participating CPUs are 1..NrCpus
    Tasks,          \* tasks other than the idle tasks
    Idle, None,
    MaxNesting,     \* bound on the nesting of a task's scopes
    WatchModulus,   \* width of CpuWatching.sequence
    IrqCpus,        \* CPUs that take interrupts
    Mortal          \* tasks that may exit

CPUs == 1..NrCpus

ASSUME RcuAssumption ==
    /\ NrCpus \in Nat \ {0} /\ MaxNesting \in Nat \ {0}
    /\ WatchModulus \in Nat \ {0} /\ WatchModulus % 2 = 0
    /\ IrqCpus \subseteq CPUs /\ Mortal \subseteq Tasks
    /\ Tasks \cap CPUs = {} /\ Idle \notin Tasks /\ None \notin Tasks \cup CPUs /\ Idle # None

VARIABLES
    running,    \* the current task of each CPU
    mode,       \* "kernel", or "quiet" in an idle wait or user code
    sw,         \* progress of the CPU's scheduler boundary
    irq,        \* "none", "in", "reading": the interrupt handler of each CPU
    watch,      \* whether CpuWatching.sequence is odd
    activated,  \* InterruptEntry.did_activate
    nesting,    \* TaskReader.nesting, interrupt scopes apart
    owner,      \* TaskReader.owner: the CPU whose node holds the reader
    exited,     \* tasks that have exited
    readers,    \* NodeState.readers
    period,     \* NodeState.period: its id, or 0
    blocker,    \* NodePeriod.first_blocker
    snapshot,   \* crossings (mod WatchModulus) since NodePeriod.watching_snapshot
    cpuPending, \* ReaderNode.is_cpu_pending
    cleanup,    \* CpuRcuState.cleanup_requested
    completed,  \* PeriodState.completed
    phase,      \* PeriodState.phase
    pending,    \* PeriodState.pending, as the set of CPUs
    report      \* the period each CPU is about to report, or 0

cpuVars == <<running, mode, sw, irq, watch, activated, report>>
readerVars == <<nesting, owner, exited, readers, cleanup>>
nodeVars == <<period, blocker, snapshot, cpuPending>>
coordVars == <<completed, phase, pending>>
rcuVars == <<cpuVars, readerVars, nodeVars, coordVars>>

RcuInit ==
    /\ running = [c \in CPUs |-> Idle]
    /\ mode = [c \in CPUs |-> "kernel"]
    /\ sw = [c \in CPUs |-> "none"]
    /\ irq = [c \in CPUs |-> "none"]
    /\ watch = [c \in CPUs |-> TRUE]
    /\ activated = [c \in CPUs |-> FALSE]
    /\ nesting = [t \in Tasks |-> 0]
    /\ owner = [t \in Tasks |-> None]
    /\ exited = {}
    /\ readers = [c \in CPUs |-> <<>>]
    /\ period = [c \in CPUs |-> 0]
    /\ blocker = [c \in CPUs |-> None]
    /\ snapshot = [c \in CPUs |-> None]
    /\ cpuPending = [c \in CPUs |-> FALSE]
    /\ cleanup = [c \in CPUs |-> FALSE]
    /\ completed = 0
    /\ phase = "Idle"
    /\ pending = {}
    /\ report = [c \in CPUs |-> 0]

-----------------------------------------------------------------------------
(* Nodes. *)

(* Variant: the marker stays on the removed reader. *)
NextBlocker_Keep(c, t) == blocker[c]

(* ReaderNode::remove: the marker moves to the next reader of the suffix. *)
NextBlocker(c, t) ==
    LET q == readers[c]  i == Position(q, t)
    IN  IF blocker[c] # t THEN blocker[c]
        ELSE IF i < Len(q) THEN q[i + 1] ELSE None

Remove(t) ==
    LET c == owner[t]
    IN  /\ readers' = [readers EXCEPT ![c] = Without(@, t)]
        /\ blocker' = [blocker EXCEPT ![c] = NextBlocker(c, t)]
        /\ owner' = [owner EXCEPT ![t] = None]

(* Variant: every reader goes in front of the blockers. *)
Enroll_Front(c, t) ==
    /\ owner' = [owner EXCEPT ![t] = c]
    /\ readers' = [readers EXCEPT ![c] = <<t>> \o @]
    /\ UNCHANGED blocker

(* ReaderNode::enroll_locked: before the CPU's observation the reader joins   *)
(* the suffix of blockers, after it the readers in front of them.             *)
Enroll(c, t) ==
    /\ owner' = [owner EXCEPT ![t] = c]
    /\ IF period[c] # 0 /\ cpuPending[c]
       THEN /\ readers' = [readers EXCEPT ![c] = Append(@, t)]
            /\ blocker' = [blocker EXCEPT ![c] = IF @ = None THEN t ELSE @]
       ELSE /\ readers' = [readers EXCEPT ![c] = <<t>> \o @]
            /\ UNCHANGED blocker

(* ready_period, and the last line of the two observations. *)
NodeReady(c) == period[c] # 0 /\ ~cpuPending[c] /\ blocker[c] = None

(* GracePeriodCoordinator::accept_report. *)
Accepts(c, p) ==
    /\ phase \in {"Initializing", "Waiting"}
    /\ p = completed + 1
    /\ c \in pending

AcceptReport(c, p) ==
    /\ pending' = IF Accepts(c, p) THEN pending \ {c} ELSE pending
    /\ UNCHANGED <<completed, phase>>

-----------------------------------------------------------------------------
(* Tasks and interrupt handlers on a CPU. *)

(* cross_boundary.  Only the parity of the sequence and its distance from the *)
(* node's snapshot are ever looked at.                                        *)
Cross(c) ==
    /\ watch' = [watch EXCEPT ![c] = ~@]
    /\ snapshot' = [snapshot EXCEPT ![c] = IF @ = None THEN None ELSE (@ + 1) % WatchModulus]

NoCross == UNCHANGED <<watch, snapshot>>

(* The CPU executes its task in the kernel: no interrupt handler, and not     *)
(* inside the scheduler.                                                      *)
InTask(c) == sw[c] = "none" /\ irq[c] = "none" /\ mode[c] = "kernel"

(* with_read. *)
EnterScope(c) ==
    /\ InTask(c) /\ running[c] # Idle
    /\ nesting[running[c]] < MaxNesting
    /\ nesting' = [nesting EXCEPT ![running[c]] = @ + 1]
    /\ UNCHANGED <<cpuVars, owner, exited, readers, cleanup, nodeVars, coordVars>>

(* ReadGuard::drop and TaskReadExit::drop.  If the task still holds a guard,  *)
(* leaving the node is put off to a later boundary; otherwise                 *)
(* CheckReaderCleanup follows.                                                *)
LeaveScope(c) ==
    LET t == running[c]
    IN  /\ InTask(c) /\ t # Idle
        /\ nesting[t] > 0
        /\ nesting' = [nesting EXCEPT ![t] = @ - 1]
        /\ \/ UNCHANGED cleanup
           \/ /\ nesting[t] = 1 /\ owner[t] # None
              /\ cleanup' = [cleanup EXCEPT ![c] = TRUE]
        /\ UNCHANGED <<cpuVars, owner, exited, readers, nodeVars, coordVars>>

(* finish_reader_cleanup of the current task t of c: an active scope keeps    *)
(* its membership and the request.                                            *)
FinishCleanup(c, t) ==
    IF t = Idle THEN cleanup' = [cleanup EXCEPT ![c] = FALSE]
                     /\ UNCHANGED <<readers, blocker, owner>>
    ELSE IF nesting[t] > 0 THEN UNCHANGED <<readers, blocker, owner, cleanup>>
    ELSE /\ cleanup' = [cleanup EXCEPT ![c] = FALSE]
         /\ IF owner[t] # None THEN Remove(t) ELSE UNCHANGED <<readers, blocker, owner>>

(* check_reader_cleanup, at every check for a pending preemption. *)
CheckReaderCleanup(c) ==
    LET t == running[c]
    IN  /\ InTask(c) /\ t # Idle
        /\ nesting[t] = 0
        /\ owner[t] # None \/ cleanup[c]
        /\ FinishCleanup(c, t)
        /\ UNCHANGED <<cpuVars, nesting, exited, period, snapshot, cpuPending, coordVars>>

(* enter_user_quiescent and idle_wait_if_no_work, and the way back. *)
EnterQuiescent(c) ==
    LET t == running[c]
    IN  /\ InTask(c)
        /\ t # Idle => nesting[t] = 0
        /\ FinishCleanup(c, t)
        /\ Cross(c)
        /\ mode' = [mode EXCEPT ![c] = "quiet"]
        /\ UNCHANGED <<running, sw, irq, activated, report, nesting, exited,
                       period, cpuPending, coordVars>>

ExitQuiescent(c) ==
    /\ mode[c] = "quiet" /\ irq[c] = "none"
    /\ Cross(c)
    /\ mode' = [mode EXCEPT ![c] = "kernel"]
    /\ UNCHANGED <<running, sw, irq, activated, report, readerVars,
                   period, blocker, cpuPending, coordVars>>

(* CpuWatching::enter_interrupt and InterruptEntry::exit. *)
IrqEnter(c) ==
    /\ sw[c] = "none" /\ irq[c] = "none"
    /\ irq' = [irq EXCEPT ![c] = "in"]
    /\ activated' = [activated EXCEPT ![c] = ~watch[c]]
    /\ IF watch[c] THEN NoCross ELSE Cross(c)
    /\ UNCHANGED <<running, mode, sw, report, readerVars, period, blocker, cpuPending, coordVars>>

IrqExit(c) ==
    /\ irq[c] = "in"
    /\ irq' = [irq EXCEPT ![c] = "none"]
    /\ activated' = [activated EXCEPT ![c] = FALSE]
    /\ IF activated[c] THEN Cross(c) ELSE NoCross
    /\ UNCHANGED <<running, mode, sw, report, readerVars, period, blocker, cpuPending, coordVars>>

(* with_interrupt_read: only the nesting changes, and only for the handler's  *)
(* duration.                                                                  *)
IrqEnterScope(c) ==
    /\ irq[c] = "in"
    /\ irq' = [irq EXCEPT ![c] = "reading"]
    /\ UNCHANGED <<running, mode, sw, watch, activated, report, readerVars, nodeVars, coordVars>>

IrqLeaveScope(c) ==
    /\ irq[c] = "reading"
    /\ irq' = [irq EXCEPT ![c] = "in"]
    /\ UNCHANGED <<running, mode, sw, watch, activated, report, readerVars, nodeVars, coordVars>>

-----------------------------------------------------------------------------
(* Scheduler boundaries, with IRQs and preemption off: note_context_switch,   *)
(* then the switch.  Before the service exists the code only enrols; with no  *)
(* period active that is what these steps do.                                 *)

NeedsEnrollment(t) == t # Idle /\ nesting[t] > 0 /\ owner[t] = None

(* The boundary keeps its task, or any task that is on no CPU comes in. *)
Incoming(c) == {running[c], Idle} \cup
               {t \in Tasks \ exited : \A d \in CPUs : running[d] # t}

(* The end of the boundary, which only this CPU sees: the switch, or the last *)
(* one of a task that exits, whose reader SwitchExit has yet to take off.     *)
Depart(c) ==
    \/ /\ \E u \in Incoming(c) : running' = [running EXCEPT ![c] = u]
       /\ sw' = [sw EXCEPT ![c] = "none"]
    \/ /\ running[c] \in Mortal
       /\ sw' = [sw EXCEPT ![c] = "exit"]
       /\ UNCHANGED running

(* finish_reader_cleanup, then the hint read without the node's lock. *)
SwitchNote(c) ==
    LET t == running[c]
    IN  /\ InTask(c)
        /\ FinishCleanup(c, t)
        /\ IF NeedsEnrollment(t) \/ cpuPending[c]
           THEN sw' = [sw EXCEPT ![c] = "lock"] /\ UNCHANGED running
           ELSE Depart(c)
        /\ UNCHANGED <<mode, irq, watch, activated, report, nesting, exited,
                       period, snapshot, cpuPending, coordVars>>

(* ReaderNode::note_context_switch under the lock: enrol first, then record   *)
(* the observation if the CPU still owes one.  A snapshot is dead once the    *)
(* observation is recorded, and is forgotten here.                            *)
SwitchLock(c) ==
    LET t == running[c]
    IN  /\ sw[c] = "lock"
        /\ IF NeedsEnrollment(t) THEN Enroll(c, t) ELSE UNCHANGED <<readers, blocker, owner>>
        /\ cpuPending' = [cpuPending EXCEPT ![c] = FALSE]
        /\ snapshot' = [snapshot EXCEPT ![c] = None]
        /\ IF cpuPending[c] /\ blocker'[c] = None
           THEN /\ sw' = [sw EXCEPT ![c] = "report"]
                /\ report' = [report EXCEPT ![c] = period[c]]
                /\ UNCHANGED running
           ELSE Depart(c) /\ UNCHANGED report
        /\ UNCHANGED <<mode, irq, watch, activated, nesting, exited, cleanup, period, coordVars>>

SwitchReport(c) ==
    /\ sw[c] = "report"
    /\ AcceptReport(c, report[c])
    /\ report' = [report EXCEPT ![c] = 0]
    /\ Depart(c)
    /\ UNCHANGED <<mode, irq, watch, activated, readerVars, nodeVars>>

(* finish_task_exit, on the stack of the task that follows the exited one. *)
SwitchExit(c, u) ==
    LET t == running[c]
    IN  /\ sw[c] = "exit"
        /\ u \in Incoming(c) \ {t}
        /\ running' = [running EXCEPT ![c] = u]
        /\ sw' = [sw EXCEPT ![c] = "none"]
        /\ exited' = exited \cup {t}
        /\ nesting' = [nesting EXCEPT ![t] = 0]
        /\ IF owner[t] # None THEN Remove(t) ELSE UNCHANGED <<readers, blocker, owner>>
        /\ UNCHANGED <<mode, irq, watch, activated, report, cleanup,
                       period, snapshot, cpuPending, coordVars>>

-----------------------------------------------------------------------------
(* What the driver of the periods does to the nodes and the coordinator. *)

(* ReaderNode::begin_period: every enrolled reader blocks the period. *)
BeginNode(c, p) ==
    /\ period' = [period EXCEPT ![c] = p]
    /\ blocker' = [blocker EXCEPT ![c] = IF readers[c] = <<>> THEN None ELSE readers[c][1]]
    /\ snapshot' = [snapshot EXCEPT ![c] = None]
    /\ cpuPending' = [cpuPending EXCEPT ![c] = TRUE]

(* ReaderNode::observe_watching: an even sample is quiescent, a changed odd   *)
(* one has been.                                                              *)
SeenQuiescent(c) == ~watch[c] \/ (snapshot[c] # None /\ snapshot[c] # 0)

ObserveWatching(c) ==
    IF ~cpuPending[c] THEN UNCHANGED <<snapshot, cpuPending>>
    ELSE IF SeenQuiescent(c)
    THEN /\ cpuPending' = [cpuPending EXCEPT ![c] = FALSE]
         /\ snapshot' = [snapshot EXCEPT ![c] = None]
    ELSE snapshot' = [snapshot EXCEPT ![c] = 0] /\ UNCHANGED cpuPending

StartInitialization ==
    /\ phase = "Idle"
    /\ phase' = "Initializing"
    /\ pending' = CPUs
    /\ UNCHANGED completed

FinishInitialization ==
    /\ phase' = "Waiting"
    /\ UNCHANGED <<completed, pending>>

(* Variant: a period ends with a node's report missing. *)
CanFinalize_Early == phase = "Waiting"

CanFinalize == phase = "Waiting" /\ pending = {}

FinishFinalization ==
    /\ completed' = completed + 1
    /\ phase' = "Idle"
    /\ UNCHANGED pending

-----------------------------------------------------------------------------
(* Open read scopes: the tasks inside one, and the CPUs whose handler is. *)
Scopes == {t \in Tasks : nesting[t] > 0} \cup {c \in CPUs : irq[c] = "reading"}

(* The node lists and the owner fields agree, no reader is linked twice, and  *)
(* the marker of a period names a reader still in that list: the storage of a *)
(* task that has left or exited is never reached through a node.              *)
NodesMatchOwners ==
    /\ \A c \in CPUs : Distinct(readers[c])
    /\ \A t \in Tasks, c \in CPUs : In(readers[c], t) <=> owner[t] = c
    /\ \A c \in CPUs : blocker[c] # None => owner[blocker[c]] = c
    /\ \A t \in exited : owner[t] = None
=============================================================================
