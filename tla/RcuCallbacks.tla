----------------------------- MODULE RcuCallbacks -----------------------------
(* The callback side of krcu over the readers of Rcu: per-CPU callback        *)
(* queues, the driver that assigns, completes and promotes, the executor of   *)
(* eligible callbacks, and drain_callbacks.  synchronize_rcu is a callback    *)
(* whose invocation completes its caller.                                     *)
(*                                                                            *)
(* The driver may begin a pass and a CPU may run its callbacks at any time:   *)
(* has_demand, the progress timer, the kicks and the softirq only say when    *)
(* they do, and no safety property may depend on that.                        *)
EXTENDS Rcu

CONSTANTS
    Callbacks,      \* retired objects, each submitted at most once
    Producers,      \* CPUs that submit callbacks
    Budget,         \* CALLBACK_BUDGET of one softirq action
    MaxDrains       \* bound on calls of drain_callbacks

VARIABLES
    unassigned, \* QueueState.unassigned
    waiting,    \* QueueState.waiting: two segments [period, callbacks]
    eligible,   \* QueueState.eligible
    batch,      \* the detached callbacks of a CPU's CallbackBatch
    executing,  \* QueueState.is_executing
    outstanding,\* QueueState.outstanding
    ran,        \* CallbackBatch.completed
    invoked,    \* callbacks that have run
    guards,     \* of each submitted callback, the scopes open then and since
    gp,         \* where the driver is in its pass
    at,         \* the CPU its current loop has reached
    active,     \* CallbackDriver.active_period, or 0
    taken,      \* the period a node has just been found ready for
    assigned,   \* has_assigned_work
    drain,      \* the drain call in progress
    drains      \* calls of drain_callbacks so far

queueVars == <<unassigned, waiting, eligible, batch, executing, outstanding, ran>>
historyVars == <<invoked, guards>>
gpVars == <<gp, at, active, taken, assigned>>
drainVars == <<drain, drains>>
vars == <<rcuVars, queueVars, historyVars, gpVars, drainVars>>

(* The drain marker of a CPU is a callback node too. *)
Marker(c) == <<"marker", c>>
Markers == {Marker(c) : c \in CPUs}
IsMarker(b) == b \in Markers
ASSUME CallbacksAssumption ==
    /\ Producers \subseteq CPUs
    /\ Budget \in Nat \ {0} /\ MaxDrains \in Nat
    /\ Callbacks \cap Markers = {}

(* DrainCompletion is remaining and done, the Completion it carries. *)
NoDrain == [at |-> 0, remaining |-> 0, done |-> FALSE, owed |-> {}]
NoSegment == [period |-> 0, callbacks |-> <<>>]

Init ==
    /\ RcuInit
    /\ unassigned = [c \in CPUs |-> <<>>]
    /\ waiting = [c \in CPUs |-> [i \in 1..2 |-> NoSegment]]
    /\ eligible = [c \in CPUs |-> <<>>]
    /\ batch = [c \in CPUs |-> <<>>]
    /\ executing = [c \in CPUs |-> FALSE]
    /\ outstanding = [c \in CPUs |-> 0]
    /\ ran = [c \in CPUs |-> 0]
    /\ invoked = {}
    /\ guards = [b \in {} |-> {}]
    /\ gp = "park" /\ at = 1 /\ active = 0 /\ taken = 0 /\ assigned = FALSE
    /\ drain = NoDrain /\ drains = 0

Submitted == DOMAIN guards

-----------------------------------------------------------------------------
(* The reader side.  A scope that closes stops holding back the callbacks it  *)
(* was open for.  A CPU that is invoking callbacks does nothing else.         *)

Release(scope) == guards' = [b \in Submitted |-> guards[b] \ {scope}]

ReaderLeaves(c) ==
    /\ LeaveScope(c)
    /\ IF nesting[running[c]] = 1 THEN Release(running[c]) ELSE UNCHANGED guards

Reading(c) ==
    /\ ~executing[c]
    /\ \/ EnterScope(c) /\ UNCHANGED guards
       \/ ReaderLeaves(c)
       \/ ExitQuiescent(c) /\ UNCHANGED guards
       \/ c \in IrqCpus /\ IrqEnter(c) /\ UNCHANGED guards
       \/ IrqExit(c) /\ UNCHANGED guards
       \/ c \in IrqCpus /\ IrqEnterScope(c) /\ UNCHANGED guards
       \/ IrqLeaveScope(c) /\ Release(c)
    /\ UNCHANGED <<queueVars, invoked, gpVars, drainVars>>

Cleanup(c) ==
    /\ ~executing[c]
    /\ CheckReaderCleanup(c) \/ EnterQuiescent(c) \/ SwitchNote(c)
    /\ UNCHANGED <<queueVars, historyVars, gpVars, drainVars>>

Enrolment(c) ==
    /\ SwitchLock(c)
    /\ UNCHANGED <<queueVars, historyVars, gpVars, drainVars>>

Report(c) ==
    /\ SwitchReport(c)
    /\ UNCHANGED <<queueVars, historyVars, gpVars, drainVars>>

Exit(c) ==
    /\ \E u \in Incoming(c) : SwitchExit(c, u)
    /\ Release(running[c])
    /\ UNCHANGED <<queueVars, invoked, gpVars, drainVars>>

-----------------------------------------------------------------------------
(* Producers and executors. *)

(* submit_callback from task or handler context on c, inside a read scope or  *)
(* not; the object has been withdrawn, so only scopes open now can still      *)
(* reach it.                                                                  *)
Submit(c, b) ==
    /\ c \in Producers
    /\ ~executing[c] /\ (InTask(c) \/ irq[c] # "none")
    /\ b \notin Submitted
    /\ unassigned' = [unassigned EXCEPT ![c] = Append(@, b)]
    /\ outstanding' = [outstanding EXCEPT ![c] = @ + 1]
    /\ guards' = [x \in Submitted \cup {b} |-> IF x = b THEN Scopes ELSE guards[x]]
    /\ UNCHANGED <<rcuVars, waiting, eligible, batch, executing, ran, invoked, gpVars, drainVars>>

(* CallbackBatch::take, in the RCU softirq of c. *)
BatchTake(c) ==
    /\ ~executing[c] /\ (InTask(c) \/ irq[c] = "in")
    /\ eligible[c] # <<>>
    /\ executing' = [executing EXCEPT ![c] = TRUE]
    /\ batch' = [batch EXCEPT ![c] = eligible[c]]
    /\ eligible' = [eligible EXCEPT ![c] = <<>>]
    /\ UNCHANGED <<rcuVars, unassigned, waiting, outstanding, ran, historyVars, gpVars, drainVars>>

(* DrainCompletion::finish_one: complete_all at the first zero, for good. *)
FinishOne(d) == [d EXCEPT !.remaining = @ - 1, !.done = @ \/ d.remaining = 1]

(* CallbackNode::invoke; a drain marker runs complete_marker. *)
Invoke(c) ==
    /\ executing[c] /\ ran[c] < Budget /\ batch[c] # <<>>
    /\ batch' = [batch EXCEPT ![c] = Tail(@)]
    /\ ran' = [ran EXCEPT ![c] = @ + 1]
    /\ IF IsMarker(Head(batch[c]))
       THEN drain' = FinishOne(drain) /\ UNCHANGED invoked
       ELSE invoked' = invoked \cup {Head(batch[c])} /\ UNCHANGED drain
    /\ UNCHANGED <<rcuVars, unassigned, waiting, eligible, executing, outstanding, guards,
                   gpVars, drains>>

(* CallbackBatch::drop: what the budget left over goes back in front. *)
BatchDrop(c) ==
    /\ executing[c] /\ (ran[c] = Budget \/ batch[c] = <<>>)
    /\ eligible' = [eligible EXCEPT ![c] = batch[c] \o @]
    /\ batch' = [batch EXCEPT ![c] = <<>>]
    /\ outstanding' = [outstanding EXCEPT ![c] = @ - ran[c]]
    /\ executing' = [executing EXCEPT ![c] = FALSE]
    /\ ran' = [ran EXCEPT ![c] = 0]
    /\ UNCHANGED <<rcuVars, unassigned, waiting, historyVars, gpVars, drainVars>>

-----------------------------------------------------------------------------
(* The grace-period task: run_with_timer and CallbackDriver::drive. *)

GpNext(here, next) ==
    IF at < NrCpus THEN gp' = here /\ at' = at + 1 ELSE gp' = next /\ at' = 1

(* A pass with no period active and nothing submitted changes nothing, and is *)
(* left out.                                                                  *)
PassMatters == active # 0 \/ \E c \in CPUs : unassigned[c] # <<>>

GpStart ==
    /\ gp = "park"
    /\ PassMatters
    /\ gp' = "observe"
    /\ UNCHANGED <<rcuVars, queueVars, historyVars, at, active, taken, assigned, drainVars>>

(* observe_watching of one CPU, then acceptance of its report. *)
GpObserve ==
    /\ gp = "observe"
    /\ ObserveWatching(at)
    /\ gp' = IF cpuPending[at] /\ ~cpuPending'[at] /\ blocker[at] = None
             THEN "report" ELSE "inspect"
    /\ taken' = IF gp' = "report" THEN period[at] ELSE 0
    /\ UNCHANGED <<cpuVars, readerVars, period, blocker, coordVars, queueVars, historyVars,
                   at, active, assigned, drainVars>>

GpReport ==
    /\ gp = "report"
    /\ AcceptReport(at, taken)
    /\ IF Accepts(at, taken) THEN GpNext("observe", "assign")
       ELSE gp' = "inspect" /\ UNCHANGED at
    /\ taken' = 0
    /\ UNCHANGED <<cpuVars, readerVars, nodeVars, queueVars, historyVars, active, assigned,
                   drainVars>>

(* report_ready: an old reader may have left since the observation. *)
GpInspect ==
    /\ gp = "inspect"
    /\ IF NodeReady(at) THEN gp' = "accept" /\ taken' = period[at] /\ UNCHANGED at
       ELSE GpNext("observe", "assign") /\ UNCHANGED taken
    /\ UNCHANGED <<rcuVars, queueVars, historyVars, active, assigned, drainVars>>

GpAccept ==
    /\ gp = "accept"
    /\ AcceptReport(at, taken)
    /\ GpNext("observe", "assign")
    /\ taken' = 0
    /\ UNCHANGED <<cpuVars, readerVars, nodeVars, queueVars, historyVars, active, assigned,
                   drainVars>>

(* CallbackQueue::assign_pending of each queue. *)
Target == IF active # 0 THEN active + 1 ELSE completed + 1
Slots(c, p) == {i \in 1..2 : waiting[c][i].period = p}

GpAssign ==
    LET free == IF Slots(at, Target) # {} THEN Slots(at, Target) ELSE Slots(at, 0)
    IN  /\ gp = "assign"
        /\ IF unassigned[at] = <<>>
           THEN UNCHANGED <<unassigned, waiting>> /\ UNCHANGED assigned
           ELSE LET i == CHOOSE i \in free : \A j \in free : i <= j
                IN  /\ waiting' = [waiting EXCEPT ![at][i] =
                          [period |-> Target, callbacks |-> @.callbacks \o unassigned[at]]]
                    /\ unassigned' = [unassigned EXCEPT ![at] = <<>>]
                    /\ assigned' = TRUE
        /\ GpNext("assign", IF active # 0 THEN "finalize" ELSE "begin")
        /\ UNCHANGED <<rcuVars, eligible, batch, executing, outstanding, ran, historyVars,
                       active, taken, drainVars>>

(* try_complete_period: start_finalization, the nodes, finish_finalization. *)
GpFinalize ==
    /\ gp = "finalize"
    /\ IF CanFinalize THEN phase' = "Finalizing" /\ gp' = "finish"
       ELSE UNCHANGED phase /\ gp' = "park"
    /\ assigned' = (assigned /\ CanFinalize)
    /\ UNCHANGED <<cpuVars, readerVars, nodeVars, completed, pending, queueVars,
                   historyVars, at, active, taken, drainVars>>

GpFinishNode ==
    /\ gp = "finish"
    /\ NodeReady(at) /\ period[at] = active
    /\ period' = [period EXCEPT ![at] = 0]
    /\ snapshot' = [snapshot EXCEPT ![at] = None]
    /\ GpNext("finish", "complete")
    /\ UNCHANGED <<cpuVars, readerVars, blocker, cpuPending, coordVars, queueVars, historyVars,
                   active, taken, assigned, drainVars>>

GpComplete ==
    /\ gp = "complete"
    /\ FinishFinalization
    /\ gp' = "promote"
    /\ UNCHANGED <<cpuVars, readerVars, nodeVars, queueVars, historyVars, at, active, taken, assigned,
                   drainVars>>

(* CallbackQueue::promote of each queue. *)
GpPromote ==
    LET done == Slots(at, completed)
    IN  /\ gp = "promote"
        /\ waiting' = [waiting EXCEPT ![at] = [i \in 1..2 |-> IF i \in done THEN NoSegment ELSE @[i]]]
        /\ eligible' = [eligible EXCEPT ![at] =
              IF done = {} THEN @ ELSE @ \o waiting[at][CHOOSE i \in done : TRUE].callbacks]
        /\ active' = 0
        /\ GpNext("promote", "begin")
        /\ UNCHANGED <<rcuVars, unassigned, batch, executing, outstanding, ran, historyVars,
                       taken, assigned, drainVars>>

(* begin_period: start_initialization, the nodes, finish_initialization. *)
NeedsPeriod == \E c \in CPUs : \E i \in 1..2 : waiting[c][i].period # 0

GpBegin ==
    /\ gp = "begin"
    /\ IF assigned \/ NeedsPeriod
       THEN StartInitialization /\ gp' = "nodes"
       ELSE UNCHANGED coordVars /\ gp' = "park"
    /\ assigned' = FALSE
    /\ UNCHANGED <<cpuVars, readerVars, nodeVars, queueVars, historyVars, at, active, taken,
                   drainVars>>

GpBeginNode ==
    /\ gp = "nodes"
    /\ period[at] = 0
    /\ BeginNode(at, completed + 1)
    /\ GpNext("nodes", "init")
    /\ UNCHANGED <<cpuVars, readerVars, coordVars, queueVars, historyVars, active, taken, assigned,
                   drainVars>>

GpInitialized ==
    /\ gp = "init"
    /\ FinishInitialization
    /\ active' = completed + 1
    /\ gp' = "park"
    /\ UNCHANGED <<cpuVars, readerVars, nodeVars, queueVars, historyVars, at, taken, assigned, drainVars>>

GpStep ==
    \/ GpStart \/ GpObserve \/ GpReport \/ GpInspect \/ GpAccept \/ GpAssign
    \/ GpFinalize \/ GpFinishNode \/ GpComplete \/ GpPromote
    \/ GpBegin \/ GpBeginNode \/ GpInitialized

-----------------------------------------------------------------------------
(* drain_callbacks, one at a time under DRAIN_LOCK. *)

(* Variant: the installation owns no reference of its own. *)
DrainStart_Unheld ==
    /\ drain.at = 0 /\ drains < MaxDrains
    /\ drains' = drains + 1
    /\ drain' = [at |-> 1, remaining |-> 0, done |-> FALSE, owed |-> Submitted \ invoked]
    /\ UNCHANGED <<rcuVars, queueVars, historyVars, gpVars>>

DrainStart ==
    /\ drain.at = 0 /\ drains < MaxDrains
    /\ drains' = drains + 1
    /\ drain' = [at |-> 1, remaining |-> 1, done |-> FALSE, owed |-> Submitted \ invoked]
    /\ UNCHANGED <<rcuVars, queueVars, historyVars, gpVars>>

(* enqueue_drain_marker: behind everything outstanding, with no period of its *)
(* own.  Of two waiting segments the later one is the successor period's.     *)
Used(c) == {i \in 1..2 : waiting[c][i].period # 0}
LastSegment(c) ==
    CHOOSE i \in Used(c) : \A j \in Used(c) : waiting[c][j].period <= waiting[c][i].period

EnqueueDrainMarker(c) ==
    /\ outstanding' = [outstanding EXCEPT ![c] = @ + 1]
    /\ IF unassigned[c] # <<>>
       THEN /\ unassigned' = [unassigned EXCEPT ![c] = Append(@, Marker(c))]
            /\ UNCHANGED <<waiting, eligible>>
       ELSE IF Used(c) # {}
       THEN /\ waiting' = [waiting EXCEPT ![c][LastSegment(c)].callbacks = Append(@, Marker(c))]
            /\ UNCHANGED <<unassigned, eligible>>
       ELSE /\ eligible' = [eligible EXCEPT ![c] = Append(@, Marker(c))]
            /\ UNCHANGED <<unassigned, waiting>>

(* The marker is counted before its queue takes it, and an empty queue's      *)
(* count is given back.                                                       *)
DrainInstall ==
    LET counted == [drain EXCEPT !.at = @ + 1, !.remaining = @ + 1]
    IN  /\ drain.at \in CPUs
        /\ IF outstanding[drain.at] = 0
           THEN /\ drain' = FinishOne(counted)
                /\ UNCHANGED <<unassigned, waiting, eligible, outstanding>>
           ELSE /\ EnqueueDrainMarker(drain.at)
                /\ drain' = counted
        /\ UNCHANGED <<rcuVars, batch, executing, ran, historyVars, gpVars, drains>>

(* The installation's own reference goes last, then the wait begins. *)
DrainInstalled ==
    /\ drain.at = NrCpus + 1
    /\ drain' = FinishOne([drain EXCEPT !.at = @ + 1])
    /\ UNCHANGED <<rcuVars, queueVars, historyVars, gpVars, drains>>

DrainReturn ==
    /\ drain.at = NrCpus + 2 /\ drain.done
    /\ drain' = NoDrain
    /\ UNCHANGED <<rcuVars, queueVars, historyVars, gpVars, drains>>

-----------------------------------------------------------------------------
Cpu(c) ==
    \/ Reading(c) \/ Cleanup(c) \/ Enrolment(c) \/ Report(c) \/ Exit(c)
    \/ \E b \in Callbacks : Submit(c, b)
    \/ BatchTake(c) \/ Invoke(c) \/ BatchDrop(c)

Drain == DrainStart \/ DrainInstall \/ DrainInstalled \/ DrainReturn

Next == (\E c \in CPUs : Cpu(c)) \/ GpStep \/ Drain

Spec == Init /\ [][Next]_vars

-----------------------------------------------------------------------------
(* Properties. *)

(* RCU's promise to a writer: when a callback runs, every read scope that was *)
(* open when it was submitted has been left, whether its reader was           *)
(* preempted, migrated, interrupted a quiescent CPU, or exited inside it.     *)
GracePeriodHonoured == \A b \in invoked : guards[b] = {}

(* The assertions of begin_period, try_complete_period and assign_pending:    *)
(* a node is free when a period begins, has no obligation left when it is     *)
(* finished, and a queue never needs a third segment.                         *)
DriverAssertions ==
    /\ gp = "nodes" => period[at] = 0
    /\ gp = "finish" => NodeReady(at) /\ period[at] = active
    /\ gp = "assign" /\ unassigned[at] # <<>> =>
          Slots(at, Target) \cup Slots(at, 0) # {}

(* When drain_callbacks returns, every callback accepted before the call has  *)
(* returned, on whichever queue and in whichever segment it was.              *)
DrainComplete ==
    drain.at = NrCpus + 2 /\ drain.done => drain.owed \subseteq invoked
=============================================================================
