------------------------------ MODULE RunQueue ------------------------------
(***************************************************************************)
(* Per-CPU run queues of task/ktask: how a task leaves its CPU (yield,     *)
(* preempt, park, exit, affinity migration), how the CPU picks and         *)
(* switches to the next one, how a waker hands a blocked task back to a    *)
(* run queue while its old CPU may still be on its stack, and how an idle  *)
(* CPU pulls work.                                                         *)
(*                                                                         *)
(* Every critical section under one run queue's scheduler lock is one      *)
(* step, except the publication of a task, which reads the affinity mask   *)
(* under that lock and enqueues later in the same hold: it is two steps    *)
(* and the queue is locked (RqLocked) in between.  The ksched policy is    *)
(* abstracted to "any queued task that is not throttled; Idle only when    *)
(* there is none", where any task with a budget may be throttled any time, *)
(* and the choice of a destination CPU to "any CPU of the mask just read". *)
(***************************************************************************)
EXTENDS RunQueueState

(* init() on the boot CPU, init_secondary() on the others. *)
Boot(b) ==
    /\ state = [t \in AllTasks |-> IF t = Main THEN "Running"
                                   ELSE IF t \in Tasks THEN "Ready" ELSE "Exited"]
    /\ on_cpu = [t \in AllTasks |-> t = Main]
    /\ cpu_id = [t \in AllTasks |-> b]
    /\ home_charged = [t \in AllTasks |-> t = Main]
    /\ cpumask = [t \in AllTasks |-> CPUs]
    /\ woke = [t \in AllTasks |-> FALSE]
    /\ wake_flags = [t \in AllTasks |-> FALSE]
    /\ wake_cpu = [t \in AllTasks |-> None]
    /\ expect = [t \in Tasks |-> {}]
    /\ prepared = Tasks \ {Main}
    /\ carries = [h \in Helpers |-> None]
    /\ rq = [c \in CPUs |-> {}]
    /\ sched_curr = [c \in CPUs |-> IF c = b THEN Main ELSE Idle]
    /\ nr_home = [c \in CPUs |-> IF c = b THEN 1 ELSE 0]
    /\ curr = [c \in CPUs |-> IF c = b THEN Main ELSE Idle]
    /\ prev = [c \in CPUs |-> None]
    /\ tried = [c \in CPUs |-> {}]
    /\ need_resched = [c \in CPUs |-> FALSE]
    /\ ipi = [c \in CPUs |-> FALSE]
    /\ pc = [a \in Agents |-> IF a \in CPUs THEN "run" ELSE "idle"]
    /\ hand = [a \in Agents |-> None]
    /\ dest = [a \in Agents |-> None]
    /\ after = [a \in Agents |-> None]
    /\ target = [a \in Wakers \cup Setters |-> None]
    /\ snap = [s \in Setters |-> {}]

Init == \E b \in CPUs : Boot(b)

-----------------------------------------------------------------------------
(* Shared by all agents: publish_task, publish_or_migrate, migrate_entry.  *)

\* The scheduler lock of c is held across a step boundary only by a publisher.
RqLocked(c) == \E a \in Agents : pc[a] = "commit" /\ dest[a] = c

\* kick() / request_resched_on(): local need_resched or a reschedule IPI.
kick(a, c) ==
    IF a = c
    THEN need_resched' = [need_resched EXCEPT ![c] = TRUE] /\ UNCHANGED ipi
    ELSE ipi' = [ipi EXCEPT ![c] = TRUE] /\ UNCHANGED need_resched

\* Take t in hand for run queue c and continue at k once it is published, and
\* the opposite.
TakeInHand(a, t, c, k) ==
    /\ hand' = [hand EXCEPT ![a] = t]
    /\ dest' = [dest EXCEPT ![a] = c]
    /\ after' = [after EXCEPT ![a] = k]

EmptyHand(a) ==
    /\ hand' = [hand EXCEPT ![a] = None]
    /\ dest' = [dest EXCEPT ![a] = None]
    /\ after' = [after EXCEPT ![a] = None]

\* publish_task, first half: the affinity mask is read under the lock.
publish_task(a) ==
    /\ pc[a] = "publish"
    /\ ~RqLocked(dest[a])
    /\ dest[a] \in cpumask[hand[a]]
    /\ pc' = [pc EXCEPT ![a] = "commit"]
    /\ UNCHANGED <<runVars, ownerVars, maskVars, wakeVars, spawnVars, queueVars,
                   stackVars, tried, reschedVars, handVars, callVars>>

\* publish_task on a CPU the mask forbids: the task is returned unqueued.  A
\* migration helper loops (and may be preempted there), an idle pull goes on
\* with its next source afterwards, everybody else runs migrate_entry at once.
RejectTask(a) ==
    /\ pc[a] = "publish"
    /\ ~RqLocked(dest[a])
    /\ dest[a] \notin cpumask[hand[a]]
    /\ IF after[a] = "loop"
       THEN /\ carries' = [carries EXCEPT ![curr[a]] = hand[a]]
            /\ EmptyHand(a)
            /\ pc' = [pc EXCEPT ![a] = "run"]
       ELSE /\ after' = [after EXCEPT ![a] = IF @ = "pick" THEN "pull" ELSE @]
            /\ pc' = [pc EXCEPT ![a] = "migrate"]
            /\ UNCHANGED <<carries, hand, dest>>
    /\ UNCHANGED <<runVars, ownerVars, maskVars, wakeVars, prepared, queueVars,
                   stackVars, tried, reschedVars, callVars>>

\* migrate_entry: select a run queue the present mask allows and publish there.
migrate_entry(a) ==
    /\ pc[a] = "migrate"
    /\ \E c \in cpumask[hand[a]] : dest' = [dest EXCEPT ![a] = c]
    /\ pc' = [pc EXCEPT ![a] = "publish"]
    /\ UNCHANGED <<runVars, ownerVars, maskVars, wakeVars, spawnVars, queueVars,
                   stackVars, tried, reschedVars, hand, after, callVars>>

\* Variant: ownership does not move with the enqueue.
attach_owner_Skip(t, c) == UNCHANGED cpu_id

\* attach_owner: the only writer of cpu_id.
attach_owner(t, c) == cpu_id' = [cpu_id EXCEPT ![t] = c]

\* Variant: the old owner keeps its charge.
charge_home_Only(t, c) == [nr_home EXCEPT ![c] = @ + 1]

\* Home occupancy once c has attached t and charged it: a charge held by the
\* previous owner moves along.
charge_home(t, c) ==
    [x \in CPUs |-> nr_home[x] + (IF x = c THEN 1 ELSE 0)
                               - (IF home_charged[t] /\ x = cpu_id[t] THEN 1 ELSE 0)]

\* publish_task, second half: attach_owner, charge_home, enqueue; then the kick
\* of the publisher.  An idle pull does not kick the CPU it runs on.
enqueue(a) ==
    LET t == hand[a]
        c == dest[a]
    IN  /\ pc[a] = "commit"
        /\ nr_home' = charge_home(t, c)
        /\ home_charged' = [home_charged EXCEPT ![t] = TRUE]
        /\ attach_owner(t, c)
        /\ rq' = [rq EXCEPT ![c] = @ \cup {t}]
        /\ IF after[a] = "pick" THEN UNCHANGED reschedVars ELSE kick(a, c)
        /\ pc' = [pc EXCEPT ![a] = IF after[a] = "loop" THEN "run" ELSE after[a]]
        /\ EmptyHand(a)
        /\ target' = IF after[a] = "idle" THEN [target EXCEPT ![a] = None] ELSE target
        /\ UNCHANGED <<runVars, maskVars, wakeVars, spawnVars, sched_curr, stackVars,
                       tried, snap>>

-----------------------------------------------------------------------------
(* What the code running on CPU c does with IRQs on.                       *)

\* Idle tasks are pinned to their own CPU; everyone else has a mask.
Allowed(c) == curr[c] # Idle => c \in cpumask[curr[c]]

\* activate_task -> add_task of a prepared task.
add_task(c, t) ==
    /\ pc[c] = "run" /\ curr[c] \in Tasks
    /\ t \in prepared
    /\ prepared' = prepared \ {t}
    /\ \E d \in cpumask[t] : TakeInHand(c, t, d, "run")
    /\ pc' = [pc EXCEPT ![c] = "publish"]
    /\ UNCHANGED <<runVars, ownerVars, maskVars, wakeVars, carries, queueVars,
                   stackVars, tried, reschedVars, callVars>>

\* yield_current, up to its affinity check.
yield_current(c) ==
    /\ pc[c] = "run" /\ curr[c] \notin Helpers
    /\ Allowed(c)
    /\ pc' = [pc EXCEPT ![c] = "leave"]
    /\ UNCHANGED <<runVars, ownerVars, maskVars, wakeVars, spawnVars, queueVars,
                   stackVars, tried, reschedVars, handVars, callVars>>

\* The queued tasks that are runnable whatever budgets are spent.
Runnable(c) == rq[c] \ Budgeted

\* preempt_resched at a preempt safe point: keep running and consume the
\* request, or leave.  Idle always leaves when something is runnable.
preempt_resched(c) ==
    /\ pc[c] = "run" /\ need_resched[c]
    /\ ~RqLocked(c)
    /\ Allowed(c)
    /\ \/ /\ curr[c] = Idle => Runnable(c) = {}
          /\ need_resched' = [need_resched EXCEPT ![c] = FALSE]
          /\ UNCHANGED pc
       \/ /\ pc' = [pc EXCEPT ![c] = "leave"]
          /\ UNCHANGED need_resched
    /\ UNCHANGED <<runVars, ownerVars, maskVars, wakeVars, spawnVars, queueVars,
                   stackVars, tried, ipi, handVars, callVars>>

\* Where resched() starts: idle_pull if nothing was ready when leaving.
AfterLeave(c) == (IF Runnable(c) = {} THEN {"pull"} ELSE {})
                 \cup (IF rq[c] # {} THEN {"pick"} ELSE {})

\* Second half of yield_current / preempt_resched: Running -> Ready, requeue.
leave_and_publish(c) ==
    /\ pc[c] = "leave"
    /\ ~RqLocked(c)
    /\ sched_curr' = [sched_curr EXCEPT ![c] = None]
    /\ IF curr[c] = Idle
       THEN UNCHANGED <<state, rq>>
       ELSE /\ state' = [state EXCEPT ![curr[c]] = "Ready"]
            /\ rq' = [rq EXCEPT ![c] = @ \cup {curr[c]}]
    /\ \E k \in AfterLeave(c)' : pc' = [pc EXCEPT ![c] = k]
    /\ UNCHANGED <<on_cpu, ownerVars, maskVars, wakeVars, spawnVars, stackVars,
                   tried, reschedVars, handVars, callVars>>

\* A helper slot nobody uses; a fresh migration task is created in it.
FreeHelper(h) ==
    /\ state[h] = "Exited" /\ ~on_cpu[h]
    /\ \A c \in CPUs : prev[c] # h

\* migrate_current: leave without requeueing and switch to a helper at once.
migrate_current(c, h) ==
    /\ pc[c] = "run" /\ curr[c] \in Tasks
    /\ FreeHelper(h)
    /\ ~RqLocked(c)
    /\ state' = [state EXCEPT ![curr[c]] = "Ready", ![h] = "Ready"]
    /\ carries' = [carries EXCEPT ![h] = curr[c]]
    /\ attach_owner(h, c)
    /\ sched_curr' = [sched_curr EXCEPT ![c] = h]
    /\ pc' = [pc EXCEPT ![c] = "switch"]
    /\ UNCHANGED <<on_cpu, home_charged, nr_home, wakeVars, prepared, rq, stackVars,
                   tried, reschedVars, handVars, callVars>>

\* yield_current / preempt_resched of a task whose mask forbids this CPU.
LeaveForbidden(c, h) ==
    /\ ~Allowed(c)
    /\ migrate_current(c, h)
    /\ UNCHANGED maskVars

MustMigrate(c, m) == c \notin m

\* set_current_affinity: store the mask and migrate if it forbids this CPU.
\* The task resumes with the mask it read still to be asserted.
set_current_affinity(c, m) ==
    /\ pc[c] = "run" /\ curr[c] \in Tasks /\ expect[curr[c]] = {}
    /\ cpumask' = [cpumask EXCEPT ![curr[c]] = m]
    /\ IF MustMigrate(c, m)
       THEN /\ expect' = [expect EXCEPT ![curr[c]] = m]
            /\ \E h \in Helpers : migrate_current(c, h)
       ELSE UNCHANGED <<runVars, ownerVars, expect, wakeVars, spawnVars, queueVars,
                        stackVars, tried, reschedVars, pc, handVars, callVars>>

\* assert!(cpumask.get(this_cpu_id()), "Migration failed") is evaluated.
AssertMigrated(c) ==
    /\ pc[c] = "run" /\ curr[c] \in Tasks /\ expect[curr[c]] # {}
    /\ expect' = [expect EXCEPT ![curr[c]] = {}]
    /\ UNCHANGED <<runVars, ownerVars, cpumask, wakeVars, spawnVars, queueVars,
                   stackVars, tried, reschedVars, pc, handVars, callVars>>

\* The body of a migration task: one round of migrate_entry's loop.
HelperSelect(c) ==
    /\ pc[c] = "run" /\ curr[c] \in Helpers
    /\ carries[curr[c]] # None
    /\ \E d \in cpumask[carries[curr[c]]] : TakeInHand(c, carries[curr[c]], d, "loop")
    /\ carries' = [carries EXCEPT ![curr[c]] = None]
    /\ pc' = [pc EXCEPT ![c] = "publish"]
    /\ UNCHANGED <<runVars, ownerVars, maskVars, wakeVars, prepared, queueVars,
                   stackVars, tried, reschedVars, callVars>>

\* park_task: consume the latch, or leave the scheduler while holding its lock.
park_task(c) ==
    /\ pc[c] = "run" /\ curr[c] \in Tasks /\ expect[curr[c]] = {}
    /\ IF woke[curr[c]]
       THEN /\ woke' = [woke EXCEPT ![curr[c]] = FALSE]
            /\ UNCHANGED <<sched_curr, pc, after>>
       ELSE /\ ~RqLocked(c)
            /\ sched_curr' = [sched_curr EXCEPT ![c] = None]
            /\ \E k \in AfterLeave(c) : after' = [after EXCEPT ![c] = k]
            /\ pc' = [pc EXCEPT ![c] = "block"]
            /\ UNCHANGED woke
    /\ UNCHANGED <<runVars, ownerVars, maskVars, wake_flags, wake_cpu, spawnVars, rq,
                   stackVars, tried, reschedVars, hand, dest, callVars>>

\* blocked_resched after leaving: publish Blocked, clear and release the latch.
blocked_resched(c) ==
    /\ pc[c] = "block"
    /\ state' = [state EXCEPT ![curr[c]] = "Blocked"]
    /\ woke' = [woke EXCEPT ![curr[c]] = FALSE]
    /\ pc' = [pc EXCEPT ![c] = after[c]]
    /\ after' = [after EXCEPT ![c] = None]
    /\ UNCHANGED <<on_cpu, ownerVars, maskVars, wake_flags, wake_cpu, spawnVars,
                   queueVars, stackVars, tried, reschedVars, hand, dest, callVars>>

\* Variant: a migration task gives up after one rejected publication.
MayExit_Helper(t) ==
    IF t \in Helpers THEN TRUE ELSE t \in Tasks \ {Main} /\ expect[t] = {}

\* The boot task powers the machine off instead of exiting; a migration task
\* returns only after it has published what it carries.
MayExit(t) ==
    IF t \in Helpers THEN carries[t] = None
    ELSE t \in Tasks \ {Main} /\ expect[t] = {}

exit_current(c) ==
    LET t == curr[c] IN
    /\ pc[c] = "run"
    /\ MayExit(t)
    /\ ~RqLocked(c)
    /\ state' = [state EXCEPT ![t] = "Exited"]
    /\ home_charged' = [home_charged EXCEPT ![t] = FALSE]
    /\ nr_home' = [nr_home EXCEPT ![c] = IF home_charged[t] THEN @ - 1 ELSE @]
    /\ sched_curr' = [sched_curr EXCEPT ![c] = None]
    /\ \E k \in AfterLeave(c) : pc' = [pc EXCEPT ![c] = k]
    /\ UNCHANGED <<on_cpu, cpu_id, maskVars, wakeVars, spawnVars, rq, stackVars,
                   tried, reschedVars, handVars, callVars>>

\* Variant: the idle task waits without looking for a request.
idle_wait_if_no_work_Blind(c) ==
    /\ pc[c] = "run" /\ curr[c] = Idle
    /\ pc' = [pc EXCEPT ![c] = "halt"]
    /\ UNCHANGED <<runVars, ownerVars, maskVars, wakeVars, spawnVars, queueVars,
                   stackVars, tried, reschedVars, handVars, callVars>>

\* idle_wait_if_no_work: with IRQs masked the idle task finds no request and
\* waits; an interrupt that comes in between ends the wait at once.
idle_wait_if_no_work(c) ==
    /\ pc[c] = "run" /\ curr[c] = Idle
    /\ ~need_resched[c]
    /\ pc' = [pc EXCEPT ![c] = "halt"]
    /\ UNCHANGED <<runVars, ownerVars, maskVars, wakeVars, spawnVars, queueVars,
                   stackVars, tried, reschedVars, handVars, callVars>>

\* Some other interrupt ends the wait.
idle_wait_returns(c) ==
    /\ pc[c] = "halt"
    /\ pc' = [pc EXCEPT ![c] = "run"]
    /\ UNCHANGED <<runVars, ownerVars, maskVars, wakeVars, spawnVars, queueVars,
                   stackVars, tried, reschedVars, handVars, callVars>>

\* The reschedule IPI handler and the schedule timer only set need_resched.
\* On an idle CPU the timer does so for a budget that is replenished.
HandleIpi(c) ==
    /\ pc[c] \in {"run", "halt"} /\ ipi[c]
    /\ ipi' = [ipi EXCEPT ![c] = FALSE]
    /\ need_resched' = [need_resched EXCEPT ![c] = TRUE]
    /\ pc' = [pc EXCEPT ![c] = "run"]
    /\ UNCHANGED <<runVars, ownerVars, maskVars, wakeVars, spawnVars, queueVars,
                   stackVars, tried, handVars, callVars>>

on_timer_fire(c) ==
    /\ pc[c] \in {"run", "halt"} /\ ~need_resched[c]
    /\ curr[c] = Idle => rq[c] \cap Budgeted # {}
    /\ need_resched' = [need_resched EXCEPT ![c] = TRUE]
    /\ pc' = [pc EXCEPT ![c] = "run"]
    /\ UNCHANGED <<runVars, ownerVars, maskVars, wakeVars, spawnVars, queueVars,
                   stackVars, tried, ipi, handVars, callVars>>

-----------------------------------------------------------------------------
(* resched(): idle pull, pick, switch, and the end of the switch.          *)

\* RunQueue::load_count, as published in nr_running, if the tasks of T are
\* throttled.
NrRunning(c, T) == Cardinality(rq[c] \ T) + (IF sched_curr[c] \in AllTasks THEN 1 ELSE 0)

\* find_idle_pull_src: the busiest untried CPU with at least two tasks.
PullSources(c, T) ==
    LET Waiting == {s \in CPUs \ ({c} \cup tried[c]) : NrRunning(s, T) >= 2}
    IN  {s \in Waiting : \A r \in Waiting : NrRunning(s, T) >= NrRunning(r, T)}

idle_pull(c) == \E T \in SUBSET Budgeted :
    /\ pc[c] = "pull"
    /\ \/ /\ PullSources(c, T) = {}
          /\ pc' = [pc EXCEPT ![c] = "pick"]
          /\ UNCHANGED <<tried, dest>>
       \/ \E s \in PullSources(c, T) :
            /\ tried' = [tried EXCEPT ![c] = @ \cup {s}]
            /\ dest' = [dest EXCEPT ![c] = s]
            /\ pc' = [pc EXCEPT ![c] = "steal"]
    /\ UNCHANGED <<runVars, ownerVars, maskVars, wakeVars, spawnVars, queueVars,
                   stackVars, reschedVars, hand, after, callVars>>

\* Variant: a task that its old CPU has not left yet may be stolen.
Stealable_OnCpu(c, s) == {t \in rq[s] : state[t] = "Ready" /\ c \in cpumask[t]}

\* can_idle_pull_task over the source queue.
Stealable(c, s) == {t \in rq[s] : state[t] = "Ready" /\ ~on_cpu[t] /\ c \in cpumask[t]}

steal_ready_for_idle_pull(c) ==
    LET s == dest[c] IN
    /\ pc[c] = "steal"
    /\ ~RqLocked(s)
    /\ \/ /\ Stealable(c, s) \subseteq Budgeted
          /\ pc' = [pc EXCEPT ![c] = "pull"]
          /\ dest' = [dest EXCEPT ![c] = None]
          /\ UNCHANGED <<rq, hand, after>>
       \/ \E t \in Stealable(c, s) :
            /\ rq' = [rq EXCEPT ![s] = @ \ {t}]
            /\ TakeInHand(c, t, c, "pick")
            /\ pc' = [pc EXCEPT ![c] = "publish"]
    /\ UNCHANGED <<runVars, ownerVars, maskVars, wakeVars, spawnVars, sched_curr,
                   stackVars, tried, reschedVars, callVars>>

\* Variant: no fallback to the idle task.
NextTasks_NoIdle(c) == IF rq[c] = {} THEN {None} ELSE rq[c]

\* What Scheduler::pick_next may return: Idle only if nothing is runnable.
NextTasks(c) == rq[c] \cup (IF Runnable(c) = {} THEN {Idle} ELSE {})

\* resched() after the idle pull: pick_next.
pick_next(c) ==
    /\ pc[c] = "pick"
    /\ ~RqLocked(c)
    /\ \E t \in NextTasks(c) :
            /\ sched_curr' = [sched_curr EXCEPT ![c] = t]
            /\ rq' = [rq EXCEPT ![c] = @ \ {t}]
    /\ tried' = [tried EXCEPT ![c] = {}]
    /\ pc' = [pc EXCEPT ![c] = "switch"]
    /\ UNCHANGED <<runVars, ownerVars, maskVars, wakeVars, spawnVars, stackVars,
                   reschedVars, handVars, callVars>>

switch_to(c) ==
    LET next == sched_curr[c] IN
    /\ pc[c] = "switch"
    /\ need_resched' = [need_resched EXCEPT ![c] = FALSE]
    /\ state' = IF next = Idle THEN state ELSE [state EXCEPT ![next] = "Running"]
    /\ IF next = curr[c]
       THEN /\ pc' = [pc EXCEPT ![c] = "run"]
            /\ UNCHANGED <<on_cpu, curr, prev>>
       ELSE /\ on_cpu' = IF next = Idle THEN on_cpu ELSE [on_cpu EXCEPT ![next] = TRUE]
            /\ prev' = [prev EXCEPT ![c] = curr[c]]
            /\ curr' = [curr EXCEPT ![c] = next]
            /\ pc' = [pc EXCEPT ![c] = "clear"]
    /\ UNCHANGED <<ownerVars, maskVars, wakeVars, spawnVars, queueVars, tried, ipi,
                   handVars, callVars>>

\* finish_task_switch -> clear_prev_task_on_cpu: on_cpu := false ...
finish_task_switch(c) ==
    /\ pc[c] = "clear"
    /\ IF prev[c] = Idle
       THEN /\ prev' = [prev EXCEPT ![c] = None]
            /\ pc' = [pc EXCEPT ![c] = "run"]
            /\ UNCHANGED on_cpu
       ELSE /\ on_cpu' = [on_cpu EXCEPT ![prev[c]] = FALSE]
            /\ pc' = [pc EXCEPT ![c] = "take"]
            /\ UNCHANGED prev
    /\ UNCHANGED <<state, ownerVars, maskVars, wakeVars, spawnVars, queueVars, curr,
                   tried, reschedVars, handVars, callVars>>

\* Variant: the switch-out leaves a deferred wake alone.
clear_prev_task_on_cpu_NoTake(c) ==
    /\ pc[c] = "take"
    /\ prev' = [prev EXCEPT ![c] = None]
    /\ pc' = [pc EXCEPT ![c] = "run"]
    /\ UNCHANGED <<runVars, ownerVars, maskVars, wakeVars, spawnVars, queueVars, curr,
                   tried, reschedVars, handVars, callVars>>

\* ... then take the wake flags and finish the enqueue a waker deferred.
clear_prev_task_on_cpu(c) ==
    LET t == prev[c] IN
    /\ pc[c] = "take"
    /\ prev' = [prev EXCEPT ![c] = None]
    /\ IF wake_flags[t]
       THEN /\ wake_flags' = [wake_flags EXCEPT ![t] = FALSE]
            /\ wake_cpu' = [wake_cpu EXCEPT ![t] = None]
            /\ TakeInHand(c, t, IF wake_cpu[t] = None THEN cpu_id[t] ELSE wake_cpu[t], "run")
            /\ pc' = [pc EXCEPT ![c] = "publish"]
       ELSE /\ pc' = [pc EXCEPT ![c] = "run"]
            /\ UNCHANGED <<wake_flags, wake_cpu, handVars>>
    /\ UNCHANGED <<runVars, ownerVars, maskVars, woke, spawnVars, queueVars, curr,
                   tried, reschedVars, callVars>>

-----------------------------------------------------------------------------
(* Wakers: KWaker::wake_by_ref, wake_task, and unblock_task behind them.   *)

\* Variant: the waker sets the latch without taking its lock.
LatchHeld_Unlocked(t) == FALSE

\* blocked_resched holds the latch of the parking task until it is Blocked.
LatchHeld(t) == \E c \in CPUs : pc[c] = "block" /\ curr[c] = t

\* wake_by_ref sets the latch first; wake_task has none to set.
wake(w, t, latched) ==
    /\ pc[w] = "idle"
    /\ t \notin prepared
    /\ latched => ~LatchHeld(t)
    /\ woke' = [woke EXCEPT ![t] = @ \/ latched]
    /\ target' = [target EXCEPT ![w] = t]
    /\ pc' = [pc EXCEPT ![w] = "unblock"]
    /\ UNCHANGED <<runVars, ownerVars, maskVars, wake_flags, wake_cpu, spawnVars,
                   queueVars, stackVars, tried, reschedVars, handVars, snap>>

\* Someone still inside the on_cpu / wake_flags handshake of an earlier wakeup
\* of t: a waker before its claim, or a CPU that t has left for another one.
StaleClaimant(w, t) ==
    \/ \E v \in Wakers \ {w} : target[v] = t /\ pc[v] \in {"check", "claim"}
    \/ \E c \in CPUs : prev[c] = t /\ pc[c] = "take" /\ cpu_id[t] # c

\* Variant: a task that is already Ready is unblocked again.
CanUnblock_Twice(t) == state[t] \in {"Blocked", "Ready"}

\* transition_state(Blocked, Ready) of put_task_with_state.
CanUnblock(t) == state[t] = "Blocked"

\* select_wake_run_queue, then the Blocked -> Ready transition of put_task_with_state.
unblock_task(w) ==
    LET t == target[w] IN
    /\ pc[w] = "unblock"
    /\ \/ /\ ~CanUnblock(t)
          /\ pc' = [pc EXCEPT ![w] = "idle"]
          /\ target' = [target EXCEPT ![w] = None]
          /\ UNCHANGED <<state, dest>>
       \/ /\ CanUnblock(t)
          /\ StaleClaims \/ ~StaleClaimant(w, t)
          /\ state' = [state EXCEPT ![t] = "Ready"]
          /\ \E c \in cpumask[t] : dest' = [dest EXCEPT ![w] = c]
          /\ pc' = [pc EXCEPT ![w] = "arm"]
          /\ UNCHANGED target
    /\ UNCHANGED <<on_cpu, ownerVars, maskVars, wakeVars, spawnVars, queueVars,
                   stackVars, tried, reschedVars, hand, after, snap>>

\* set_wake_cpu, arm_wake_enqueue and its fence.
arm_wake_enqueue(w) ==
    /\ pc[w] = "arm"
    /\ wake_cpu' = [wake_cpu EXCEPT ![target[w]] = dest[w]]
    /\ wake_flags' = [wake_flags EXCEPT ![target[w]] = TRUE]
    /\ pc' = [pc EXCEPT ![w] = "check"]
    /\ UNCHANGED <<runVars, ownerVars, maskVars, woke, spawnVars, queueVars, stackVars,
                   tried, reschedVars, handVars, callVars>>

\* A task still on a CPU is left to that CPU.
CheckOnCpu(w) ==
    /\ pc[w] = "check"
    /\ IF on_cpu[target[w]]
       THEN /\ pc' = [pc EXCEPT ![w] = "idle"]
            /\ EmptyHand(w)
            /\ target' = [target EXCEPT ![w] = None]
       ELSE /\ pc' = [pc EXCEPT ![w] = "claim"]
            /\ UNCHANGED <<handVars, target>>
    /\ UNCHANGED <<runVars, ownerVars, maskVars, wakeVars, spawnVars, queueVars,
                   stackVars, tried, reschedVars, snap>>

\* take_wake_enqueue on the waker's side: whoever swaps the flags enqueues.
take_wake_enqueue(w) ==
    LET t == target[w] IN
    /\ pc[w] = "claim"
    /\ IF wake_flags[t]
       THEN /\ wake_flags' = [wake_flags EXCEPT ![t] = FALSE]
            /\ wake_cpu' = [wake_cpu EXCEPT ![t] = None]
            /\ TakeInHand(w, t, dest[w], "idle")
            /\ pc' = [pc EXCEPT ![w] = "publish"]
            /\ UNCHANGED target
       ELSE /\ pc' = [pc EXCEPT ![w] = "idle"]
            /\ EmptyHand(w)
            /\ target' = [target EXCEPT ![w] = None]
            /\ UNCHANGED <<wake_flags, wake_cpu>>
    /\ UNCHANGED <<runVars, ownerVars, maskVars, woke, spawnVars, queueVars, stackVars,
                   tried, reschedVars, snap>>

-----------------------------------------------------------------------------
(* Setters: set_task_affinity on a task that is not the caller.            *)

set_task_affinity(s, t, m) ==
    /\ pc[s] = "idle"
    /\ cpumask' = [cpumask EXCEPT ![t] = m]
    /\ target' = [target EXCEPT ![s] = t]
    /\ pc' = [pc EXCEPT ![s] = "snapshot"]
    /\ UNCHANGED <<runVars, ownerVars, expect, wakeVars, spawnVars, queueVars,
                   stackVars, tried, reschedVars, handVars, snap>>

\* enforce_affinity_placement reads the mask once, then state, then cpu_id.
SnapshotMask(s) ==
    /\ pc[s] = "snapshot"
    /\ snap' = [snap EXCEPT ![s] = cpumask[target[s]]]
    /\ pc' = [pc EXCEPT ![s] = "state"]
    /\ UNCHANGED <<runVars, ownerVars, maskVars, wakeVars, spawnVars, queueVars,
                   stackVars, tried, reschedVars, handVars, target>>

Placed(s) == cpu_id[target[s]] \in snap[s]
IsRunning(s) == state[target[s]] = "Running"

\* The branches of enforce_affinity_placement that only look.
enforce_affinity_placement(s) ==
    /\ \/ /\ pc[s] = "state"
          /\ pc' = [pc EXCEPT ![s] = IF state[target[s]] \in {"Blocked", "Exited"}
                                     THEN "return" ELSE "owner"]
       \/ /\ pc[s] = "owner"
          /\ pc' = [pc EXCEPT ![s] = IF Placed(s) THEN "return" ELSE "dequeue"]
       \/ /\ pc[s] = "wait"
          /\ ~IsRunning(s) \/ Placed(s)
          /\ pc' = [pc EXCEPT ![s] = "redo"]
       \/ /\ pc[s] = "redo"
          /\ pc' = [pc EXCEPT ![s] = IF ~IsRunning(s) /\ ~Placed(s)
                                     THEN "dequeue2" ELSE "verdict"]
       \/ /\ pc[s] = "verdict"
          /\ pc' = [pc EXCEPT ![s] = IF ~IsRunning(s) \/ Placed(s)
                                     THEN "return" ELSE "failed"]
    /\ UNCHANGED <<runVars, ownerVars, maskVars, wakeVars, spawnVars, queueVars,
                   stackVars, tried, reschedVars, handVars, callVars>>

\* Variant: on_cpu is not waited for.
can_dequeue_ready_task_OnCpu(t) == state[t] = "Ready"

can_dequeue_ready_task(t) == state[t] = "Ready" /\ ~on_cpu[t]

\* dequeue_ready_task_waiting_off_cpu: spins while the task is Ready and on a
\* CPU; a Ready task that is off-CPU but not queued is left alone.
dequeue_ready_task_waiting_off_cpu(s) ==
    LET t == target[s]
        c == cpu_id[t]
        miss == IF pc[s] = "dequeue" THEN "kick" ELSE "verdict"
    IN  /\ pc[s] \in {"dequeue", "dequeue2"}
        /\ \/ /\ state[t] # "Ready"
              /\ pc' = [pc EXCEPT ![s] = miss]
              /\ UNCHANGED <<rq, handVars>>
           \/ /\ can_dequeue_ready_task(t)
              /\ ~RqLocked(c)
              /\ IF t \in rq[c]
                 THEN /\ rq' = [rq EXCEPT ![c] = @ \ {t}]
                      /\ TakeInHand(s, t, c, "verdict")
                      /\ pc' = [pc EXCEPT ![s] = "migrate"]
                 ELSE /\ pc' = [pc EXCEPT ![s] = miss]
                      /\ UNCHANGED <<rq, handVars>>
        /\ UNCHANGED <<runVars, ownerVars, maskVars, wakeVars, spawnVars, sched_curr,
                       stackVars, tried, reschedVars, callVars>>

\* A running task gets a reschedule IPI and is waited for.
request_remote_resched(s) ==
    /\ pc[s] = "kick"
    /\ IF IsRunning(s)
       THEN /\ ipi' = [ipi EXCEPT ![cpu_id[target[s]]] = TRUE]
            /\ pc' = [pc EXCEPT ![s] = "wait"]
       ELSE /\ pc' = [pc EXCEPT ![s] = "redo"]
            /\ UNCHANGED ipi
    /\ UNCHANGED <<runVars, ownerVars, maskVars, wakeVars, spawnVars, queueVars,
                   stackVars, tried, need_resched, handVars, callVars>>

\* Back in the caller, with true ("return") or false ("failed").
AffinityReturns(s) ==
    /\ pc[s] \in {"return", "failed"}
    /\ pc' = [pc EXCEPT ![s] = "idle"]
    /\ target' = [target EXCEPT ![s] = None]
    /\ snap' = [snap EXCEPT ![s] = {}]
    /\ UNCHANGED <<runVars, ownerVars, maskVars, wakeVars, spawnVars, queueVars,
                   stackVars, tried, reschedVars, handVars>>

-----------------------------------------------------------------------------
Publication(a) ==
    publish_task(a) \/ RejectTask(a) \/ migrate_entry(a) \/ enqueue(a)

Resched(c) ==
    \/ leave_and_publish(c) \/ blocked_resched(c)
    \/ idle_pull(c) \/ steal_ready_for_idle_pull(c) \/ pick_next(c)
    \/ switch_to(c) \/ finish_task_switch(c) \/ clear_prev_task_on_cpu(c)

Interrupt(c) ==
    \/ HandleIpi(c) \/ on_timer_fire(c) \/ preempt_resched(c)
    \/ idle_wait_if_no_work(c) \/ idle_wait_returns(c)

RunTask(c) ==
    \/ \E t \in Tasks : add_task(c, t)
    \/ yield_current(c) \/ park_task(c) \/ exit_current(c)
    \/ \E m \in Masks : set_current_affinity(c, m)
    \/ \E h \in Helpers : LeaveForbidden(c, h)
    \/ AssertMigrated(c) \/ HelperSelect(c)

Waker(w) ==
    \/ \E t \in Tasks, latched \in BOOLEAN : wake(w, t, latched)
    \/ unblock_task(w) \/ arm_wake_enqueue(w) \/ CheckOnCpu(w) \/ take_wake_enqueue(w)

Setter(s) ==
    \/ \E t \in Tasks, m \in Masks : set_task_affinity(s, t, m)
    \/ SnapshotMask(s) \/ enforce_affinity_placement(s)
    \/ dequeue_ready_task_waiting_off_cpu(s) \/ request_remote_resched(s)
    \/ AffinityReturns(s)

Next ==
    \/ \E a \in Agents : Publication(a)
    \/ \E c \in CPUs : Resched(c) \/ Interrupt(c) \/ RunTask(c)
    \/ \E w \in Wakers : Waker(w)
    \/ \E s \in Setters : Setter(s)

Spec == Init /\ [][Next]_vars

-----------------------------------------------------------------------------
(* Who is responsible for a task that is not running.                      *)

Queued(t) == {c \in CPUs : t \in rq[c]}
Picked(t) == {c \in CPUs : pc[c] = "switch" /\ sched_curr[c] = t}
Held(t) == {a \in Agents : hand[a] = t}
Carried(t) == {h \in Helpers : state[h] # "Exited" /\ carries[h] = t}
Arming(t) == {w \in Wakers : pc[w] = "arm" /\ target[w] = t}

\* The CPUs that execute on, or are still saving into, the stack of t.
OnStack(t) == {c \in CPUs : curr[c] = t \/ (prev[c] = t /\ pc[c] = "clear")}

\* Places where a task is, or from which it will be, given a CPU.
Places(t) ==
    Cardinality(Queued(t)) + Cardinality(Picked(t)) + Cardinality(Held(t))
    + Cardinality(Carried(t)) + Cardinality(Arming(t))
    + (IF wake_flags[t] THEN 1 ELSE 0)

(* A task that is Ready and was activated is owned in exactly one way: on  *)
(* one run queue, picked by one CPU, in the hands of one publisher or      *)
(* migration task, or left to a switch-out by a deferred wake.  A task     *)
(* that is not Ready is owned in none: no task is lost, and none is        *)
(* enqueued twice.                                                         *)
OwnedOnce ==
    \A t \in AllTasks :
        Places(t) = IF state[t] = "Ready" /\ t \notin prepared THEN 1 ELSE 0

(* No two CPUs are on the stack of the same task (switch_to, on_cpu).      *)
OneStack == \A t \in AllTasks : Cardinality(OnStack(t)) <= 1

(* A queued or picked task is owned by the CPU it is queued or picked on   *)
(* (debug_assert of switch_to; what task_rq_lock relies on).               *)
OwnerMatches ==
    \A t \in AllTasks, c \in CPUs :
        c \in Queued(t) \cup Picked(t) => cpu_id[t] = c

(* No wakeup is lost (park_task): no signal reaches the latch between the  *)
(* last look at it and the Blocked state, where it would be erased, and a  *)
(* set latch coexists with a sleeping task only while a waker that set it  *)
(* is still on its way to unblock the task.                                *)
NoLostWake ==
    /\ \A c \in CPUs : pc[c] = "block" => ~woke[curr[c]]
    /\ \A t \in Tasks :
          woke[t] /\ state[t] = "Blocked" =>
              \E w \in Wakers : pc[w] = "unblock" /\ target[w] = t

(* nr_home of a CPU counts the charged tasks that CPU owns.                *)
HomeCount ==
    \A c \in CPUs :
        nr_home[c] = Cardinality({t \in AllTasks : home_charged[t] /\ cpu_id[t] = c})

(* "target task can not be insert into the run queue until it finishes its *)
(* scheduling process" (unblock_task): nobody publishes a task that a CPU  *)
(* is still on.                                                            *)
HandOff ==
    \A t \in AllTasks : Held(t) # {} => ~on_cpu[t]

(* assert!(..., "Migration failed"): a task that migrated itself resumes   *)
(* on a CPU of the mask it asked for.                                      *)
MigrationSucceeds ==
    \A c \in CPUs :
        pc[c] = "run" /\ curr[c] \in Tasks /\ expect[curr[c]] # {}
            => c \in expect[curr[c]]

-----------------------------------------------------------------------------
(* Progress.  A CPU that is off IRQs finishes its scheduling step, takes   *)
(* pending IPIs once IRQs are on and reaches a preempt safe point; a run   *)
(* queue lock that stays free is taken; a migration task runs to its end; a *)
(* waker or an affinity call that has started goes on.  A reschedule IPI   *)
(* is never refused (the code warns and goes on if it is).  Nothing        *)
(* obliges a task to yield, block or exit, nor a timer to fire.            *)

LeaveCpu(c) == preempt_resched(c) \/ (need_resched[c] /\ \E h \in Helpers : LeaveForbidden(c, h))
HelperStep(c) == HelperSelect(c) \/ (curr[c] \in Helpers /\ exit_current(c))
WakerStep(w) == unblock_task(w) \/ arm_wake_enqueue(w) \/ CheckOnCpu(w) \/ take_wake_enqueue(w)
SetterStep(s) ==
    \/ SnapshotMask(s) \/ enforce_affinity_placement(s) \/ request_remote_resched(s)
    \/ dequeue_ready_task_waiting_off_cpu(s) \/ AffinityReturns(s)

Fairness ==
    /\ \A a \in Agents : WF_vars(Publication(a))
    /\ \A c \in CPUs : WF_vars(Resched(c)) /\ WF_vars(HandleIpi(c)) /\ WF_vars(LeaveCpu(c))
                       /\ WF_vars(HelperStep(c))
    /\ \A w \in Wakers : WF_vars(WakerStep(w))
    /\ \A s \in Setters : WF_vars(SetterStep(s))

LiveSpec == Spec /\ Fairness

\* kspin's lock is not fair.  What is refuted here fails even if it were.
FairLockSpec ==
    /\ LiveSpec
    /\ \A c \in CPUs : SF_vars(LeaveCpu(c))
    /\ \A s \in Setters : SF_vars(SetterStep(s))

\* Blocked, or past its last look at the latch.
Asleep(t) == state[t] = "Blocked" \/ \E c \in CPUs : pc[c] = "block" /\ curr[c] = t

(* A task whose latch is set while it sleeps is woken (park_task).         *)
WakeDelivered == \A t \in Tasks : woke[t] /\ Asleep(t) ~> ~Asleep(t)

(* A woken task reaches a run queue: of the two sides of a deferred wake,  *)
(* the waker and the switch-out (put_task_with_state), one completes it.   *)
(* With masks that move, migrate_entry promises no end to its retries and  *)
(* neither does this.                                                      *)
ReadyIsQueued ==
    \A t \in Tasks : state[t] = "Ready" /\ t \notin prepared ~>
                        Queued(t) # {} \/ state[t] # "Ready"

(* A CPU does not stay idle while a task that cannot be throttled is       *)
(* queued on it: the kick that follows every enqueue is not lost between   *)
(* the idle task's look for it and its wait (idle_wait_if_no_work).        *)
IdleServesQueue ==
    \A c \in CPUs : curr[c] = Idle /\ Runnable(c) # {} ~> curr[c] # Idle \/ Runnable(c) = {}

(* enforce_affinity_placement, once it waits for a running task, returns:  *)
(* "the remote CPU finishes the affinity migrate at its next preempt safe  *)
(* point".                                                                 *)
SetterReturns == \A s \in Setters : pc[s] = "wait" ~> pc[s] # "wait"

=============================================================================
