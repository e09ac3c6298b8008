# X-Kernel in TLA+

TLA+ models of the parts of X-Kernel in which concurrency is hardest to test:
the run queues, the futex table, the completion primitives and RCU. TLC checks
small instances of all of them; TLAPS proves the main safety properties for
every number of CPUs, tasks and callbacks.

`PROJECT.json` lists, by definition, the source lines each model stands for,
the runs, the mutants that show each property can fail, and the hazards.

## The parts and how they interact

- **ktask run queues** (`src/task/ktask/src/run_queue/`): each CPU owns a queue.
  A task leaves its CPU by yielding, preemption, parking, exit or affinity
  migration; wakers and idle CPUs move it back while the old CPU may still be
  on its stack.
- **kfutex** (`src/process/kfutex/src/`): user-space waits, over `block_on`,
  which parks through the run queues.
- **kcompletion** (`src/sync/kcompletion/src/completion.rs`, and its user
  `src/task/ktask/src/completion.rs`): tokens, sticky completion and predicate
  queues, also over `park_task`.
- **krcu** (`src/sync/krcu/`): readers are recorded at scheduler boundaries of
  the run queues; grace periods let callbacks run; `drain_callbacks` and
  `synchronize_rcu` wait on a `Completion`.

The models meet at these interfaces rather than in one product. `park_task`
and its latch are detailed in RunQueue; Futex and Completion use one latch per
wait and one atomic park. Rcu uses the scheduler only as "a boundary, then some
task that is on no CPU comes in". `DrainComplete` speaks of what holds once
the drain's `complete_all` has been called, and Completion of what a waiter sees
after it.

## Modules

| Module | Models |
|---|---|
| RunQueueState / RunQueue | the state of run queues, CPUs, tasks and agents / switch, wakeups, affinity, idle pull |
| FutexSpec / Futex | what the futex calls promise / the table with buckets, locks and waiters |
| Lists | the intrusive lists used by Completion and Rcu |
| Completion | Completion, WaitQueue, DeferredWake, and the waits of CompletionWait |
| Rcu | read scopes, per-CPU nodes, watching counters, scheduler boundaries, coordinator |
| RcuCallbacks | callback queues, the grace-period driver, executors, drain (extends Rcu) |
| MCRunQueue, MCFutex, MCCompletion, MCRcu | instances for TLC |
| RunQueueInvariant | the inductive invariants of RunQueue: `TypeInv` and `OwnerInv` |
| RunQueueTypes | proof of `TypeInv`, and that no wakeup is lost |
| RunQueueOwner_proofs, RunQueueSteps_proofs, RunQueue_proofs | proof of `OwnerInv`: how tasks move, what each step moves, and what follows |
| Completion_proofs | proofs about Completion |
| RcuInvariant | the inductive invariant of RcuCallbacks |
| RcuReaders_proofs, RcuDriver_proofs, RcuGrace_proofs | its proof, in three layers |

### State and actions against the code

*RunQueue.* A step is one critical section under one run queue's scheduler
lock, or one access to an atomic; publication is two steps because the mask is
stored without that lock. Variables keep the fields' names (`on_cpu`, `cpu_id`,
`wake_flags`, `home_charged`). `Agents` are the CPUs, wakers and affinity
setters; `pc`, `hand`, `dest` say where each is in its function. The scheduling
policy is "any queued task", and placement "any CPU of the mask just read".
`Budgeted` are the deadline and RT tasks: any of them may be throttled whenever
it is looked at, so a CPU with only such tasks queued may go idle, pull, or be
passed over as a source. The idle task looks for a request and then waits
(`idle_wait_if_no_work`, pc "halt"); an IPI, the schedule timer or some other
interrupt ends the wait. A reschedule IPI is always delivered: where
`notify_reschedule` fails, the code warns and goes on, and `IdleServesQueue`
would not hold.

*Futex.* A waiter `<<p, i>>` is the i-th wait of thread p, so a late wake can
meet the next wait. A poll may also end because the read of the word faults or
the interrupt cannot be registered for. The comparison before `block_on` is
taken together with that of the first poll, the same check with the same
outcomes. Two-bucket calls hold their locks across steps. Futex implements FutexSpec (`ImplementsFutex`), in which every call is atomic.

*Completion.* A step is one hold of the source's lock, one evaluation of the
predicate, or one `park_task`. A stack node is named by its task. `Disturb` is
any unblocking that is not a notification (`wake_task`, `interrupt_task`);
`Wait` may find a latch left over from an earlier wait of the same handle.
`Complete` saturates, so that `COMPLETE_ALL` tokens are the sticky value, and
`Reinit` may come at any time, waiters or not. `Publish` and `Withdraw` are what
users of a WaitQueue do to its predicate: the work queue's observers make it
true, the reader of the random number device takes the bytes that made it so.

*Rcu.* A step is one hold of a node's or the coordinator's lock, or one atomic
access. `sw` is the progress of a scheduler boundary: cleanup and unlocked hint
(`SwitchNote`), enrolment and observation (`SwitchLock`), report
(`SwitchReport`), and the cleanup of an exited task (`SwitchExit`). `watch` and
`snapshot` keep what is ever read of the watching sequence: its parity, and its
distance from the node's snapshot modulo the counter's width. Interrupt scopes
are apart from the task's nesting, because they never change enrolment.

*RcuCallbacks.* `gp` walks through `run_with_timer`'s observation loop and
`CallbackDriver::drive`, one lock hold per step, one CPU at a time (`at`). A drain's
completion is sticky, as in the code: once the count has been zero it stays
done, however many markers are counted later. The driver may start a pass and a CPU may run a batch at any time: the demand flag,
timer, kicks and softirq decide only when. `guards` is a history variable: the
scopes that were open when a callback was submitted and are still open. A CPU
inside a callback batch does nothing else, so interrupts within a batch are left
out. A reader is any task; blocking and yielding inside a scope panic in the
code, so only involuntary switches happen there.

## Runs

| Run | Question | Result |
|---|---|---|
| wake | two tasks that block, wake, are preempted, throttled and pulled | holds |
| affinity | a task whose mask changes from both sides | holds |
| wake_affinity | wakeups racing with mask changes | holds |
| progress | woken tasks run, deferred wakes reach a queue, idle CPUs serve theirs | holds |
| stale_claim | may a delayed switch-out take a later wakeup's flags? | violated |
| migration_assert | does a task that migrates itself land inside the mask it read? | violated |
| affinity_wait | does `set_task_affinity` return? | violated |
| futex_requeue | timed waits against wakes and requeues over two buckets; refinement | holds |
| futex_store | no waiter sleeps through a store and its wake; refinement, with a word that changes | holds |
| futex_live | calls and selected waits return | holds |
| completion | nodes, sleepers, broadcasts, and that waits return | holds |
| rcu | nodes, grace periods, driver assertions, drain | holds |

`ReadyIsQueued` is about the deferred wake: in progress no mask changes, so
nothing is rejected and nothing migrates. With masks that change, `OwnedOnce`
shows that a rejected or migrating task is always in somebody's hands, but not
that it is published in the end: `migrate_entry` has no retry cap, and its
comment says that a cpumask that keeps moving can hold its section open.

The three violated runs each check what a comment or an assertion of the code
says; the quotations are in `findings`:

- *stale_claim*: `clear_prev_task_on_cpu` clears `on_cpu` and swaps the wake
  flags later. Delayed in between, it takes the flags of the task's next wakeup
  and publishes a task whose new CPU is still on its stack. All other
  configurations set `StaleClaims = FALSE`, which excludes this history, and
  the theorems on ownership assume it too: what they show holds apart from it.
  TypeCorrect and WakeupsKept hold for both values.
- *migration_assert*: the mask is read once, and the migration uses a later one.
- *affinity_wait*: the setter compares with a mask that has been replaced.

### Bounds

- Run queues: two CPUs, one or two tasks, one waker, one setter, one migration
  helper. Every handshake is between two CPUs or a CPU and one agent over one
  task. All non-empty masks over two CPUs are used where masks matter. In wake
  one of the two tasks has a budget. In progress the task has none:
  `IdleServesQueue` promises nothing for a task that is throttled, which waits
  for its class's timer.
- Futex: two threads, two callers, two keys. Two buckets are what lock order
  and requeue need; `MaxWaits = 2` lets a late wake meet a second wait.
- Completion: two tasks that may use either source, at most two tokens
  short of the sticky value, and two deferred wakes. Two waiters are needed for a wake to reach the wrong one.
  `COMPLETE_ALL = 3` makes saturation reachable; the code's count is a `usize`.
- RCU: two CPUs, two tasks, two callbacks, one drain, budget one, counter width
  four, interrupts on CPU 1, callbacks submitted on both CPUs, also inside an
  interrupt's read scope. The constraint
  `Bound` of MCRcu keeps apart: two readers with one callback of CPU 1; one
  reader and one callback of either CPU, with quiescent windows and interrupts;
  one reader with two callbacks of CPU 1 (two periods); two callbacks, on one
  queue or on both, and a drain without readers. Tasks
  leave these classes only by exiting, so every history within one class is
  explored in full. Combinations across classes are covered by the proofs,
  except for `DrainComplete`.
- Symmetry is used only for safety properties, which
  includes `ImplementsFutex`: a refinement without fairness that treats all
  callers, and in futex_requeue all threads, alike.
- Deadlock is off only for the futex, where all calls may have been made.

### Fairness

- RunQueue: weak fairness only. A CPU, waker, setter or helper that can go on
  does so (a processor does not stop between two instructions). kspin's lock is
  a test-and-set lock and promises no more. affinity_wait alone adds strong
  fairness (`FairLockSpec`), so that its counterexample is not a matter of lock
  starvation: the setter spins for ever even if locks were fair.
- Futex: each thread and caller that can step does so; a signal or an expiry is
  never forced.
- Completion: a runnable task runs; the holder of a `DeferredWake` calls `wake`,
  and a producer calls `notify_all` after publishing, as their documentation
  demands. Tokens, broadcasts and spurious wakes are never forced.
- RcuCallbacks states no fairness; see "Not modelled".

## What is proved

TLAPS checks every proof to the last leaf, from the named assumptions on the
constants only (`ConstantsAssumption`, `CountsAssumption`, `TasksAssumption`,
`RcuAssumption`, `CallbacksAssumption`): finite or disjoint sets, positive
bounds, and no more tasks than a token count holds.

| Theorem | States |
|---|---|
| TypeCorrect | `TypeOK` of RunQueue |
| WakeupsKept | `NoLostWake`: no wakeup falls between the last look at the latch and Blocked |
| EveryTaskOwnedOnce | `OwnedOnce`: a Ready task is in one place, any other in none (*) |
| StacksNeverShared | `OneStack`: no two CPUs on one task's stack (*) |
| OwnersMatch | `OwnerMatches`: `cpu_id` of a queued or picked task is that queue's CPU (*) |
| PublishedOffCpu | `HandOff`: a task is published only once it is off its CPU (*) |
| HomesCounted | `HomeCount`: `nr_home` counts the charged tasks (*) |
| NodesNeverDangle | `NodesLive` of Completion |
| NotificationsFindSleepers | `SleeperRegistered` |
| CountsInRange | `TypeOK` of Completion |
| BroadcastsReachAll | `StickyReachesAll` |
| PredicatesAreSeen | `PredicateSeen` |
| NodesAlwaysMatchOwners | `NodesMatchOwners` of Rcu |
| DriverNeverPanics | `DriverAssertions` |
| CallbacksWaitForReaders | `GracePeriodHonoured`, RCU's promise |

*RunQueue.* `TypeInv` adds to the types what each agent holds at each program
point; without it a publisher's `hand` could be None. `NoLostWake` is then
inductive together with it.

The theorems marked (*) assume `~StaleClaims`, see *stale_claim* above. They
rest on `OwnerInv` (RunQueueInvariant), which has seven parts:

1. `Ownership`: every task is in exactly one `Site` (a queue, picked, in an
   agent's hands, carried by a migration task, about to be armed, or flagged), or
   in none when it is not Ready. This is `OwnedOnce` without counting, so that a
   step is judged by the one site it leaves and the one it enters.
2. `Hands`: only publishers hold tasks, so taking one in hand loses none.
3. `Owners` and `Stacks`: `cpu_id` and `on_cpu` say where a task is queued and
   which CPU is on its stack. `on_cpu` is set exactly between `switch_to` and
   the clearing by the next task on the same CPU.
4. `RunsCurrent`: a CPU that has not left its task runs it, so what leaves is
   Running and in no other place.
5. `CarriedOff`: a migrating task is off its stack before its migration task
   runs, because that task comes in on the same CPU.
6. `Handshake`: at most one waker per task is between arming and claiming, and
   whoever may take the flags finds the task off its CPU. This is the part that
   a late claim breaks.

Most steps move no task (the lemmas `Still_*` of RunQueueSteps_proofs). The
others leave one site for another, and RunQueueOwner_proofs shows once for each
kind of move that `OwnerInv` survives it. TLC checked `OwnerInv` on the
instances of wake, affinity and wake_affinity before it was proved.

*Completion.* `NodesLive` and `SleeperRegistered` need each other: a blocked
task is in its list because only a notification, which also unblocks it, takes
it out. The broadcast properties need the converse too: where a waiter is
before its park, the next check will see what was published, or its latch is
set. `Counted` is needed for saturation: every token since the count was zero
took a waiter off the list, so a count that reaches the sticky value by
`complete` alone leaves nobody on it.

*RCU.* The invariant `IInv` (RcuInvariant) has four layers, each proved using
those before it.

1. `ReaderInv`: lists and owners agree; an open scope is on record, its task
   running on one CPU or enrolled at one node; the watching counter is even
   exactly inside quiescent windows. This gives `NodesMatchOwners`.
2. `DriverInv`: the phase of the coordinator, the periods of the nodes and the
   driver's position determine one another. A node that is ready stays ready
   until its period is finished, because later readers are enrolled in front
   of the marker; so an accepted or in-flight report comes from a ready node.
3. `QueueInv`: waiting segments belong to `completed + 1` or `completed + 2`
   and differ, so two suffice. With 2 this gives `DriverAssertions`.
4. `GraceInv`: for a callback that waits for the running period, every guard
   scope is covered: its reader is in the blocking suffix of its node, or the
   CPU it runs on still owes its observation. When nothing is pending no guard
   is left, and only then does promotion make the callback eligible.

## What is only model-checked

- Liveness under fairness (`progress`, `futex_live`, `StickyReturns`,
  `ReadyReturns`) and ENABLED are outside the prover's reach, as are induction
  over data and RECURSIVE operators; no module here needs the latter two.
- All properties of Futex and its refinement, and `DrainComplete`, have no proof
  yet.

## A token can strand a waiter

`Completion::wait_with` is documented as "Waits synchronously until one token or
sticky completion is consumed" (`completion.rs:184`). With two token waiters and
a spurious wake the model has this history:

1. A and B enrol; B parks and is woken by something other than the completion.
2. `complete()` adds a token and pops A's node. B's check comes first and takes
   the token, with B's node still linked.
3. A finds no token, enrols behind B's node, and parks.
4. `complete()` adds a second token and pops the oldest node: B's.
5. B drops its registration and returns. A stays parked although a token is
   there, until somebody signals again.

No run states this as a property: tokens are a promise to one waiter, and
outside the tests the only caller of `complete()` is `synchronize_rcu`, with one
waiter per Completion. The broadcast properties, which the other users rely on,
hold. The history is listed as a hazard without a property.

## Not modelled

- *krcu scheduling*: `has_demand`, the progress timer, kicks and the softirq.
  That a grace period ends and a callback runs depends on them, so RCU is
  checked and proved for safety only.
- *krcu memory order and numbers*: the SeqCst fences are taken at their word;
  NMI nesting and the wrap-around of the 64-bit period number are left out, as
  are start-up, owned allocations, and callbacks that submit callbacks.
- *Placement*: which allowed CPU is chosen (`placement.rs` scores).
- *ktask API*: exit codes, join, TLS, statistics, scheduling attributes.
- *The rest of the kernel*: memory management, file systems, networking,
  drivers, processes and signals, system calls, TEE, virtualization, boot and
  tools. The four subsystems above are a small share of the code. Much of the
  remainder is hardware access, formats and argument decoding; kmutex, the work
  queues, the kext4 journal and signal delivery have protocols that would
  repay models of their own. `PROJECT.json` gives the reason for each.
