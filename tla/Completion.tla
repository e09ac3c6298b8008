------------------------------ MODULE Completion ------------------------------
(* One Completion and one WaitQueue of sync/kcompletion, with the tasks that  *)
(* wait on them through ktask's CompletionWait.                               *)
(*                                                                            *)
(* A step is one hold of the source's lock, one evaluation of the caller's    *)
(* predicate, or one call of park_task.  A waiter's stack node is named by    *)
(* its task: a task has at most one wait at a time.                           *)
EXTENDS Naturals, Sequences, FiniteSets, Lists

CONSTANTS
    Tasks,          \* the tasks that wait
    TokenTasks,     \* those of them that use Completion::wait_with
    QueueTasks,     \* those of them that use WaitQueue::wait_until
    Disturbed,      \* tasks unblocked by something other than their source
    COMPLETE_ALL,   \* usize::MAX, the sticky count
    MaxDeferred     \* bound on outstanding DeferredWake handles

(* There are never as many tasks as a usize counts. *)
ASSUME CountsAssumption ==
    /\ COMPLETE_ALL \in Nat \ {0} /\ MaxDeferred \in Nat
    /\ IsFiniteSet(Tasks) /\ Cardinality(Tasks) <= COMPLETE_ALL
ASSUME TasksAssumption ==
    TokenTasks \subseteq Tasks /\ QueueTasks \subseteq Tasks /\ Disturbed \subseteq Tasks

VARIABLES
    done,       \* the Completion's token count
    waiters,    \* nodes linked in each source, oldest first
    latch,      \* CompletionWake.woke of each task
    pc,         \* where each task is in its wait
    source,     \* the source each task waits on
    deferred,   \* DeferredWake handles not yet consumed
    ready,      \* the predicate of the WaitQueue's users
    notifyDue   \* a producer has published and not yet called notify_all

vars == <<done, waiters, latch, pc, source, deferred, ready, notifyDue>>

Sources == {"token", "queue"}
PCs == {"idle", "check", "enrol", "ready", "park", "blocked", "drop"}

Linked(t, s) == In(waiters[s], t)
LoopHead(s) == IF s = "token" THEN "check" ELSE "enrol"

Init ==
    /\ done = 0
    /\ waiters = [s \in Sources |-> <<>>]
    /\ latch = [t \in Tasks |-> FALSE]
    /\ pc = [t \in Tasks |-> "idle"]
    /\ source = [t \in Tasks |-> "token"]
    /\ deferred = 0
    /\ ready = FALSE
    /\ notifyDue = FALSE

-----------------------------------------------------------------------------
(* Waiting. *)

(* CompletionWait::wait or wait_until.  The handle is a fresh one, or one     *)
(* whose latch an earlier wait left set.                                      *)
Wait(t, s) ==
    /\ pc[t] = "idle"
    /\ t \in (IF s = "token" THEN TokenTasks ELSE QueueTasks)
    /\ source' = [source EXCEPT ![t] = s]
    /\ pc' = [pc EXCEPT ![t] = LoopHead(s)]
    /\ \E fresh \in BOOLEAN : latch' = [latch EXCEPT ![t] = latch[t] /\ ~fresh]
    /\ UNCHANGED <<done, waiters, deferred, ready, notifyDue>>

TakeToken == done' = IF done = COMPLETE_ALL THEN done ELSE done - 1

(* Variant: sticky completion is not taken, and the loop goes round. *)
CheckToken_NotSticky(t) ==
    /\ pc[t] = "check"
    /\ done # COMPLETE_ALL
    /\ IF done # 0
       THEN TakeToken /\ pc' = [pc EXCEPT ![t] = "drop"] /\ UNCHANGED waiters
       ELSE /\ waiters' = IF Linked(t, "token") THEN waiters
                          ELSE [waiters EXCEPT !["token"] = Append(@, t)]
            /\ pc' = [pc EXCEPT ![t] = "park"]
            /\ UNCHANGED done
    /\ UNCHANGED <<latch, source, deferred, ready, notifyDue>>

(* One turn of the loop of wait_with, under the lock. *)
CheckToken(t) ==
    /\ pc[t] = "check"
    /\ \/ /\ done # 0
          /\ TakeToken
          /\ pc' = [pc EXCEPT ![t] = "drop"]
          /\ UNCHANGED waiters
       \/ /\ done = 0
          /\ waiters' = IF Linked(t, "token") THEN waiters
                        ELSE [waiters EXCEPT !["token"] = Append(@, t)]
          /\ pc' = [pc EXCEPT ![t] = "park"]
          /\ UNCHANGED done
    /\ UNCHANGED <<latch, source, deferred, ready, notifyDue>>

(* One turn of the loop of wait_until: enrolment, then the predicate. *)
Enrol(t) ==
    /\ pc[t] = "enrol"
    /\ waiters' = [waiters EXCEPT !["queue"] =
                     Append(IF Linked(t, "queue") THEN Without(@, t) ELSE @, t)]
    /\ pc' = [pc EXCEPT ![t] = "ready"]
    /\ UNCHANGED <<done, latch, source, deferred, ready, notifyDue>>

TestReady(t) ==
    /\ pc[t] = "ready"
    /\ pc' = [pc EXCEPT ![t] = IF ready THEN "drop" ELSE "park"]
    /\ UNCHANGED <<done, waiters, latch, source, deferred, ready, notifyDue>>

(* park_task: an early notification is consumed instead of sleeping. *)
ParkTask(t) ==
    /\ pc[t] = "park"
    /\ pc' = [pc EXCEPT ![t] = IF latch[t] THEN LoopHead(source[t]) ELSE "blocked"]
    /\ latch' = [latch EXCEPT ![t] = FALSE]
    /\ UNCHANGED <<done, waiters, source, deferred, ready, notifyDue>>

(* wake_task, interrupt_task or the waker of an earlier future unblocks the   *)
(* task without its latch: park_task returns and the wait goes round.         *)
Disturb(t) ==
    /\ t \in Disturbed
    /\ pc[t] = "blocked"
    /\ pc' = [pc EXCEPT ![t] = LoopHead(source[t])]
    /\ UNCHANGED <<done, waiters, latch, source, deferred, ready, notifyDue>>

(* Variant: the node is left where it is. *)
DropRegistration_Leak(t) ==
    /\ pc[t] = "drop"
    /\ pc' = [pc EXCEPT ![t] = "idle"]
    /\ UNCHANGED <<done, waiters, latch, source, deferred, ready, notifyDue>>

(* Variant: the node is left for a notifier to take out. *)
DropRegistration_Await(t) ==
    /\ pc[t] = "drop"
    /\ ~Linked(t, source[t])
    /\ pc' = [pc EXCEPT ![t] = "idle"]
    /\ UNCHANGED <<done, waiters, latch, source, deferred, ready, notifyDue>>

(* Registration::drop, a lock hold of its own; the wait returns. *)
DropRegistration(t) ==
    /\ pc[t] = "drop"
    /\ waiters' = IF Linked(t, source[t])
                  THEN [waiters EXCEPT ![source[t]] = Without(@, t)] ELSE waiters
    /\ pc' = [pc EXCEPT ![t] = "idle"]
    /\ UNCHANGED <<done, latch, source, deferred, ready, notifyDue>>

-----------------------------------------------------------------------------
(* Signalling. *)

(* Variant: the task is unblocked without its latch. *)
Notify_Unlatched(T) ==
    /\ latch' = latch
    /\ pc' = [t \in Tasks |-> IF t \in T /\ pc[t] = "blocked"
                              THEN LoopHead(source[t]) ELSE pc[t]]

(* CompletionWake::notify of every task of T: latch, then unblock. *)
Notify(T) ==
    /\ latch' = [t \in Tasks |-> t \in T \/ latch[t]]
    /\ pc' = [t \in Tasks |-> IF t \in T /\ pc[t] = "blocked"
                              THEN LoopHead(source[t]) ELSE pc[t]]

WakeOne(s) ==
    IF waiters[s] = <<>> THEN UNCHANGED <<waiters, latch, pc>>
    ELSE /\ Notify({Head(waiters[s])})
         /\ waiters' = [waiters EXCEPT ![s] = Tail(@)]

WakeAll(s) ==
    /\ Notify({waiters[s][i] : i \in 1..Len(waiters[s])})
    /\ waiters' = [waiters EXCEPT ![s] = <<>>]

TryWait ==
    /\ done # 0
    /\ TakeToken
    /\ UNCHANGED <<waiters, latch, pc, source, deferred, ready, notifyDue>>

(* Variant: the count does not saturate. *)
Complete_Plain ==
    /\ done' = done + 1
    /\ WakeOne("token")
    /\ UNCHANGED <<source, deferred, ready, notifyDue>>

(* complete.  The token that saturates the count makes it sticky, and still   *)
(* notifies one waiter only.                                                  *)
Complete ==
    /\ done' = IF done = COMPLETE_ALL THEN done ELSE done + 1
    /\ WakeOne("token")
    /\ UNCHANGED <<source, deferred, ready, notifyDue>>

(* Variants: only the oldest waiter is notified. *)
CompleteAll_One ==
    /\ done' = COMPLETE_ALL
    /\ WakeOne("token")
    /\ UNCHANGED <<source, deferred, ready, notifyDue>>

CompleteAll ==
    /\ done' = COMPLETE_ALL
    /\ WakeAll("token")
    /\ UNCHANGED <<source, deferred, ready, notifyDue>>

CompleteAllDeferWake ==
    /\ deferred < MaxDeferred
    /\ done' = COMPLETE_ALL
    /\ deferred' = deferred + 1
    /\ UNCHANGED <<waiters, latch, pc, source, ready, notifyDue>>

DeferredWake ==
    /\ deferred > 0
    /\ deferred' = deferred - 1
    /\ WakeAll("token")
    /\ UNCHANGED <<done, source, ready, notifyDue>>

Waiting(t, s) == source[t] = s /\ pc[t] # "idle"

(* reinit.  Waiters may be enrolled, and a DeferredWake of the old state may  *)
(* still be outstanding.                                                      *)
Reinit ==
    /\ done' = 0
    /\ UNCHANGED <<waiters, latch, pc, source, deferred, ready, notifyDue>>

(* The users of the WaitQueue: a producer publishes and then notifies; the    *)
(* predicate may become false again at any time.                              *)
Publish ==
    /\ ~ready
    /\ ready' = TRUE
    /\ notifyDue' = TRUE
    /\ UNCHANGED <<done, waiters, latch, pc, source, deferred>>

Withdraw ==
    /\ ready
    /\ ready' = FALSE
    /\ UNCHANGED <<done, waiters, latch, pc, source, deferred, notifyDue>>

NotifyAll_One ==
    /\ notifyDue
    /\ notifyDue' = FALSE
    /\ WakeOne("queue")
    /\ UNCHANGED <<done, source, deferred, ready>>

NotifyAll ==
    /\ notifyDue
    /\ notifyDue' = FALSE
    /\ WakeAll("queue")
    /\ UNCHANGED <<done, source, deferred, ready>>

-----------------------------------------------------------------------------
TaskStep(t) ==
    CheckToken(t) \/ Enrol(t) \/ TestReady(t) \/ ParkTask(t) \/ DropRegistration(t)

Next ==
    \/ \E t \in Tasks : TaskStep(t) \/ Disturb(t) \/ \E s \in Sources : Wait(t, s)
    \/ TryWait \/ Complete \/ CompleteAll \/ CompleteAllDeferWake \/ DeferredWake
    \/ Reinit \/ Publish \/ Withdraw \/ NotifyAll

Spec == Init /\ [][Next]_vars

(* A runnable task runs; the holder of a DeferredWake "must eventually call   *)
(* wake", and a producer notifies what it published.                          *)
Fairness ==
    /\ \A t \in Tasks : WF_vars(TaskStep(t))
    /\ WF_vars(DeferredWake)
    /\ WF_vars(NotifyAll)

LiveSpec == Spec /\ Fairness

-----------------------------------------------------------------------------
(* Properties. *)

(* Every field has its type; in particular the count, to which complete may   *)
(* add without end, stays in a usize.                                         *)
TypeOK ==
    /\ done \in 0..COMPLETE_ALL
    /\ waiters \in [Sources -> Seq(Tasks)]
    /\ latch \in [Tasks -> BOOLEAN]
    /\ pc \in [Tasks -> PCs]
    /\ source \in [Tasks -> Sources]
    /\ deferred \in 0..MaxDeferred
    /\ ready \in BOOLEAN /\ notifyDue \in BOOLEAN

(* A list holds stack nodes of waits in progress on that very source, each at *)
(* most once: when wait_with or wait_until returns, its node is in no list,   *)
(* so wake_one never follows a pointer into a stack frame that is gone.       *)
NodesLive ==
    \A s \in Sources :
        /\ Distinct(waiters[s])
        /\ \A t \in Tasks : Linked(t, s) => Waiting(t, s)

(* A task that sleeps, or is about to, is in the list of its source or has    *)
(* its latch set: the next signal finds it, whatever was notified between its *)
(* enrolment and its park.                                                    *)
SleeperRegistered ==
    \A t \in Tasks :
        /\ pc[t] = "blocked" => Linked(t, source[t])
        /\ pc[t] = "park" => Linked(t, source[t]) \/ latch[t]

(* Once the completion is sticky, by complete_all or by the token that        *)
(* saturates the count, and every deferred wake has been delivered, nobody    *)
(* sleeps on it.                                                              *)
StickyReachesAll ==
    done = COMPLETE_ALL /\ deferred = 0
        => \A t \in Tasks : Waiting(t, "token") => pc[t] # "blocked"

(* Once the predicate holds and its producer has called notify_all, nobody    *)
(* sleeps in wait_until.                                                      *)
PredicateSeen ==
    ready /\ ~notifyDue => \A t \in Tasks : Waiting(t, "queue") => pc[t] # "blocked"

(* A wait_with that meets sticky completion returns, unless reinit ends it. *)
StickyReturns ==
    \A t \in Tasks : Waiting(t, "token") /\ done = COMPLETE_ALL
                       ~> ~Waiting(t, "token") \/ done # COMPLETE_ALL

(* A wait_until whose predicate stays true returns. *)
ReadyReturns ==
    \A t \in Tasks : Waiting(t, "queue") /\ ready ~> ~Waiting(t, "queue") \/ ~ready
=============================================================================
