-------------------------- MODULE RunQueue_proofs ---------------------------
(***************************************************************************)
(* The run queues own every task once, for every set of CPUs, tasks,       *)
(* migration tasks, wakers and affinity setters.                           *)
(*                                                                         *)
(* The theorems follow from one inductive invariant, OwnerInv              *)
(* (RunQueueInvariant), which every step keeps (RunQueueSteps_proofs), and *)
(* from type correctness (RunQueueTypes). They assume ~StaleClaims: with   *)
(* stale claims PublishedOffCpu is false (run stale_claim).                *)
(***************************************************************************)
EXTENDS RunQueueTypes, RunQueueSteps_proofs, FiniteSetTheorems

USE ZenonT(30), SMTT(20)

-----------------------------------------------------------------------------
(* The invariant, and what it says of run queues, hands and stacks.        *)

(* Every task is in exactly the place its state calls for, and the bits    *)
(* that record it (cpu_id, on_cpu, the wake flags) agree with where it is, *)
(* provided no task is woken again while someone is about to claim its     *)
(* last wakeup.                                                            *)
THEOREM OwnerInvariant ==
  ASSUME ~StaleClaims
  PROVE  Spec => []OwnerInv
  <1>1. TypeInv /\ OwnerInv /\ [Next]_vars => OwnerInv'
    BY OwnerNext, OwnerStutter
  <1> QED BY <1>1, OwnerInit, TypeInvariant, PTL DEF Spec

\* Sited counts what Places counts.
LEMMA SitedOnce ==
  ASSUME Ownership, Hands, NEW t \in AllTasks
  PROVE  Places(t) = IF Active(t) THEN 1 ELSE 0
  <1>1. PICK k, x : SiteAt(k, x) /\ Site(t, k, x) /\ (k # "none" <=> Active(t))
    BY Zenon DEF Sited, Ownership
  <1>a. Cardinality({}) = 0 /\ Cardinality({x}) = 1
    BY FS_EmptySet, FS_Singleton
  <1>2. Queued(t) = IF k = "queue" THEN {x} ELSE {}
    BY <1>1 DEF Queued, Site, SiteAt
  <1>3. Picked(t) = IF k = "pick" THEN {x} ELSE {}
    BY <1>1 DEF Picked, Site, SiteAt
  <1>4. Held(t) = IF k = "hand" THEN {x} ELSE {}
    BY <1>1 DEF Held, Site, SiteAt
  <1>5. Carried(t) = IF k = "carry" THEN {x} ELSE {}
    <2>1. \A h \in Helpers : carries[h] = t => state[h] # "Exited"
      BY TaskNames DEF Hands
    <2> QED BY <1>1, <2>1 DEF Carried, Site, SiteAt
  <1>6. Arming(t) = IF k = "arm" THEN {x} ELSE {}
    BY <1>1 DEF Arming, Site, SiteAt
  <1>7. wake_flags[t] <=> k = "flag"
    BY <1>1 DEF Site
  <1>8. k \in {"none", "queue", "pick", "hand", "carry", "arm", "flag"}
    BY <1>1 DEF SiteAt, Kinds
  <1>9. /\ Cardinality(Queued(t)) = IF k = "queue" THEN 1 ELSE 0
        /\ Cardinality(Picked(t)) = IF k = "pick" THEN 1 ELSE 0
        /\ Cardinality(Held(t)) = IF k = "hand" THEN 1 ELSE 0
        /\ Cardinality(Carried(t)) = IF k = "carry" THEN 1 ELSE 0
        /\ Cardinality(Arming(t)) = IF k = "arm" THEN 1 ELSE 0
    BY Zenon, <1>a, <1>2, <1>3, <1>4, <1>5, <1>6
  <1>10. Places(t) = IF k = "none" THEN 0 ELSE 1
    BY SMT, <1>7, <1>8, <1>9 DEF Places
  <1> QED BY Zenon, <1>1, <1>10

(* No task is lost and none is enqueued twice (enqueue_task,               *)
(* migrate_entry, the idle pull, the deferred wakeup): a Ready task is in  *)
(* one place, any other task in none, for any number of CPUs, tasks,       *)
(* migration tasks, wakers and affinity calls.                             *)
THEOREM EveryTaskOwnedOnce ==
  ASSUME ~StaleClaims
  PROVE  Spec => []OwnedOnce
  <1>1. OwnerInv => OwnedOnce
    BY SitedOnce DEF OwnerInv, OwnedOnce, Active
  <1> QED BY <1>1, OwnerInvariant, PTL

(* No two CPUs are ever on the stack of one task: switch_to may set on_cpu *)
(* of its next task without a look at the other CPUs.                      *)
THEOREM StacksNeverShared ==
  ASSUME ~StaleClaims
  PROVE  Spec => []OneStack
  <1>1. OwnerInv => OneStack
    <2> SUFFICES ASSUME OwnerInv, NEW t \in AllTasks PROVE Cardinality(OnStack(t)) <= 1
      BY Zenon DEF OneStack
    <2>1. OnStack(t) \in SUBSET {cpu_id[t]}
      BY DEF OnStack, OwnerInv, Stacks
    <2>2. IsFiniteSet({cpu_id[t]}) /\ Cardinality({cpu_id[t]}) = 1
      BY Zenon, FS_Singleton
    <2>3. Cardinality(OnStack(t)) <= Cardinality({cpu_id[t]})
      BY Zenon, <2>1, <2>2, FS_Subset
    <2> QED BY Zenon, <2>2, <2>3
  <1> QED BY <1>1, OwnerInvariant, PTL

(* cpu_id of a queued or picked task is the CPU of that run queue: the     *)
(* debug_assert of switch_to holds, and task_rq_lock finds the right lock. *)
THEOREM OwnersMatch ==
  ASSUME ~StaleClaims
  PROVE  Spec => []OwnerMatches
  <1>1. OwnerInv => OwnerMatches
    BY DEF OwnerInv, Owners, OwnerMatches, Queued, Picked
  <1> QED BY <1>1, OwnerInvariant, PTL

(* Whoever publishes a task finds it off its CPU: the on_cpu handshake     *)
(* between a waker and the switch-out hands a task over only once its      *)
(* context is saved.                                                       *)
THEOREM PublishedOffCpu ==
  ASSUME ~StaleClaims
  PROVE  Spec => []HandOff
  <1>1. OwnerInv => HandOff
    BY DEF OwnerInv, Owners, HandOff, Held
  <1> QED BY <1>1, OwnerInvariant, PTL

-----------------------------------------------------------------------------
(* nr_home counts what it says.                                            *)

\* The tasks charged to the home count of c.
Charged(c) == {t \in AllTasks : home_charged[t] /\ cpu_id[t] = c}

\* They can be counted.
LEMMA ChargedFinite ==
  /\ \A c \in CPUs : IsFiniteSet(Charged(c)) /\ Cardinality(Charged(c)) \in Nat
  <1>1. IsFiniteSet(AllTasks)
    BY ConstantsAssumption, FS_Union DEF AllTasks
  <1>2. \A c \in CPUs : Charged(c) \in SUBSET AllTasks
    BY DEF Charged
  <1> QED BY <1>1, <1>2, FS_Subset, FS_CardinalityType

\* enqueue moves the charge of a task to its new CPU (charge_home).
LEMMA Home_enqueue ==
  ASSUME TypeInv, HomeCount, NEW a \in Agents, enqueue(a)
  PROVE  HomeCount'
  <1>a. PICK t \in AllTasks, d \in CPUs : hand[a] = t /\ dest[a] = d
    BY Zenon DEF TypeInv, PublisherControl, PublishPc, enqueue, Agents
  <1> SUFFICES ASSUME NEW c \in CPUs
               PROVE  nr_home'[c] = Cardinality(Charged(c)')
    BY Zenon DEF HomeCount, Charged
  <1>b. \A u \in AllTasks : /\ home_charged'[u] <=> home_charged[u] \/ u = t
                            /\ cpu_id'[u] = IF u = t THEN d ELSE cpu_id[u]
    BY <1>a, TaskTypeFacts DEF enqueue, attach_owner
  <1>c. nr_home'[c] = nr_home[c] + (IF c = d THEN 1 ELSE 0)
                                 - (IF t \in Charged(c) THEN 1 ELSE 0)
    BY Zenon, <1>a DEF enqueue, charge_home, Charged
  <1>d. nr_home[c] = Cardinality(Charged(c)) /\ IsFiniteSet(Charged(c))
        /\ Cardinality(Charged(c)) \in Nat
    BY Zenon, ChargedFinite DEF HomeCount, Charged
  <1>1. CASE c = d
    <2>1. Charged(c)' = Charged(c) \cup {t}
      BY <1>1, <1>b DEF Charged
    <2>2. Cardinality(Charged(c)') = IF t \in Charged(c) THEN Cardinality(Charged(c))
                                     ELSE Cardinality(Charged(c)) + 1
      BY Zenon, <1>d, <2>1, FS_AddElement
    <2> QED BY SMT, <1>1, <1>c, <1>d, <2>2
  <1>2. CASE c # d
    <2>1. Charged(c)' = Charged(c) \ {t}
      BY <1>2, <1>b DEF Charged
    <2>2. Cardinality(Charged(c)') = IF t \in Charged(c) THEN Cardinality(Charged(c)) - 1
                                     ELSE Cardinality(Charged(c))
      BY Zenon, <1>d, <2>1, FS_RemoveElement
    <2> QED BY SMT, <1>2, <1>c, <1>d, <2>2
  <1> QED BY <1>1, <1>2

\* exit_current gives the charge of a task back.
LEMMA Home_exit_current ==
  ASSUME TypeInv, OwnerInv, HomeCount, NEW c \in CPUs, exit_current(c)
  PROVE  HomeCount'
  <1>0. Ownership /\ Hands /\ Owners /\ Stacks /\ RunsCurrent /\ CarriedOff /\ Handshake
    BY Zenon DEF OwnerInv
  <1>a. PICK t \in AllTasks : curr[c] = t
    BY TaskNames DEF exit_current, MayExit
  <1>b. cpu_id[t] = c
    BY <1>0, <1>a DEF Stacks
  <1> SUFFICES ASSUME NEW d \in CPUs
               PROVE  nr_home'[d] = Cardinality(Charged(d)')
    BY Zenon DEF HomeCount, Charged
  <1>c. Charged(d)' = Charged(d) \ {t}
    <2>1. \A u \in AllTasks : (home_charged'[u] <=> home_charged[u] /\ u # t) /\ cpu_id'[u] = cpu_id[u]
      BY <1>a, TaskTypeFacts DEF exit_current
    <2> QED BY <2>1 DEF Charged
  <1>d. nr_home'[d] = IF t \in Charged(d) THEN nr_home[d] - 1 ELSE nr_home[d]
    <2>1. nr_home \in [CPUs -> Int]
      BY DEF TypeInv, TypeOK, CpuTypes
    <2>2. t \in Charged(d) <=> home_charged[t] /\ d = c
      BY <1>b DEF Charged
    <2>3. nr_home' = [nr_home EXCEPT ![c] = IF home_charged[t] THEN @ - 1 ELSE @]
      BY Zenon, <1>a DEF exit_current
    <2> QED BY SMT, <2>1, <2>2, <2>3
  <1>e. nr_home[d] = Cardinality(Charged(d)) /\ IsFiniteSet(Charged(d))
    BY Zenon, ChargedFinite DEF HomeCount, Charged
  <1>f. Cardinality(Charged(d)') = IF t \in Charged(d) THEN Cardinality(Charged(d)) - 1
                                   ELSE Cardinality(Charged(d))
    BY Zenon, <1>c, <1>e, FS_RemoveElement
  <1> QED BY <1>d, <1>e, <1>f

\* migrate_current charges the migration task.
LEMMA Home_migrate_current ==
  ASSUME TypeInv, OwnerInv, HomeCount, NEW c \in CPUs, NEW h \in Helpers, migrate_current(c, h)
  PROVE  HomeCount'
  <1>0. Ownership /\ Hands /\ Owners /\ Stacks /\ RunsCurrent /\ CarriedOff /\ Handshake
    BY Zenon DEF OwnerInv
  <1>a. ~home_charged[h]
    BY <1>0 DEF migrate_current, FreeHelper, Hands
  <1>b. /\ \A u \in AllTasks : u # h => cpu_id'[u] = cpu_id[u]
        /\ home_charged' = home_charged /\ nr_home' = nr_home
    BY TaskTypeFacts DEF migrate_current, attach_owner
  <1>c. \A d \in CPUs : Charged(d)' = Charged(d)
    BY <1>a, <1>b DEF Charged
  <1> QED BY Zenon, <1>b, <1>c DEF HomeCount, Charged

\* Where no owner changes, no count does.
LEMMA HomeSame ==
  ASSUME HomeCount, UNCHANGED ownerVars
  PROVE  HomeCount'
  BY Zenon DEF HomeCount, ownerVars

\* Every step keeps the counts.
LEMMA HomeNext ==
  ASSUME TypeInv, OwnerInv, HomeCount, Next
  PROVE  HomeCount'
  <1>1. ASSUME NEW a \in Agents, Publication(a) PROVE HomeCount'
    <2>1. publish_task(a) \/ RejectTask(a) \/ migrate_entry(a) => UNCHANGED ownerVars
      BY Zenon DEF publish_task, RejectTask, migrate_entry
    <2> QED BY <1>1, <2>1, HomeSame, Home_enqueue DEF Publication
  <1>2. ASSUME NEW c \in CPUs, Resched(c) PROVE HomeCount'
    <2>1. UNCHANGED ownerVars
      BY Zenon, <1>2 DEF Resched, leave_and_publish, blocked_resched, idle_pull,
           steal_ready_for_idle_pull, pick_next, switch_to, finish_task_switch,
           clear_prev_task_on_cpu
    <2> QED BY <2>1, HomeSame
  <1>3. ASSUME NEW c \in CPUs, Interrupt(c) PROVE HomeCount'
    BY Zenon, <1>3, HomeSame DEF Interrupt, HandleIpi, on_timer_fire, preempt_resched,
         idle_wait_if_no_work, idle_wait_returns
  <1>4. ASSUME NEW c \in CPUs, RunTask(c) PROVE HomeCount'
    <2>1. (\E t \in Tasks : add_task(c, t)) \/ yield_current(c) \/ park_task(c)
          \/ AssertMigrated(c) \/ HelperSelect(c) => UNCHANGED ownerVars
      BY Zenon DEF add_task, yield_current, park_task, AssertMigrated, HelperSelect
    <2>2. ASSUME NEW m \in Masks, set_current_affinity(c, m) PROVE HomeCount'
      <3>1. CASE MustMigrate(c, m)
        BY Zenon, <2>2, <3>1, Home_migrate_current DEF set_current_affinity
      <3>2. CASE ~MustMigrate(c, m)
        BY Zenon, <2>2, <3>2, HomeSame DEF set_current_affinity
      <3> QED BY <3>1, <3>2
    <2>3. ASSUME NEW h \in Helpers, LeaveForbidden(c, h) PROVE HomeCount'
      BY <2>3, Home_migrate_current DEF LeaveForbidden
    <2> QED BY <1>4, <2>1, <2>2, <2>3, HomeSame, Home_exit_current DEF RunTask
  <1>5. ASSUME NEW w \in Wakers, Waker(w) PROVE HomeCount'
    BY Zenon, <1>5, HomeSame DEF Waker, wake, unblock_task, arm_wake_enqueue, CheckOnCpu,
         take_wake_enqueue
  <1>6. ASSUME NEW s \in Setters, Setter(s) PROVE HomeCount'
    BY Zenon, <1>6, HomeSame DEF Setter, set_task_affinity, SnapshotMask,
         enforce_affinity_placement, dequeue_ready_task_waiting_off_cpu, request_remote_resched,
         AffinityReturns
  <1> QED BY <1>1, <1>2, <1>3, <1>4, <1>5, <1>6 DEF Next

\* At boot one task is charged, to the boot CPU.
LEMMA HomeInit == Init => HomeCount
  <1> SUFFICES ASSUME NEW b \in CPUs, Boot(b), NEW c \in CPUs
               PROVE  nr_home[c] = Cardinality(Charged(c))
    BY Zenon DEF Init, HomeCount, Charged
  <1>1. \A t \in AllTasks : (home_charged[t] <=> t = Main) /\ cpu_id[t] = b
    BY Zenon DEF Boot
  <1>2. nr_home[c] = IF c = b THEN 1 ELSE 0
    BY Zenon DEF Boot
  <1>3. Main \in AllTasks
    BY ConstantsAssumption, TaskNames
  <1>4. CASE c = b
    <2>1. Charged(c) = {Main}
      BY <1>1, <1>3, <1>4 DEF Charged
    <2> QED BY <1>2, <1>4, <2>1, FS_Singleton
  <1>5. CASE c # b
    <2>1. Charged(c) = {}
      BY <1>1, <1>5 DEF Charged
    <2> QED BY <1>2, <1>5, <2>1, FS_EmptySet
  <1> QED BY <1>4, <1>5

(* nr_home of a CPU is the number of tasks charged to it, through spawns,  *)
(* exits, wakeups, steals and migrations: placement never drifts from what *)
(* the CPUs hold.                                                          *)
THEOREM HomesCounted ==
  ASSUME ~StaleClaims
  PROVE  Spec => []HomeCount
  <1>1. TypeInv /\ OwnerInv /\ HomeCount /\ [Next]_vars => HomeCount'
    BY HomeNext, HomeSame DEF vars
  <1> QED BY <1>1, HomeInit, TypeInvariant, OwnerInvariant, PTL DEF Spec
=============================================================================
