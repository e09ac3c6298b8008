------------------------ MODULE RunQueueSteps_proofs ------------------------
(***************************************************************************)
(* Every action of RunQueue is a quiet step or one of the twelve steps of  *)
(* RunQueueOwner_proofs that move a task, so Next keeps the ownership      *)
(* invariant.                                                              *)
(*                                                                         *)
(* Step_* are the actions that move a task, Still_* those that do not,     *)
(* Own_* those that may do either.                                         *)
(***************************************************************************)
EXTENDS RunQueue, RunQueueOwner_proofs

USE Zenon, SMT

-----------------------------------------------------------------------------
(* The actions of RunQueue that move a task are steps of                   *)
(* RunQueueOwner_proofs.                                                   *)

\* enqueue publishes.
LEMMA Step_enqueue ==
  ASSUME TypeInv, NEW a \in Agents, enqueue(a)
  PROVE  \E t \in AllTasks, d \in CPUs : Publishes(a, t, d)
  <1>1. PICK t \in AllTasks, d \in CPUs : hand[a] = t /\ dest[a] = d
    BY Zenon DEF TypeInv, PublisherControl, PublishPc, enqueue, Agents
  <1>2. pc[a] = "commit" /\ UNCHANGED <<state, on_cpu, wake_flags, prepared, carries,
                                        sched_curr, curr, prev>>
    BY Zenon DEF enqueue, runVars, wakeVars, spawnVars, stackVars
  <1>3. /\ pc'[a] \in {"run", "pull", "pick", "idle", "verdict"}
        /\ pc'[a] = "run" => after[a] \in {"run", "loop"}
    <2>1. after[a] \in {"run", "loop", "pull", "pick", "idle", "verdict"}
      BY Zenon DEF TypeInv, PublisherControl, PublishPc, enqueue, Agents
    <2> QED BY <2>1, PcTypes DEF enqueue
  <1>4. hand'[a] = None /\ OthersKeep(a)
    BY PcTypes, HandTypes DEF enqueue, EmptyHand, OthersKeep
  <1>5. \A w \in Wakers : w # a => target'[w] = target[w]
    BY HandTypes DEF enqueue
  <1>6. \A u \in AllTasks, c \in CPUs : u \in rq'[c] <=> u \in rq[c] \/ (u = t /\ c = d)
    BY <1>1, QueueTypes DEF enqueue
  <1>7. \A u \in AllTasks : cpu_id'[u] = IF u = t THEN d ELSE cpu_id[u]
    BY <1>1, TaskTypeFacts DEF enqueue, attach_owner
  <1>8. \A u \in AllTasks : home_charged'[u] <=> home_charged[u] \/ u = t
    BY <1>1, TaskTypeFacts DEF enqueue
  <1> QED BY SMT, <1>1, <1>2, <1>3, <1>4, <1>5, <1>6, <1>7, <1>8 DEF Publishes

\* RejectTask puts a task back into the hands of its migration task.
LEMMA Step_RejectTask ==
  ASSUME TypeInv, OwnerInv, NEW a \in Agents, RejectTask(a), after[a] = "loop"
  PROVE  a \in CPUs /\ \E t \in AllTasks, h \in Helpers : PutsBack(a, t, h)
  <1>1. pc[a] = "publish" /\ pc[a] \in PublishPc
    BY DEF RejectTask, PublishPc
  <1>2. a \in CPUs
    BY <1>1 DEF TypeInv, PublisherControl, Agents
  <1>3. PICK t \in AllTasks, h \in Helpers : hand[a] = t /\ curr[a] = h
    BY Zenon, <1>1, <1>2 DEF TypeInv, PublisherControl, OwnerInv, Hands
  <1>4. UNCHANGED <<state, on_cpu, cpu_id, home_charged, wake_flags, prepared, rq, sched_curr,
                    curr, prev, target>>
    BY Zenon
      DEF RejectTask, runVars, ownerVars, wakeVars, queueVars, stackVars, callVars
  <1>5. /\ pc' = [pc EXCEPT ![a] = "run"] /\ EmptyHand(a)
        /\ carries' = [carries EXCEPT ![h] = t]
    BY Zenon, <1>3 DEF RejectTask
  <1>6. pc'[a] = "run" /\ hand'[a] = None /\ OthersKeep(a)
    BY <1>5, PcTypes, HandTypes DEF EmptyHand, OthersKeep
  <1>7. \A g \in Helpers : carries'[g] = IF g = h THEN t ELSE carries[g]
    BY <1>5, TaskTypeFacts
  <1> QED BY <1>1, <1>2, <1>3, <1>4, <1>6, <1>7 DEF PutsBack

\* leave_and_publish leaves a task that stays Ready.
LEMMA Step_leave_and_publish ==
  ASSUME TypeInv, NEW c \in CPUs, leave_and_publish(c), curr[c] # Idle
  PROVE  \E t \in AllTasks : Leaves(c, t, "Ready")
  <1>1. PICK t \in AllTasks : curr[c] = t
    BY StackTypes
  <1>2. UNCHANGED <<on_cpu, cpu_id, home_charged, wake_flags, prepared, carries, curr, prev,
                    hand, after, target>>
    BY Zenon DEF leave_and_publish, ownerVars, wakeVars, spawnVars, stackVars,
      handVars, callVars
  <1>3. /\ pc[c] = "leave" /\ \E k \in {"pull", "pick"} : pc' = [pc EXCEPT ![c] = k]
        /\ sched_curr' = [sched_curr EXCEPT ![c] = None]
        /\ state' = [state EXCEPT ![t] = "Ready"] /\ rq' = [rq EXCEPT ![c] = @ \cup {t}]
    <2>1. \A k \in AfterLeave(c)' : k \in {"pull", "pick"}
      BY DEF AfterLeave
    <2> QED BY Zenon, <1>1, <2>1 DEF leave_and_publish
  <1>4. pc'[c] \in {"pull", "pick"} /\ OthersKeep(c)
    BY <1>2, <1>3, PcTypes, AgentNames DEF OthersKeep
  <1>5. \A d \in CPUs : d # c => sched_curr'[d] = sched_curr[d]
    BY <1>3, QueueTypes
  <1>6. \A u \in AllTasks : state'[u] = IF u = t THEN "Ready" ELSE state[u]
    BY <1>3, TaskTypeFacts
  <1>7. \A u \in AllTasks, d \in CPUs : u \in rq'[d] <=> u \in rq[d] \/ (u = t /\ d = c)
    BY <1>3, QueueTypes
  <1> QED BY SMT, <1>1, <1>2, <1>3, <1>4, <1>5, <1>6, <1>7 DEF Leaves

\* blocked_resched leaves a task that sleeps.
LEMMA Step_blocked_resched ==
  ASSUME TypeInv, NEW c \in CPUs, blocked_resched(c)
  PROVE  \E t \in AllTasks : Leaves(c, t, "Blocked")
  <1>1. PICK t \in AllTasks : curr[c] = t
    BY TaskNames DEF blocked_resched, TypeInv, CpuControl
  <1>2. UNCHANGED <<on_cpu, cpu_id, home_charged, wake_flags, prepared, carries, rq, sched_curr,
                    curr, prev, hand, target>>
    BY Zenon
      DEF blocked_resched, ownerVars, spawnVars, queueVars, stackVars, callVars
  <1>3. /\ pc[c] = "block" /\ pc' = [pc EXCEPT ![c] = after[c]] /\ after[c] \in {"pull", "pick"}
        /\ after' = [after EXCEPT ![c] = None] /\ state' = [state EXCEPT ![t] = "Blocked"]
    BY Zenon, <1>1 DEF blocked_resched, TypeInv, CpuControl
  <1>4. pc'[c] \in {"pull", "pick"} /\ OthersKeep(c)
    BY <1>2, <1>3, PcTypes, HandTypes, AgentNames DEF OthersKeep
  <1>5. \A u \in AllTasks : state'[u] = IF u = t THEN "Blocked" ELSE state[u]
    BY <1>3, TaskTypeFacts
  <1> QED BY SMT, <1>1, <1>2, <1>3, <1>4, <1>5 DEF Leaves

\* exit_current leaves a task that is gone.
LEMMA Step_exit_current ==
  ASSUME TypeInv, NEW c \in CPUs, exit_current(c)
  PROVE  \E t \in AllTasks : Leaves(c, t, "Exited")
  <1>1. PICK t \in AllTasks : curr[c] = t
    BY TaskNames DEF exit_current, MayExit
  <1>2. UNCHANGED <<on_cpu, cpu_id, wake_flags, prepared, carries, rq, curr, prev, hand, after,
                    target>>
    BY Zenon DEF exit_current, wakeVars, spawnVars, stackVars, handVars, callVars
  <1>3. /\ pc[c] = "run" /\ \E k \in {"pull", "pick"} : pc' = [pc EXCEPT ![c] = k]
        /\ sched_curr' = [sched_curr EXCEPT ![c] = None]
        /\ state' = [state EXCEPT ![t] = "Exited"]
        /\ home_charged' = [home_charged EXCEPT ![t] = FALSE]
    <2>1. \A k \in AfterLeave(c) : k \in {"pull", "pick"}
      BY DEF AfterLeave
    <2> QED BY Zenon, <1>1, <2>1 DEF exit_current
  <1>4. pc'[c] \in {"pull", "pick"} /\ OthersKeep(c)
    BY <1>2, <1>3, PcTypes, AgentNames DEF OthersKeep
  <1>5. \A d \in CPUs : d # c => sched_curr'[d] = sched_curr[d]
    BY <1>3, QueueTypes
  <1>6. \A u \in AllTasks : state'[u] = IF u = t THEN "Exited" ELSE state[u]
    BY <1>3, TaskTypeFacts
  <1>7. \A u \in AllTasks : home_charged'[u] <=> home_charged[u] /\ u # t
    BY <1>3, TaskTypeFacts
  <1>8. t \in Helpers => carries[t] = None
    BY <1>1 DEF exit_current, MayExit
  <1> QED BY SMT, <1>1, <1>2, <1>3, <1>4, <1>5, <1>6, <1>7, <1>8 DEF Leaves

\* migrate_current leaves a task to a migration task.
LEMMA Step_migrate_current ==
  ASSUME TypeInv, NEW c \in CPUs, NEW h \in Helpers, migrate_current(c, h)
  PROVE  \E t \in Tasks : Migrates(c, t, h)
  <1>1. PICK t \in Tasks : curr[c] = t
    BY DEF migrate_current
  <1>2. UNCHANGED <<on_cpu, home_charged, wake_flags, prepared, rq, curr, prev, hand, after,
                    target>>
    BY Zenon DEF migrate_current, wakeVars, stackVars, handVars, callVars
  <1>3. pc[c] = "run" /\ state[h] = "Exited" /\ ~on_cpu[h]
    BY Zenon DEF migrate_current, FreeHelper
  <1>4. /\ pc'[c] = "switch" /\ sched_curr'[c] = h
        /\ \A b \in Agents : b # c => pc'[b] = pc[b]
        /\ \A d \in CPUs : d # c => sched_curr'[d] = sched_curr[d]
    BY PcTypes, QueueTypes, AgentNames DEF migrate_current
  <1>5. \A u \in AllTasks : state'[u] = IF u \in {t, h} THEN "Ready" ELSE state[u]
    BY <1>1, TaskTypeFacts, TaskNames DEF migrate_current
  <1>6. \A g \in Helpers : carries'[g] = IF g = h THEN t ELSE carries[g]
    BY <1>1, TaskTypeFacts DEF migrate_current
  <1>7. \A u \in AllTasks : cpu_id'[u] = IF u = h THEN c ELSE cpu_id[u]
    BY TaskTypeFacts DEF migrate_current, attach_owner
  <1> QED BY <1>1, <1>2, <1>3, <1>4, <1>5, <1>6, <1>7 DEF Migrates

\* pick_next picks.
LEMMA Step_pick_next ==
  ASSUME TypeInv, NEW c \in CPUs, pick_next(c)
  PROVE  \E t : Picks(c, t)
  <1>1. PICK t : /\ t \in NextTasks(c)
                 /\ sched_curr' = [sched_curr EXCEPT ![c] = t]
                 /\ rq' = [rq EXCEPT ![c] = @ \ {t}]
    BY DEF pick_next
  <1>2. pc[c] = "pick" /\ pc' = [pc EXCEPT ![c] = "switch"]
    BY Zenon DEF pick_next
  <1>3. t = Idle \/ (t \in rq[c] /\ t \in AllTasks)
    BY <1>1, QueueTypes DEF NextTasks
  <1>4. UNCHANGED <<state, on_cpu, cpu_id, home_charged, wake_flags, prepared, carries,
                    curr, prev, hand, after, target>>
    BY Zenon DEF pick_next, runVars, ownerVars, wakeVars, spawnVars, stackVars,
      handVars, callVars
  <1>5. /\ pc'[c] = "switch" /\ sched_curr'[c] = t
        /\ \A b \in Agents : b # c => pc'[b] = pc[b]
        /\ \A d \in CPUs : d # c => sched_curr'[d] = sched_curr[d]
    BY <1>1, <1>2, PcTypes, QueueTypes, AgentNames
  <1>6. \A u \in AllTasks, d \in CPUs : u \in rq'[d] <=> u \in rq[d] /\ ~(u = t /\ d = c)
    BY <1>1, QueueTypes
  <1> QED BY <1>2, <1>3, <1>4, <1>5, <1>6 DEF Picks

\* switch_to with the same next task resumes it.
LEMMA Step_switch_same ==
  ASSUME TypeInv, NEW c \in CPUs, switch_to(c), sched_curr[c] = curr[c]
  PROVE  Resumes(c)
  <1>1. pc[c] = "switch" /\ UNCHANGED <<on_cpu, cpu_id, home_charged, wake_flags, prepared,
                    carries, rq, sched_curr, curr, prev, hand, after, target>>
    BY Zenon
      DEF switch_to, ownerVars, wakeVars, spawnVars, queueVars, handVars, callVars
  <1>2. pc'[c] = "run" /\ \A b \in Agents : b # c => pc'[b] = pc[b]
    BY PcTypes, AgentNames DEF switch_to
  <1>3. \A u \in AllTasks : state'[u] = IF u = curr[c] THEN "Running" ELSE state[u]
    BY TaskTypeFacts, TaskNames DEF switch_to
  <1> QED BY <1>1, <1>2, <1>3 DEF Resumes

\* switch_to with another one switches.
LEMMA Step_switch_to ==
  ASSUME TypeInv, NEW c \in CPUs, switch_to(c), sched_curr[c] # curr[c]
  PROVE  Switches(c, sched_curr[c])
  <1>1. pc[c] = "switch" /\ UNCHANGED <<cpu_id, home_charged, wake_flags, prepared,
                    carries, rq, sched_curr, hand, after, target>>
    BY Zenon
      DEF switch_to, ownerVars, wakeVars, spawnVars, queueVars, handVars, callVars
  <1>2. /\ pc'[c] = "clear" /\ prev'[c] = curr[c] /\ curr'[c] = sched_curr[c]
        /\ \A b \in Agents : b # c => pc'[b] = pc[b]
        /\ \A d \in CPUs : d # c => prev'[d] = prev[d] /\ curr'[d] = curr[d]
    BY PcTypes, StackTypes, AgentNames DEF switch_to
  <1>3. PICK n : n = sched_curr[c]
    OBVIOUS
  <1>4. /\ \A u \in AllTasks : state'[u] = IF u = n THEN "Running" ELSE state[u]
        /\ \A u \in AllTasks : on_cpu'[u] <=> on_cpu[u] \/ u = n
    BY SMT, <1>3, TaskTypeFacts, TaskNames DEF switch_to
  <1> QED BY <1>1, <1>2, <1>3, <1>4 DEF Switches

\* finish_task_switch finishes the switch.
LEMMA Step_finish_task_switch ==
  ASSUME TypeInv, NEW c \in CPUs, finish_task_switch(c)
  PROVE  Finishes(c, prev[c])
  <1>1. pc[c] = "clear" /\ UNCHANGED <<state, cpu_id, home_charged, wake_flags, prepared,
                    carries, rq, sched_curr, curr, hand, after, target>>
    BY Zenon DEF finish_task_switch, ownerVars, wakeVars, spawnVars, queueVars,
      handVars, callVars
  <1>2. PICK o : o = prev[c]
    OBVIOUS
  <1>3. /\ pc'[c] = IF o = Idle THEN "run" ELSE "take"
        /\ prev'[c] = IF o = Idle THEN None ELSE o
        /\ \A b \in Agents : b # c => pc'[b] = pc[b]
        /\ \A d \in CPUs : d # c => prev'[d] = prev[d]
    BY <1>2, PcTypes, StackTypes, AgentNames DEF finish_task_switch
  <1>4. \A u \in AllTasks : on_cpu'[u] <=> on_cpu[u] /\ u # o
    BY SMT, <1>2, TaskTypeFacts, TaskNames DEF finish_task_switch
  <1> QED BY <1>1, <1>2, <1>3, <1>4 DEF Finishes

\* unblock_task unblocks a task that nobody is still about to claim for an
\* earlier wakeup: this is where stale claims are excluded.
LEMMA Step_unblock_task ==
  ASSUME TypeInv, ~StaleClaims, NEW w \in Wakers, unblock_task(w), CanUnblock(target[w])
  PROVE  \E t \in Tasks : Unblocks(w, t)
  <1>1. PICK t \in Tasks : target[w] = t
    BY DEF unblock_task, TypeInv, CallControl, WakerPc
  <1>2. UNCHANGED <<on_cpu, cpu_id, home_charged, wake_flags, prepared, carries, rq, sched_curr,
                    curr, prev, hand, after>>
    BY Zenon DEF unblock_task, ownerVars, wakeVars, spawnVars, queueVars, stackVars
  <1>3. /\ pc[w] = "unblock" /\ pc' = [pc EXCEPT ![w] = "arm"] /\ target' = target
        /\ state[t] = "Blocked" /\ state' = [state EXCEPT ![t] = "Ready"]
        /\ ~StaleClaimant(w, t)
    BY Zenon, <1>1 DEF unblock_task, CanUnblock
  <1>4. pc'[w] = "arm" /\ \A b \in Agents : b # w => pc'[b] = pc[b]
    BY <1>3, PcTypes, AgentNames
  <1>5. \A u \in AllTasks : state'[u] = IF u = t THEN "Ready" ELSE state[u]
    BY <1>3, TaskTypeFacts
  <1>6. /\ \A v \in Wakers : v # w /\ pc[v] \in {"check", "claim"} => target[v] # t
        /\ \A c \in CPUs : pc[c] = "take" /\ prev[c] = t => cpu_id[t] = c
    BY Zenon, <1>3 DEF StaleClaimant
  <1> QED BY <1>1, <1>2, <1>3, <1>4, <1>5, <1>6 DEF Unblocks

\* arm_wake_enqueue arms.
LEMMA Step_arm_wake_enqueue ==
  ASSUME TypeInv, NEW w \in Wakers, arm_wake_enqueue(w)
  PROVE  \E t \in AllTasks : Arms(w, t)
  <1>1. PICK t \in AllTasks : target[w] = t
    BY TaskNames DEF arm_wake_enqueue, TypeInv, CallControl, WakerPc
  <1>2. pc[w] = "arm" /\ UNCHANGED <<state, on_cpu, cpu_id, home_charged, prepared, carries, rq,
                    sched_curr, curr, prev, hand, after, target>>
    BY Zenon DEF arm_wake_enqueue, runVars, ownerVars, spawnVars, queueVars,
      stackVars, handVars,
                 callVars
  <1>3. pc'[w] = "check" /\ \A b \in Agents : b # w => pc'[b] = pc[b]
    BY PcTypes, AgentNames DEF arm_wake_enqueue
  <1>4. \A u \in AllTasks : wake_flags'[u] <=> wake_flags[u] \/ u = t
    BY <1>1, TaskTypeFacts DEF arm_wake_enqueue
  <1> QED BY <1>1, <1>2, <1>3, <1>4 DEF Arms

\* CheckOnCpu claims only a task that is off its CPU.
LEMMA Step_CheckOnCpu ==
  ASSUME TypeInv, NEW w \in Wakers, CheckOnCpu(w), ~on_cpu[target[w]]
  PROVE  Claims(w)
  <1>1. pc[w] = "check" /\ UNCHANGED <<state, on_cpu, cpu_id, home_charged, wake_flags, prepared,
                    carries, rq, sched_curr, curr, prev, hand, after, target>>
    BY Zenon DEF CheckOnCpu, runVars, ownerVars, wakeVars, spawnVars, queueVars,
      stackVars, handVars
  <1>2. pc'[w] = "claim" /\ \A b \in Agents : b # w => pc'[b] = pc[b]
    BY PcTypes, AgentNames DEF CheckOnCpu
  <1> QED BY <1>1, <1>2 DEF Claims

\* add_task takes a prepared task.
LEMMA Step_add_task ==
  ASSUME TypeInv, OwnerInv, NEW c \in CPUs, NEW t \in Tasks, add_task(c, t)
  PROVE  Takes(c, t)
  <1>0. Ownership /\ Hands
    BY Zenon DEF OwnerInv
  <1>1. pc[c] = "run" /\ t \in prepared /\ t \in AllTasks
    BY TaskNames DEF add_task
  <1>2. state[t] = "Ready" /\ ~on_cpu[t]
    BY <1>0, <1>1 DEF Hands
  <1>3. Site(t, "none", t)
    BY <1>0, <1>1, Located DEF Active
  <1>4. UNCHANGED <<state, on_cpu, cpu_id, home_charged, sched_curr, curr, target, carries, rq,
                    wake_flags, prev>>
    BY Zenon
      DEF add_task, runVars, ownerVars, wakeVars, queueVars, stackVars, callVars
  <1>5. /\ pc'[c] = "publish" /\ hand'[c] = t /\ after'[c] = "run"
        /\ OthersKeep(c)
    BY PcTypes, HandTypes, AgentNames DEF add_task, TakeInHand, OthersKeep
  <1>6. \A u : u \in prepared' <=> u \in prepared /\ u # t
    BY DEF add_task
  <1> QED BY <1>1, <1>2, <1>3, <1>4, <1>5, <1>6 DEF Takes, Site, PublishPc

\* A successful steal takes a queued task.
LEMMA Step_steal ==
  ASSUME TypeInv, OwnerInv, NEW c \in CPUs, NEW t \in Stealable(c, dest[c]),
         steal_ready_for_idle_pull(c), rq' = [rq EXCEPT ![dest[c]] = @ \ {t}],
         TakeInHand(c, t, c, "pick"), pc' = [pc EXCEPT ![c] = "publish"]
  PROVE  t \in AllTasks /\ Takes(c, t)
  <1>0. Ownership
    BY Zenon DEF OwnerInv
  <1>1. PICK s \in CPUs : dest[c] = s
    BY DEF steal_ready_for_idle_pull, TypeInv, CpuControl
  <1>2. t \in AllTasks /\ t \in rq[s] /\ state[t] = "Ready" /\ ~on_cpu[t]
    BY <1>1, QueueTypes DEF Stealable
  <1>3. Site(t, "queue", s)
    BY <1>0, <1>2, Located
  <1>4. pc[c] = "steal" /\ UNCHANGED <<state, on_cpu, cpu_id, home_charged, sched_curr, curr,
                    target, prepared, carries, wake_flags, prev>>
    BY Zenon DEF steal_ready_for_idle_pull, runVars, ownerVars, wakeVars,
      spawnVars, stackVars,
                 callVars
  <1>5. /\ pc'[c] = "publish" /\ hand'[c] = t /\ after'[c] = "pick"
        /\ OthersKeep(c)
    BY PcTypes, HandTypes, AgentNames DEF TakeInHand, OthersKeep
  <1>6. \A u \in AllTasks, d \in CPUs : u \in rq'[d] <=> u \in rq[d] /\ u # t
    BY <1>1, <1>3, QueueTypes DEF Site
  <1>7. \A h \in Helpers : carries[h] # t
    BY <1>3 DEF Site
  <1>8. t \notin prepared /\ ~wake_flags[t]
    BY <1>0, <1>2, <1>3, Located DEF Active, Site
  <1> QED BY SMT, <1>1, <1>2, <1>3, <1>4, <1>5, <1>6, <1>7, <1>8
            DEF Takes, Site, PublishPc

\* A migration task takes what it carries.
LEMMA Step_HelperSelect ==
  ASSUME TypeInv, OwnerInv, NEW c \in CPUs, HelperSelect(c)
  PROVE  \E t \in AllTasks : Takes(c, t)
  <1>0. Ownership /\ Stacks /\ CarriedOff
    BY Zenon DEF OwnerInv
  <1>1. PICK h \in Helpers, t \in AllTasks : curr[c] = h /\ carries[h] = t
    BY TaskTypeFacts, TaskNames DEF HelperSelect
  <1>2. Site(t, "carry", h) /\ Active(t)
    BY <1>0, <1>1, Located
  <1>3. pc[c] = "run" /\ UNCHANGED <<state, on_cpu, cpu_id, home_charged, sched_curr, curr, target,
                    prepared, rq, wake_flags, prev>>
    BY Zenon
      DEF HelperSelect, runVars, ownerVars, wakeVars, queueVars, stackVars, callVars
  <1>4. ~on_cpu[t]
    <2>1. cpu_id[h] = c /\ t # None
      BY SMT, <1>0, <1>1, TaskNames DEF Stacks
    <2> QED BY <1>0, <1>1, <1>3, <2>1 DEF CarriedOff
  <1>5. /\ pc' = [pc EXCEPT ![c] = "publish"] /\ carries' = [carries EXCEPT ![h] = None]
        /\ \E d : TakeInHand(c, t, d, "loop")
    BY Zenon, <1>1 DEF HelperSelect
  <1>6. /\ pc'[c] = "publish" /\ hand'[c] = t /\ after'[c] = "loop"
        /\ OthersKeep(c)
    BY <1>5, PcTypes, HandTypes, AgentNames DEF TakeInHand, OthersKeep
  <1>7. \A g \in Helpers : carries'[g] = IF carries[g] = t THEN None ELSE carries[g]
    BY <1>1, <1>2, <1>5, TaskTypeFacts DEF Site
  <1>8. /\ state[t] = "Ready" /\ t \notin prepared /\ ~wake_flags[t]
        /\ \A d \in CPUs : t \notin rq[d]
        /\ carries'[h] = None
    BY <1>1, <1>2, <1>7 DEF Active, Site
  <1> QED BY SMT, <1>1, <1>2, <1>3, <1>4, <1>6, <1>7, <1>8
            DEF Takes, Site, PublishPc

\* A switch-out takes the task whose wake flags it claims.
LEMMA Step_clear_prev_task_on_cpu ==
  ASSUME TypeInv, OwnerInv, NEW c \in CPUs, clear_prev_task_on_cpu(c), wake_flags[prev[c]]
  PROVE  \E t \in AllTasks : Takes(c, t)
  <1>0. Ownership /\ Handshake
    BY Zenon DEF OwnerInv
  <1>1. PICK t \in AllTasks : prev[c] = t
    BY DEF clear_prev_task_on_cpu, TypeInv, CpuControl
  <1>2. pc[c] = "take" /\ UNCHANGED <<state, on_cpu, cpu_id, home_charged, sched_curr, curr, target,
                    prepared, carries, rq>>
    BY Zenon
      DEF clear_prev_task_on_cpu, runVars, ownerVars, spawnVars, queueVars, callVars
  <1>3. Site(t, "flag", t) /\ Active(t) /\ ~on_cpu[t]
    BY <1>0, <1>1, <1>2, Located DEF Handshake
  <1>4. /\ pc' = [pc EXCEPT ![c] = "publish"] /\ wake_flags' = [wake_flags EXCEPT ![t] = FALSE]
        /\ prev' = [prev EXCEPT ![c] = None]
        /\ \E d : TakeInHand(c, t, d, "run")
    BY Zenon, <1>1 DEF clear_prev_task_on_cpu
  <1>5. /\ pc'[c] = "publish" /\ hand'[c] = t /\ after'[c] = "run"
        /\ OthersKeep(c)
    BY <1>4, PcTypes, HandTypes, AgentNames DEF TakeInHand, OthersKeep
  <1>6. \A u \in AllTasks : wake_flags'[u] <=> wake_flags[u] /\ u # t
    BY <1>4, TaskTypeFacts
  <1>7. \A d \in CPUs : prev'[d] = prev[d] \/ (d = c /\ prev'[d] = None)
    BY <1>4, StackTypes
  <1>8. /\ state[t] = "Ready" /\ t \notin prepared
        /\ \A d \in CPUs : t \notin rq[d]
        /\ \A h \in Helpers : carries[h] # t
    BY <1>3 DEF Active, Site
  <1> QED BY SMT, <1>1, <1>2, <1>3, <1>5, <1>6, <1>7, <1>8
            DEF Takes, Site, PublishPc

\* So does a waker.
LEMMA Step_take_wake_enqueue ==
  ASSUME TypeInv, OwnerInv, NEW w \in Wakers, take_wake_enqueue(w), wake_flags[target[w]]
  PROVE  \E t \in AllTasks : Takes(w, t)
  <1>0. Ownership /\ Handshake
    BY Zenon DEF OwnerInv
  <1>1. PICK t \in AllTasks : target[w] = t
    BY TaskNames DEF take_wake_enqueue, TypeInv, CallControl, WakerPc
  <1>2. pc[w] = "claim" /\ UNCHANGED <<state, on_cpu, cpu_id, home_charged, sched_curr, curr, target,
                    prepared, carries, rq, prev>>
    BY Zenon
      DEF take_wake_enqueue, runVars, ownerVars, spawnVars, queueVars, stackVars
  <1>3. Site(t, "flag", t) /\ Active(t) /\ ~on_cpu[t]
    BY <1>0, <1>1, <1>2, Located DEF Handshake
  <1>4. /\ pc' = [pc EXCEPT ![w] = "publish"] /\ wake_flags' = [wake_flags EXCEPT ![t] = FALSE]
        /\ TakeInHand(w, t, dest[w], "idle")
    BY Zenon, <1>1 DEF take_wake_enqueue
  <1>5. /\ pc'[w] = "publish" /\ hand'[w] = t /\ after'[w] = "idle"
        /\ OthersKeep(w)
    BY <1>4, PcTypes, HandTypes, AgentNames DEF TakeInHand, OthersKeep
  <1>6. \A u \in AllTasks : wake_flags'[u] <=> wake_flags[u] /\ u # t
    BY <1>4, TaskTypeFacts
  <1>7. /\ state[t] = "Ready" /\ t \notin prepared
        /\ \A d \in CPUs : t \notin rq[d]
        /\ \A h \in Helpers : carries[h] # t
    BY <1>3 DEF Active, Site
  <1> QED BY SMT, <1>1, <1>2, <1>3, <1>5, <1>6, <1>7, AgentNames
            DEF Takes, Site, PublishPc

\* An affinity call takes a queued task to move it.
LEMMA Step_dequeue ==
  ASSUME TypeInv, OwnerInv, NEW s \in Setters, dequeue_ready_task_waiting_off_cpu(s),
         can_dequeue_ready_task(target[s]), target[s] \in rq[cpu_id[target[s]]],
         state[target[s]] = "Ready"
  PROVE  \E t \in AllTasks : Takes(s, t)
  <1>0. Ownership
    BY Zenon DEF OwnerInv
  <1>1. pc[s] \in {"dequeue", "dequeue2"} /\ UNCHANGED <<state, on_cpu, cpu_id, home_charged,
                    sched_curr, curr, target, prepared, carries, wake_flags, prev>>
    BY Zenon DEF dequeue_ready_task_waiting_off_cpu, runVars, ownerVars, wakeVars,
      spawnVars,
                 stackVars, callVars
  <1>2. PICK t \in AllTasks, c \in CPUs : target[s] = t /\ cpu_id[t] = c
    <2>1. target[s] \in Tasks
      BY <1>1 DEF TypeInv, CallControl
    <2> QED BY <2>1, TaskTypeFacts, TaskNames
  <1>3. t \in rq[c] /\ state[t] = "Ready" /\ ~on_cpu[t]
    BY <1>2 DEF can_dequeue_ready_task
  <1>4. Site(t, "queue", c) /\ Active(t)
    BY <1>0, <1>3, Located
  <1>5. /\ pc' = [pc EXCEPT ![s] = "migrate"] /\ rq' = [rq EXCEPT ![c] = @ \ {t}]
        /\ TakeInHand(s, t, c, "verdict")
    BY Zenon, <1>2 DEF dequeue_ready_task_waiting_off_cpu
  <1>6. /\ pc'[s] = "migrate" /\ hand'[s] = t /\ after'[s] = "verdict"
        /\ OthersKeep(s)
    BY <1>5, PcTypes, HandTypes, AgentNames DEF TakeInHand, OthersKeep
  <1>7. \A u \in AllTasks, d \in CPUs : u \in rq'[d] <=> u \in rq[d] /\ u # t
    BY <1>4, <1>5, QueueTypes DEF Site
  <1>8. t \notin prepared /\ ~wake_flags[t] /\ \A h \in Helpers : carries[h] # t
    BY <1>4 DEF Active, Site
  <1> QED BY SMT, <1>1, <1>2, <1>3, <1>4, <1>6, <1>7, <1>8, AgentNames
            DEF Takes, Site, PublishPc

-----------------------------------------------------------------------------
(* The steps that move no task.                                            *)

\* publish_task and migrate_entry go on publishing, and so does a refusal that
\* is not the migration task's.
LEMMA Still_publication ==
  ASSUME TypeInv, NEW a \in Agents,
         publish_task(a) \/ (RejectTask(a) /\ after[a] # "loop") \/ migrate_entry(a)
  PROVE  Quietly
  <1>0. "publish" \in PublishPc /\ "commit" \in PublishPc /\ "migrate" \in PublishPc
    BY DEF PublishPc
  <1>1. CASE publish_task(a)
    <2>1. /\ pc[a] = "publish" /\ pc' = [pc EXCEPT ![a] = "commit"]
          /\ SameTasks /\ UNCHANGED <<sched_curr, prev, target, after>>
      BY Zenon, <1>1
        DEF publish_task, SameTasks, runVars, ownerVars, wakeVars, spawnVars,
                 queueVars, stackVars, handVars, callVars
    <2> QED BY <1>0, <2>1, PublisherQuiet
  <1>2. CASE RejectTask(a) /\ after[a] # "loop"
    <2>1. /\ pc[a] = "publish" /\ pc' = [pc EXCEPT ![a] = "migrate"]
          /\ SameTasks /\ UNCHANGED <<sched_curr, prev, target>>
          /\ after' = [after EXCEPT ![a] = IF @ = "pick" THEN "pull" ELSE @]
      BY Zenon, <1>2 DEF RejectTask, SameTasks, runVars, ownerVars, wakeVars,
        queueVars, stackVars,
                 callVars
    <2>2. \E j \in {after[a], "pull"} : after' = [after EXCEPT ![a] = j]
      BY <2>1
    <2> QED BY <1>0, <2>1, <2>2, PublisherQuiet
  <1>3. CASE migrate_entry(a)
    <2>1. /\ pc[a] = "migrate" /\ pc' = [pc EXCEPT ![a] = "publish"]
          /\ SameTasks /\ UNCHANGED <<sched_curr, prev, target, after>>
      BY Zenon, <1>3
        DEF migrate_entry, SameTasks, runVars, ownerVars, wakeVars, spawnVars,
                 queueVars, stackVars, handVars, callVars
    <2> QED BY <1>0, <2>1, PublisherQuiet
  <1> QED BY <1>1, <1>2, <1>3

\* The steps of resched that find nothing to move.
LEMMA Still_resched ==
  ASSUME TypeInv, NEW c \in CPUs,
         (leave_and_publish(c) /\ curr[c] = Idle) \/ idle_pull(c)
           \/ (clear_prev_task_on_cpu(c) /\ ~wake_flags[prev[c]])
  PROVE  Quietly
  <1>1. CASE leave_and_publish(c) /\ curr[c] = Idle
    <2>0. \A k \in AfterLeave(c)' : k \in {"pull", "pick"}
      BY DEF AfterLeave
    <2>1. /\ pc[c] = "leave" /\ \E k \in {"pull", "pick"} : pc' = [pc EXCEPT ![c] = k]
          /\ SameTasks /\ target' = target /\ prev' = prev
          /\ Writes(after', after, c) /\ Writes(sched_curr', sched_curr, c)
      BY Zenon, <1>1, <2>0 DEF leave_and_publish, Writes, SameTasks, ownerVars, wakeVars,
        spawnVars, stackVars,
                 handVars, callVars
    <2>2. Writes(pc', pc, c) /\ pc'[c] \in {"pull", "pick"}
      BY <2>1, PcTypes, AgentNames DEF Writes
    <2> QED BY <2>1, <2>2, CpuQuiet
  <1>2. CASE idle_pull(c)
    <2>1. /\ pc[c] = "pull"
          /\ (pc' = [pc EXCEPT ![c] = "pick"] \/ pc' = [pc EXCEPT ![c] = "steal"])
          /\ SameTasks /\ UNCHANGED <<prev, target>>
          /\ Writes(after', after, c) /\ Writes(sched_curr', sched_curr, c)
      BY Zenon, <1>2 DEF idle_pull, Writes, SameTasks, runVars, ownerVars,
        wakeVars, spawnVars, queueVars,
                 stackVars, callVars
    <2>2. Writes(pc', pc, c) /\ pc'[c] \in {"pick", "steal"}
      BY <2>1, PcTypes, AgentNames DEF Writes
    <2> QED BY <2>1, <2>2, CpuQuiet
  <1>3. CASE clear_prev_task_on_cpu(c) /\ ~wake_flags[prev[c]]
    <2>1. /\ pc[c] = "take" /\ pc' = [pc EXCEPT ![c] = "run"]
          /\ SameTasks /\ target' = target
          /\ Writes(after', after, c) /\ Writes(sched_curr', sched_curr, c)
          /\ prev' = [prev EXCEPT ![c] = None]
      BY Zenon, <1>3 DEF clear_prev_task_on_cpu, Writes, SameTasks, runVars,
        ownerVars, wakeVars, spawnVars,
                 queueVars, handVars, callVars
    <2>2. Writes(pc', pc, c) /\ pc'[c] = "run"
      BY <2>1, PcTypes, AgentNames DEF Writes
    <2> QED BY <2>1, <2>2, CpuQuiet
  <1> QED BY <1>1, <1>2, <1>3

\* Interrupts, a yield, park_task and the assertion after a migration move no
\* task.
LEMMA Still_run ==
  ASSUME TypeInv, NEW c \in CPUs,
         Interrupt(c) \/ yield_current(c) \/ park_task(c) \/ AssertMigrated(c)
  PROVE  Quietly
  <1>1. CASE HandleIpi(c) \/ on_timer_fire(c) \/ idle_wait_returns(c)
    <2>1. /\ pc[c] \in {"run", "halt"} /\ pc' = [pc EXCEPT ![c] = "run"]
          /\ SameTasks /\ UNCHANGED <<after, sched_curr, prev, target>>
      BY Zenon, <1>1
        DEF HandleIpi, on_timer_fire, idle_wait_returns, SameTasks, runVars, ownerVars,
                 wakeVars, spawnVars, queueVars, stackVars, handVars, callVars
    <2>2. /\ Writes(pc', pc, c) /\ pc'[c] = "run"
          /\ Writes(after', after, c) /\ Writes(sched_curr', sched_curr, c)
      BY <2>1, PcTypes, AgentNames DEF Writes
    <2> QED BY <2>1, <2>2, CpuQuiet
  <1>2. CASE idle_wait_if_no_work(c)
    <2>1. /\ pc[c] = "run" /\ pc' = [pc EXCEPT ![c] = "halt"]
          /\ SameTasks /\ UNCHANGED <<after, sched_curr, prev, target>>
      BY Zenon, <1>2
        DEF idle_wait_if_no_work, SameTasks, runVars, ownerVars, wakeVars, spawnVars,
                 queueVars, stackVars, handVars, callVars
    <2>2. /\ Writes(pc', pc, c) /\ pc'[c] = "halt"
          /\ Writes(after', after, c) /\ Writes(sched_curr', sched_curr, c)
      BY <2>1, PcTypes, AgentNames DEF Writes
    <2> QED BY <2>1, <2>2, CpuQuiet
  <1>3. CASE AssertMigrated(c)
    <2>1. SameTasks /\ UNCHANGED <<pc, after, sched_curr, prev, target>>
      BY Zenon, <1>3
        DEF AssertMigrated, SameTasks, runVars, ownerVars, wakeVars, spawnVars,
                 queueVars, stackVars, handVars, callVars
    <2> QED BY <2>1, StillQuiet
  <1>4. CASE yield_current(c) \/ preempt_resched(c)
    <2>1. /\ pc[c] = "run" /\ (pc' = pc \/ pc' = [pc EXCEPT ![c] = "leave"])
          /\ SameTasks /\ UNCHANGED <<sched_curr, prev, target, after>>
      BY Zenon, <1>4
        DEF yield_current, preempt_resched, SameTasks, runVars, ownerVars, wakeVars,
                 spawnVars, queueVars, stackVars, handVars, callVars
    <2>2. CASE pc' = pc
      BY <2>1, <2>2, StillQuiet
    <2>3. CASE pc' = [pc EXCEPT ![c] = "leave"]
      <3>1. /\ Writes(pc', pc, c) /\ pc'[c] = "leave"
            /\ Writes(after', after, c) /\ Writes(sched_curr', sched_curr, c)
        BY <2>1, <2>3, PcTypes, AgentNames DEF Writes
      <3> QED BY <2>1, <3>1, CpuQuiet
    <2> QED BY <2>1, <2>2, <2>3
  <1>5. CASE park_task(c)
    <2>1. pc[c] = "run" /\ SameTasks /\ UNCHANGED <<prev, target>>
      BY Zenon, <1>5
        DEF park_task, SameTasks, runVars, ownerVars, spawnVars, stackVars, callVars
    <2>2. CASE woke[curr[c]]
      <3>1. UNCHANGED <<sched_curr, pc, after>>
        BY Zenon, <1>5, <2>2 DEF park_task
      <3> QED BY <2>1, <3>1, StillQuiet
    <2>3. CASE ~woke[curr[c]]
      <3>1. /\ pc' = [pc EXCEPT ![c] = "block"]
            /\ Writes(after', after, c) /\ Writes(sched_curr', sched_curr, c)
        BY Zenon, <1>5, <2>3 DEF park_task, Writes
      <3>2. Writes(pc', pc, c) /\ pc'[c] = "block"
        BY <3>1, PcTypes, AgentNames DEF Writes
      <3> QED BY <2>1, <3>1, <3>2, CpuQuiet
    <2> QED BY <2>2, <2>3
  <1> QED BY <1>1, <1>2, <1>3, <1>4, <1>5 DEF Interrupt

\* The steps of a waker that leave the task alone.
LEMMA Still_wake ==
  ASSUME TypeInv, Hands, NEW w \in Wakers,
         \/ \E t \in Tasks, latched \in BOOLEAN : wake(w, t, latched)
         \/ unblock_task(w) /\ ~CanUnblock(target[w])
         \/ CheckOnCpu(w) /\ on_cpu[target[w]]
         \/ take_wake_enqueue(w) /\ ~wake_flags[target[w]]
  PROVE  Quietly
  <1>0. pc[w] \notin PublishPc => hand = [hand EXCEPT ![w] = None]
    BY SMT, HandTypes, AgentNames DEF Hands
  <1>1. CASE \E t \in Tasks, latched \in BOOLEAN : wake(w, t, latched)
    <2>1. /\ pc[w] = "idle" /\ pc' = [pc EXCEPT ![w] = "unblock"]
          /\ SameTasks /\ UNCHANGED <<sched_curr, prev>> /\ Writes(after', after, w)
          /\ Writes(target', target, w)
      BY Zenon, <1>1 DEF wake, Writes, SameTasks, runVars, ownerVars, spawnVars,
        queueVars, stackVars,
                 handVars
    <2> QED BY <2>1, CallQuiet DEF PublishPc
  <1>2. CASE unblock_task(w) /\ ~CanUnblock(target[w])
    <2>1. /\ pc[w] = "unblock" /\ pc' = [pc EXCEPT ![w] = "idle"]
          /\ SameTasks /\ UNCHANGED <<sched_curr, prev>> /\ Writes(after', after, w)
          /\ Writes(target', target, w)
      BY Zenon, <1>2 DEF unblock_task, Writes, SameTasks, ownerVars, wakeVars,
        spawnVars, queueVars,
                 stackVars
    <2> QED BY <2>1, CallQuiet DEF PublishPc
  <1>3. CASE CheckOnCpu(w) /\ on_cpu[target[w]]
    <2>1. pc[w] = "check" /\ pc[w] \notin PublishPc
      BY Zenon, <1>3 DEF CheckOnCpu, PublishPc
    <2>2. /\ pc' = [pc EXCEPT ![w] = "idle"] /\ Writes(after', after, w)
          /\ SameTasks /\ UNCHANGED <<sched_curr, prev>>
          /\ Writes(target', target, w)
      BY Zenon, <1>0, <1>3, <2>1
        DEF CheckOnCpu, Writes, EmptyHand, SameTasks, runVars, ownerVars, wakeVars,
                 spawnVars, queueVars, stackVars
    <2> QED BY <2>1, <2>2, CallQuiet DEF PublishPc
  <1>4. CASE take_wake_enqueue(w) /\ ~wake_flags[target[w]]
    <2>1. pc[w] = "claim" /\ pc[w] \notin PublishPc
      BY Zenon, <1>4 DEF take_wake_enqueue, PublishPc
    <2>2. /\ pc' = [pc EXCEPT ![w] = "idle"] /\ Writes(after', after, w)
          /\ SameTasks /\ UNCHANGED <<sched_curr, prev>>
          /\ Writes(target', target, w)
      BY Zenon, <1>0, <1>4, <2>1
        DEF take_wake_enqueue, Writes, EmptyHand, SameTasks, runVars, ownerVars,
                 spawnVars, queueVars, stackVars
    <2> QED BY <2>1, <2>2, CallQuiet DEF PublishPc
  <1> QED BY <1>1, <1>2, <1>3, <1>4

\* The steps of an affinity call that leave the task alone.
LEMMA Still_set ==
  ASSUME TypeInv, NEW s \in Setters,
         \/ \E t \in Tasks, m \in Masks : set_task_affinity(s, t, m)
         \/ SnapshotMask(s) \/ enforce_affinity_placement(s) \/ request_remote_resched(s)
         \/ AffinityReturns(s)
  PROVE  Quietly
  <1>1. CASE \E t \in Tasks, m \in Masks : set_task_affinity(s, t, m)
    <2>1. /\ pc[s] = "idle" /\ pc' = [pc EXCEPT ![s] = "snapshot"]
          /\ SameTasks /\ UNCHANGED <<sched_curr, prev>>
          /\ Writes(after', after, s) /\ Writes(target', target, s)
      BY Zenon, <1>1
        DEF set_task_affinity, Writes, SameTasks, runVars, ownerVars, wakeVars,
                 spawnVars, queueVars, stackVars, handVars
    <2> QED BY <2>1, CallQuiet DEF PublishPc
  <1>2. CASE SnapshotMask(s)
    <2>1. /\ pc[s] = "snapshot" /\ pc' = [pc EXCEPT ![s] = "state"]
          /\ SameTasks /\ UNCHANGED <<sched_curr, prev>>
          /\ Writes(after', after, s) /\ Writes(target', target, s)
      BY Zenon, <1>2
        DEF SnapshotMask, Writes, SameTasks, runVars, ownerVars, wakeVars,
                 spawnVars, queueVars, stackVars, handVars
    <2> QED BY <2>1, CallQuiet DEF PublishPc
  <1>3. CASE enforce_affinity_placement(s)
    <2>1. /\ SameTasks /\ UNCHANGED <<sched_curr, prev>>
          /\ Writes(after', after, s) /\ Writes(target', target, s)
      BY Zenon, <1>3 DEF enforce_affinity_placement, Writes, SameTasks, runVars,
        ownerVars, wakeVars,
                 spawnVars, queueVars, stackVars, handVars, callVars
    <2>2. /\ pc[s] \in {"state", "owner", "wait", "redo", "verdict"}
          /\ \E k \in {"return", "owner", "dequeue", "redo", "dequeue2", "verdict", "failed"} :
                pc' = [pc EXCEPT ![s] = k]
      BY Zenon, <1>3 DEF enforce_affinity_placement
    <2> QED BY <2>1, <2>2, CallQuiet DEF PublishPc
  <1>4. CASE request_remote_resched(s)
    <2>1. /\ SameTasks /\ UNCHANGED <<sched_curr, prev>>
          /\ Writes(after', after, s) /\ Writes(target', target, s)
      BY Zenon, <1>4
        DEF request_remote_resched, Writes, SameTasks, runVars, ownerVars, wakeVars,
                 spawnVars, queueVars, stackVars, handVars, callVars
    <2>2. pc[s] = "kick" /\ \E k \in {"wait", "redo"} : pc' = [pc EXCEPT ![s] = k]
      BY Zenon, <1>4 DEF request_remote_resched
    <2> QED BY <2>1, <2>2, CallQuiet DEF PublishPc
  <1>5. CASE AffinityReturns(s)
    <2>1. /\ pc[s] \in {"return", "failed"} /\ pc' = [pc EXCEPT ![s] = "idle"]
          /\ SameTasks /\ UNCHANGED <<sched_curr, prev>>
          /\ Writes(after', after, s) /\ Writes(target', target, s)
      BY Zenon, <1>5
        DEF AffinityReturns, Writes, SameTasks, runVars, ownerVars, wakeVars,
                 spawnVars, queueVars, stackVars, handVars
    <2> QED BY <2>1, CallQuiet DEF PublishPc
  <1> QED BY <1>1, <1>2, <1>3, <1>4, <1>5

-----------------------------------------------------------------------------
(* The two steps that take a queued task or find none, and the inductive   *)
(* step.                                                                   *)

\* steal_ready_for_idle_pull takes a task or finds none.
LEMMA Own_steal ==
  ASSUME TypeInv, OwnerInv, NEW c \in CPUs, steal_ready_for_idle_pull(c)
  PROVE  OwnerInv'
  <1>1. ASSUME NEW t \in Stealable(c, dest[c]), rq' = [rq EXCEPT ![dest[c]] = @ \ {t}],
               TakeInHand(c, t, c, "pick"), pc' = [pc EXCEPT ![c] = "publish"]
        PROVE  OwnerInv'
    BY Zenon, <1>1, Step_steal, TakesKeeps, AgentNames
  <1>2. ASSUME pc' = [pc EXCEPT ![c] = "pull"], UNCHANGED <<rq, hand, after>>
        PROVE  OwnerInv'
    <2>1. /\ pc[c] = "steal" /\ SameTasks /\ UNCHANGED <<prev, target>>
          /\ Writes(after', after, c) /\ Writes(sched_curr', sched_curr, c)
      BY Zenon, <1>2 DEF steal_ready_for_idle_pull, Writes, SameTasks, runVars,
        ownerVars, wakeVars,
                 spawnVars, stackVars, callVars
    <2>2. Writes(pc', pc, c) /\ pc'[c] = "pull"
      BY <1>2, PcTypes, AgentNames DEF Writes
    <2> QED BY <2>1, <2>2, CpuQuiet, QuietlyKeeps
  <1> QED BY Zenon, <1>1, <1>2 DEF steal_ready_for_idle_pull

\* dequeue_ready_task_waiting_off_cpu takes the task or finds it not queued.
LEMMA Own_dequeue ==
  ASSUME TypeInv, OwnerInv, NEW s \in Setters, dequeue_ready_task_waiting_off_cpu(s)
  PROVE  OwnerInv'
  <1>1. CASE can_dequeue_ready_task(target[s]) /\ target[s] \in rq[cpu_id[target[s]]]
    <2>1. state[target[s]] = "Ready"
      BY <1>1 DEF can_dequeue_ready_task
    <2> QED BY <1>1, <2>1, Step_dequeue, TakesKeeps, AgentNames
  <1>2. CASE ~(can_dequeue_ready_task(target[s]) /\ target[s] \in rq[cpu_id[target[s]]])
    <2>1. /\ pc[s] \in {"dequeue", "dequeue2"}
          /\ \E k \in {"kick", "verdict"} : pc' = [pc EXCEPT ![s] = k]
          /\ UNCHANGED <<rq, handVars>>
      BY Zenon, <1>2 DEF dequeue_ready_task_waiting_off_cpu
    <2>2. /\ SameTasks /\ UNCHANGED <<sched_curr, prev>>
          /\ Writes(after', after, s) /\ Writes(target', target, s)
      BY Zenon, <2>1 DEF dequeue_ready_task_waiting_off_cpu, Writes, SameTasks,
        runVars, ownerVars,
                 wakeVars, spawnVars, stackVars, handVars, callVars
    <2>3. Quietly
      BY <2>1, <2>2, CallQuiet DEF PublishPc
    <2> QED BY <2>3, QuietlyKeeps
  <1> QED BY <1>1, <1>2

\* set_current_affinity migrates the caller off a CPU it may no longer use.
LEMMA Own_set_current_affinity ==
  ASSUME TypeInv, OwnerInv, NEW c \in CPUs, NEW m \in Masks, set_current_affinity(c, m)
  PROVE  OwnerInv'
  <1>1. CASE MustMigrate(c, m)
    <2>1. PICK h \in Helpers : migrate_current(c, h)
      BY Zenon, <1>1 DEF set_current_affinity
    <2> QED BY <2>1, Step_migrate_current, MigratesKeeps
  <1>2. CASE ~MustMigrate(c, m)
    <2>1. SameTasks /\ UNCHANGED <<pc, after, sched_curr, prev, target>>
      BY Zenon, <1>2
        DEF set_current_affinity, SameTasks, runVars, ownerVars, wakeVars, spawnVars,
                 queueVars, stackVars, handVars, callVars
    <2> QED BY <2>1, StillQuiet, QuietlyKeeps
  <1> QED BY <1>1, <1>2

\* Every step keeps the ownership invariant, where no claim is stale.
LEMMA OwnerNext ==
  ASSUME TypeInv, OwnerInv, ~StaleClaims, Next
  PROVE  OwnerInv'
  <1>0. Hands
    BY Zenon DEF OwnerInv
  <1>1. ASSUME NEW a \in Agents, Publication(a) PROVE OwnerInv'
    <2>1. CASE RejectTask(a) /\ after[a] = "loop"
      BY <2>1, Step_RejectTask, PutsBackKeeps
    <2>2. CASE enqueue(a)
      BY <2>2, Step_enqueue, PublishesKeeps
    <2>3. CASE publish_task(a) \/ (RejectTask(a) /\ after[a] # "loop") \/ migrate_entry(a)
      BY <2>3, Still_publication, QuietlyKeeps
    <2> QED BY <1>1, <2>1, <2>2, <2>3 DEF Publication
  <1>2. ASSUME NEW c \in CPUs, Resched(c) PROVE OwnerInv'
    <2>1. CASE leave_and_publish(c) /\ curr[c] # Idle
      BY <2>1, Step_leave_and_publish, LeavesKeeps
    <2>2. CASE blocked_resched(c)
      BY <2>2, Step_blocked_resched, LeavesKeeps
    <2>3. CASE steal_ready_for_idle_pull(c)
      BY <2>3, Own_steal
    <2>4. CASE pick_next(c)
      BY <2>4, Step_pick_next, PicksKeeps
    <2>5. CASE switch_to(c) /\ sched_curr[c] = curr[c]
      BY <2>5, Step_switch_same, ResumesKeeps
    <2>6. CASE switch_to(c) /\ sched_curr[c] # curr[c]
      BY <2>6, Step_switch_to, SwitchesKeeps
    <2>7. CASE finish_task_switch(c)
      BY <2>7, Step_finish_task_switch, FinishesKeeps
    <2>8. CASE clear_prev_task_on_cpu(c) /\ wake_flags[prev[c]]
      BY <2>8, Step_clear_prev_task_on_cpu, TakesKeeps, AgentNames
    <2>9. CASE (leave_and_publish(c) /\ curr[c] = Idle) \/ idle_pull(c)
                 \/ (clear_prev_task_on_cpu(c) /\ ~wake_flags[prev[c]])
      BY <2>9, Still_resched, QuietlyKeeps
    <2> QED BY <1>2, <2>1, <2>2, <2>3, <2>4, <2>5, <2>6, <2>7, <2>8, <2>9
              DEF Resched
  <1>3. ASSUME NEW c \in CPUs, Interrupt(c) PROVE OwnerInv'
    BY <1>3, Still_run, QuietlyKeeps
  <1>4. ASSUME NEW c \in CPUs, RunTask(c) PROVE OwnerInv'
    <2>1. CASE \E t \in Tasks : add_task(c, t)
      BY <2>1, Step_add_task, TakesKeeps, AgentNames, TaskNames
    <2>2. CASE yield_current(c) \/ park_task(c) \/ AssertMigrated(c)
      BY <2>2, Still_run, QuietlyKeeps
    <2>3. CASE exit_current(c)
      BY <2>3, Step_exit_current, LeavesKeeps
    <2>4. CASE \E m \in Masks : set_current_affinity(c, m)
      BY <2>4, Own_set_current_affinity
    <2>5. CASE \E h \in Helpers : LeaveForbidden(c, h)
      BY <2>5, Step_migrate_current, MigratesKeeps DEF LeaveForbidden
    <2>6. CASE HelperSelect(c)
      BY <2>6, Step_HelperSelect, TakesKeeps, AgentNames
    <2> QED BY <1>4, <2>1, <2>2, <2>3, <2>4, <2>5, <2>6 DEF RunTask
  <1>5. ASSUME NEW w \in Wakers, Waker(w) PROVE OwnerInv'
    <2>1. CASE unblock_task(w) /\ CanUnblock(target[w])
      BY <2>1, Step_unblock_task, UnblocksKeeps
    <2>2. CASE arm_wake_enqueue(w)
      BY <2>2, Step_arm_wake_enqueue, ArmsKeeps
    <2>3. CASE CheckOnCpu(w) /\ ~on_cpu[target[w]]
      BY <2>3, Step_CheckOnCpu, ClaimsKeeps
    <2>4. CASE take_wake_enqueue(w) /\ wake_flags[target[w]]
      BY <2>4, Step_take_wake_enqueue, TakesKeeps, AgentNames
    <2>5. CASE \/ \E t \in Tasks, latched \in BOOLEAN : wake(w, t, latched)
               \/ unblock_task(w) /\ ~CanUnblock(target[w])
               \/ CheckOnCpu(w) /\ on_cpu[target[w]]
               \/ take_wake_enqueue(w) /\ ~wake_flags[target[w]]
      BY <1>0, <2>5, Still_wake, QuietlyKeeps
    <2> QED BY <1>5, <2>1, <2>2, <2>3, <2>4, <2>5 DEF Waker
  <1>6. ASSUME NEW s \in Setters, Setter(s) PROVE OwnerInv'
    BY <1>6, Own_dequeue, Still_set, QuietlyKeeps DEF Setter
  <1> QED BY <1>1, <1>2, <1>3, <1>4, <1>5, <1>6 DEF Next

\* So does a step that changes nothing.
LEMMA OwnerStutter ==
  ASSUME TypeInv, OwnerInv, UNCHANGED vars
  PROVE  OwnerInv'
  <1>1. SameTasks /\ UNCHANGED <<pc, after, sched_curr, prev, target>>
    BY Zenon DEF vars, SameTasks, runVars, ownerVars, wakeVars, spawnVars,
      queueVars, stackVars,
                 handVars, callVars
  <1> QED BY <1>1, StillQuiet, QuietlyKeeps

\* At boot every task is where it belongs.
LEMMA OwnerInit == Init => OwnerInv
  <1> SUFFICES ASSUME NEW b \in CPUs, Boot(b) PROVE OwnerInv
    BY Zenon DEF Init
  <1>a. Main \in AllTasks /\ Main \in Tasks /\ Main # None /\ Main # Idle
    BY ConstantsAssumption, TaskNames
  <1>b. /\ \A t \in AllTasks : /\ state[t] = IF t = Main THEN "Running"
                                             ELSE IF t \in Tasks THEN "Ready" ELSE "Exited"
                               /\ on_cpu[t] <=> t = Main
                               /\ cpu_id[t] = b
                               /\ home_charged[t] <=> t = Main
                               /\ ~wake_flags[t]
        /\ \A h \in Helpers : carries[h] = None
        /\ \A t : t \in prepared <=> t \in Tasks /\ t # Main
    BY Zenon DEF Boot
  <1>c. \A c \in CPUs : /\ rq[c] = {} /\ prev[c] = None
                        /\ curr[c] = IF c = b THEN Main ELSE Idle
                        /\ pc[c] = "run"
    BY AgentNames DEF Boot
  <1>d. /\ \A a \in Agents : hand[a] = None /\ pc[a] \in {"run", "idle"}
        /\ \A w \in Wakers : pc[w] = "idle"
    BY AgentNames DEF Boot
  <1>1. Ownership
    <2> SUFFICES ASSUME NEW t \in AllTasks PROVE Sited(t)
      BY Zenon DEF Ownership
    <2>1. Site(t, "none", t)
      BY SMT, <1>b, <1>c, <1>d, TaskNames DEF Site
    <2>2. ~Active(t)
      BY SMT, <1>b DEF Active
    <2>3. SiteAt("none", t)
      BY DEF SiteAt, Kinds
    <2> QED BY <2>1, <2>2, <2>3, SiteKnown DEF Sited
  <1>2. Hands
    <2>1. \A h \in Helpers : ~home_charged[h]
      BY <1>a, <1>b, TaskNames
    <2>2. \A t \in prepared : state[t] = "Ready" /\ ~on_cpu[t]
      BY <1>b, TaskNames
    <2> QED BY SMT, <1>b, <1>c, <1>d, <2>1, <2>2 DEF Hands, PublishPc
  <1>3. Owners
    BY SMT, <1>c, <1>d, TaskNames DEF Owners
  <1>4. Stacks
    <2>1. None # Idle
      BY ConstantsAssumption
    <2> QED BY SMT, <1>a, <1>b, <1>c, <2>1, TaskNames DEF Stacks
  <1>5. RunsCurrent
    BY SMT, <1>b, <1>c, TaskNames DEF RunsCurrent
  <1>6. CarriedOff
    BY <1>b DEF CarriedOff
  <1>7. Handshake
    BY SMT, <1>c, <1>d DEF Handshake
  <1> QED BY <1>1, <1>2, <1>3, <1>4, <1>5, <1>6, <1>7 DEF OwnerInv

=============================================================================
