--------------------------- MODULE RunQueueTypes ----------------------------
(***************************************************************************)
(* RunQueue keeps its types, and every agent has what its program point    *)
(* needs: TypeInv is inductive.  A step is the step of one agent, which    *)
(* writes its own entry of the control variables only, so it is enough to  *)
(* look at that agent after the step (TypeKept).  With it, no wakeup is    *)
(* lost: four steps touch the latch or the Blocked state, all others are   *)
(* quiet (Quiet).                                                          *)
(***************************************************************************)
EXTENDS RunQueue, RunQueueInvariant, TLAPS

USE ZenonT(20), SMT

AfterPc == {"run", "loop", "pull", "pick", "idle", "verdict", None}

(* What TypeInv says of one agent.                                         *)
CpuAt(c) ==
    /\ pc[c] \in CpuPc \cup PublishPc
    /\ pc[c] \in PublishPc => after[c] \in {"run", "loop", "pull", "pick"}
    /\ pc[c] \in PublishPc /\ after[c] = "loop" => hand[c] \in Tasks
    /\ pc[c] = "block" => curr[c] \in Tasks /\ after[c] \in {"pull", "pick"}
    /\ pc[c] = "steal" => dest[c] \in CPUs
    /\ pc[c] = "switch" => sched_curr[c] # None
    /\ pc[c] = "clear" => prev[c] # None
    /\ pc[c] = "take" => prev[c] \in AllTasks
    /\ sched_curr[c] \in AllTasks \cup {Idle, None}
    /\ curr[c] \in AllTasks \cup {Idle}
    /\ prev[c] \in AllTasks \cup {Idle, None}

WakerAt(w) ==
    /\ pc[w] \in WakerPc \cup PublishPc
    /\ pc[w] \in PublishPc => after[w] = "idle"
    /\ pc[w] \in WakerPc \ {"idle"} => target[w] \in Tasks
    /\ pc[w] \in {"arm", "check", "claim"} => dest[w] \in CPUs
    /\ target[w] \in Tasks \cup {None}

SetterAt(s) ==
    /\ pc[s] \in SetterPc \cup PublishPc
    /\ pc[s] \in PublishPc => after[s] = "verdict"
    /\ pc[s] # "idle" => target[s] \in Tasks
    /\ target[s] \in Tasks \cup {None}
    /\ snap[s] \in SUBSET CPUs

HandAt(a) ==
    /\ pc[a] \in PublishPc => hand[a] \in AllTasks /\ dest[a] \in CPUs
    /\ hand[a] \in AllTasks \cup {None}
    /\ dest[a] \in CPUs \cup {None}
    /\ after[a] \in AfterPc

AgentAt(a) ==
    /\ HandAt(a)
    /\ a \in CPUs => CpuAt(a)
    /\ a \in Wakers => WakerAt(a)
    /\ a \in Setters => SetterAt(a)

RqTypes ==
    /\ rq \in [CPUs -> SUBSET AllTasks]
    /\ nr_home \in [CPUs -> Int]
    /\ tried \in [CPUs -> SUBSET CPUs]
    /\ need_resched \in [CPUs -> BOOLEAN]
    /\ ipi \in [CPUs -> BOOLEAN]

(* A step of agent a.                                                      *)
AgentStep(a) ==
    /\ Writes(pc', pc, a) /\ Writes(hand', hand, a) /\ Writes(dest', dest, a)
    /\ Writes(after', after, a) /\ Writes(target', target, a) /\ Writes(snap', snap, a)
    /\ Writes(sched_curr', sched_curr, a) /\ Writes(curr', curr, a) /\ Writes(prev', prev, a)

-----------------------------------------------------------------------------
LEMMA BoolExcept ==
  ASSUME NEW S, NEW f \in [S -> BOOLEAN], NEW x, NEW v \in BOOLEAN
  PROVE  [f EXCEPT ![x] = v] \in [S -> BOOLEAN]
  BY Zenon

LEMMA Disjoint ==
  /\ \A c \in CPUs : c \in Agents /\ c \notin Wakers /\ c \notin Setters
  /\ \A w \in Wakers : w \in Agents /\ w \notin CPUs /\ w \notin Setters
  /\ \A s \in Setters : s \in Agents /\ s \notin CPUs /\ s \notin Wakers
  BY ConstantsAssumption DEF Agents

LEMMA AgentNow ==
  ASSUME TypeInv, NEW a \in Agents
  PROVE  AgentAt(a)
  <1>0. CpuTypes /\ AgentTypes /\ PublisherControl /\ CpuControl /\ CallControl
    BY DEF TypeInv, TypeOK
  <1>1. HandAt(a)
    BY <1>0 DEF HandAt, AfterPc, AgentTypes, PublisherControl
  <1>2. a \in CPUs => CpuAt(a)
    BY <1>0 DEF CpuAt, CpuTypes, AgentTypes, PublisherControl, CpuControl
  <1>3. a \in Wakers => WakerAt(a)
    BY <1>0 DEF WakerAt, AgentTypes, PublisherControl, CallControl
  <1>4. a \in Setters => SetterAt(a)
    BY <1>0 DEF SetterAt, AgentTypes, PublisherControl, CallControl
  <1> QED BY <1>1, <1>2, <1>3, <1>4 DEF AgentAt

LEMMA TypeKept ==
  ASSUME TypeInv, NEW a \in Agents, AgentStep(a), AgentAt(a)', TaskTypes', RqTypes'
  PROVE  TypeInv'
  <1>0. CpuTypes /\ AgentTypes
    BY DEF TypeInv, TypeOK
  <1>1. /\ pc' \in [Agents -> CpuPc \cup PublishPc \cup WakerPc \cup SetterPc]
        /\ \A b \in Agents : b # a => pc'[b] = pc[b]
    <2>1. a \in Agents => pc'[a] \in CpuPc \cup PublishPc \cup WakerPc \cup SetterPc
      BY DEF AgentAt, CpuAt, WakerAt, SetterAt, Agents
    <2>2. pc \in [Agents -> CpuPc \cup PublishPc \cup WakerPc \cup SetterPc] /\ Writes(pc', pc, a)
      BY <1>0 DEF AgentStep, AgentTypes
    <2> QED BY <2>1, <2>2 DEF Writes
  <1>2. /\ hand' \in [Agents -> AllTasks \cup {None}]
        /\ \A b \in Agents : b # a => hand'[b] = hand[b]
    <2>1. a \in Agents => hand'[a] \in AllTasks \cup {None}
      BY DEF AgentAt, HandAt
    <2>2. hand \in [Agents -> AllTasks \cup {None}] /\ Writes(hand', hand, a)
      BY <1>0 DEF AgentStep, AgentTypes
    <2> QED BY <2>1, <2>2 DEF Writes
  <1>3. /\ dest' \in [Agents -> CPUs \cup {None}]
        /\ \A b \in Agents : b # a => dest'[b] = dest[b]
    <2>1. a \in Agents => dest'[a] \in CPUs \cup {None}
      BY DEF AgentAt, HandAt
    <2>2. dest \in [Agents -> CPUs \cup {None}] /\ Writes(dest', dest, a)
      BY <1>0 DEF AgentStep, AgentTypes
    <2> QED BY <2>1, <2>2 DEF Writes
  <1>4. /\ after' \in [Agents -> AfterPc]
        /\ \A b \in Agents : b # a => after'[b] = after[b]
    <2>1. a \in Agents => after'[a] \in AfterPc
      BY DEF AgentAt, HandAt, AfterPc
    <2>2. after \in [Agents -> AfterPc] /\ Writes(after', after, a)
      BY <1>0 DEF AgentStep, AgentTypes, AfterPc
    <2> QED BY <2>1, <2>2 DEF Writes
  <1>5. /\ target' \in [Wakers \cup Setters -> Tasks \cup {None}]
        /\ \A b \in Wakers \cup Setters : b # a => target'[b] = target[b]
    <2>1. a \in Wakers \cup Setters => target'[a] \in Tasks \cup {None}
      BY DEF AgentAt, WakerAt, SetterAt
    <2>2. target \in [Wakers \cup Setters -> Tasks \cup {None}] /\ Writes(target', target, a)
      BY <1>0 DEF AgentStep, AgentTypes
    <2> QED BY <2>1, <2>2 DEF Writes
  <1>6. /\ snap' \in [Setters -> SUBSET CPUs]
        /\ \A b \in Setters : b # a => snap'[b] = snap[b]
    <2>1. a \in Setters => snap'[a] \in SUBSET CPUs
      BY DEF AgentAt, SetterAt
    <2>2. snap \in [Setters -> SUBSET CPUs] /\ Writes(snap', snap, a)
      BY <1>0 DEF AgentStep, AgentTypes
    <2> QED BY <2>1, <2>2 DEF Writes
  <1>7. /\ sched_curr' \in [CPUs -> AllTasks \cup {Idle, None}]
        /\ \A b \in CPUs : b # a => sched_curr'[b] = sched_curr[b]
    <2>1. a \in CPUs => sched_curr'[a] \in AllTasks \cup {Idle, None}
      BY DEF AgentAt, CpuAt
    <2>2. sched_curr \in [CPUs -> AllTasks \cup {Idle, None}] /\ Writes(sched_curr', sched_curr, a)
      BY <1>0 DEF AgentStep, CpuTypes
    <2> QED BY <2>1, <2>2 DEF Writes
  <1>8. /\ curr' \in [CPUs -> AllTasks \cup {Idle}]
        /\ \A b \in CPUs : b # a => curr'[b] = curr[b]
    <2>1. a \in CPUs => curr'[a] \in AllTasks \cup {Idle}
      BY DEF AgentAt, CpuAt
    <2>2. curr \in [CPUs -> AllTasks \cup {Idle}] /\ Writes(curr', curr, a)
      BY <1>0 DEF AgentStep, CpuTypes
    <2> QED BY <2>1, <2>2 DEF Writes
  <1>9. /\ prev' \in [CPUs -> AllTasks \cup {Idle, None}]
        /\ \A b \in CPUs : b # a => prev'[b] = prev[b]
    <2>1. a \in CPUs => prev'[a] \in AllTasks \cup {Idle, None}
      BY DEF AgentAt, CpuAt
    <2>2. prev \in [CPUs -> AllTasks \cup {Idle, None}] /\ Writes(prev', prev, a)
      BY <1>0 DEF AgentStep, CpuTypes
    <2> QED BY <2>1, <2>2 DEF Writes
  <1>10. ASSUME NEW b \in Agents PROVE HandAt(b)'
    <2>1. CASE b # a
      BY <1>1, <1>2, <1>3, <1>4, <2>1, AgentNow DEF AgentAt, HandAt
    <2> QED BY <2>1 DEF AgentAt
  <1>11. ASSUME NEW c \in CPUs PROVE CpuAt(c)'
    <2>1. CASE c # a
      <3>1. CpuAt(c) /\ c \in Agents
        BY AgentNow, Disjoint DEF AgentAt
      <3> QED BY <1>1, <1>2, <1>3, <1>4, <1>7, <1>8, <1>9, <2>1, <3>1 DEF CpuAt
    <2> QED BY <2>1 DEF AgentAt
  <1>12. ASSUME NEW w \in Wakers PROVE WakerAt(w)'
    <2>1. CASE w # a
      <3>1. WakerAt(w) /\ w \in Agents
        BY AgentNow, Disjoint DEF AgentAt
      <3> QED BY <1>1, <1>3, <1>4, <1>5, <2>1, <3>1 DEF WakerAt
    <2> QED BY <2>1 DEF AgentAt
  <1>13. ASSUME NEW s \in Setters PROVE SetterAt(s)'
    <2>1. CASE s # a
      <3>1. SetterAt(s) /\ s \in Agents
        BY AgentNow, Disjoint DEF AgentAt
      <3> QED BY <1>1, <1>4, <1>5, <1>6, <2>1, <3>1 DEF SetterAt
    <2> QED BY <2>1 DEF AgentAt
  <1>14. CpuTypes'
    BY <1>7, <1>8, <1>9 DEF CpuTypes, RqTypes
  <1>15. AgentTypes'
    BY <1>1, <1>2, <1>3, <1>4, <1>5, <1>6, <1>11, <1>12, <1>13
    DEF AgentTypes, AfterPc, CpuAt, WakerAt, SetterAt
  <1>16. PublisherControl'
    BY <1>10, <1>11, <1>12, <1>13
      DEF PublisherControl, HandAt, CpuAt, WakerAt, SetterAt
  <1>17. CpuControl'
    BY <1>11 DEF CpuControl, CpuAt
  <1>18. CallControl'
    BY <1>12, <1>13 DEF CallControl, WakerAt, SetterAt
  <1> QED BY <1>14, <1>15, <1>16, <1>17, <1>18 DEF TypeInv, TypeOK

\* TypeKept for a step of a CPU, a waker and a setter.
LEMMA CpuParts ==
  ASSUME TypeInv, NEW c \in CPUs
  PROVE  TaskTypes /\ RqTypes /\ CpuTypes /\ AgentTypes /\ HandAt(c) /\ CpuAt(c) /\ c \in Agents
  BY AgentNow, Disjoint DEF TypeInv, TypeOK, AgentAt, CpuTypes, RqTypes

LEMMA CpuKept ==
  ASSUME TypeInv, NEW c \in CPUs, AgentStep(c), HandAt(c)', CpuAt(c)', TaskTypes', RqTypes'
  PROVE  TypeInv'
  BY TypeKept, Disjoint DEF AgentAt

LEMMA WakerParts ==
  ASSUME TypeInv, NEW w \in Wakers
  PROVE  TaskTypes /\ RqTypes /\ AgentTypes /\ HandAt(w) /\ WakerAt(w) /\ w \in Agents
  BY AgentNow, Disjoint DEF TypeInv, TypeOK, AgentAt, CpuTypes, RqTypes

LEMMA WakerKept ==
  ASSUME TypeInv, NEW w \in Wakers, AgentStep(w), HandAt(w)', WakerAt(w)', TaskTypes', RqTypes'
  PROVE  TypeInv'
  BY TypeKept, Disjoint DEF AgentAt

LEMMA SetterParts ==
  ASSUME TypeInv, NEW s \in Setters
  PROVE  TaskTypes /\ RqTypes /\ AgentTypes /\ HandAt(s) /\ SetterAt(s) /\ s \in Agents
  BY AgentNow, Disjoint DEF TypeInv, TypeOK, AgentAt, CpuTypes, RqTypes

LEMMA SetterKept ==
  ASSUME TypeInv, NEW s \in Setters, AgentStep(s), HandAt(s)', SetterAt(s)', TaskTypes', RqTypes'
  PROVE  TypeInv'
  BY TypeKept, Disjoint DEF AgentAt

-----------------------------------------------------------------------------
(* The steps of a CPU.                                                     *)

LEMMA Type_yield_current ==
  ASSUME TypeInv, NEW c \in CPUs, yield_current(c)
  PROVE  TypeInv'
  <1>0. TaskTypes /\ RqTypes /\ AgentTypes /\ HandAt(c) /\ CpuAt(c) /\ c \in Agents
    BY CpuParts
  <1>1. AgentStep(c) /\ UNCHANGED <<hand, dest, after, sched_curr, curr, prev>>
    BY Zenon
      DEF yield_current, AgentStep, Writes, handVars, callVars, queueVars, stackVars
  <1>2. pc'[c] = "leave"
    BY <1>0 DEF yield_current, AgentTypes
  <1>3. HandAt(c)' /\ CpuAt(c)'
    BY <1>0, <1>1, <1>2 DEF HandAt, CpuAt, CpuPc, PublishPc
  <1>4. TaskTypes'
    BY <1>0
      DEF yield_current, TaskTypes, runVars, ownerVars, maskVars, wakeVars, spawnVars
  <1>5. RqTypes'
    BY <1>0 DEF yield_current, RqTypes, ownerVars, queueVars, reschedVars
  <1> QED BY <1>1, <1>3, <1>4, <1>5, CpuKept

LEMMA Type_preempt_resched ==
  ASSUME TypeInv, NEW c \in CPUs, preempt_resched(c)
  PROVE  TypeInv'
  <1>0. TaskTypes /\ RqTypes /\ AgentTypes /\ HandAt(c) /\ CpuAt(c) /\ c \in Agents
    BY CpuParts
  <1>1. AgentStep(c) /\ UNCHANGED <<hand, dest, after, sched_curr, curr, prev>>
    BY Zenon DEF preempt_resched, AgentStep, Writes, handVars, callVars, queueVars,
      stackVars
  <1>2. pc'[c] \in {"run", "leave"}
    BY <1>0 DEF preempt_resched, AgentTypes
  <1>3. HandAt(c)' /\ CpuAt(c)'
    BY <1>0, <1>1, <1>2 DEF HandAt, CpuAt, CpuPc, PublishPc
  <1>4. TaskTypes'
    BY <1>0 DEF preempt_resched, TaskTypes, runVars, ownerVars, maskVars, wakeVars,
      spawnVars
  <1>5. RqTypes'
    BY <1>0 DEF preempt_resched, RqTypes, ownerVars, queueVars, reschedVars
  <1> QED BY <1>1, <1>3, <1>4, <1>5, CpuKept

LEMMA Type_leave_and_publish ==
  ASSUME TypeInv, NEW c \in CPUs, leave_and_publish(c)
  PROVE  TypeInv'
  <1>0. TaskTypes /\ RqTypes /\ CpuTypes /\ AgentTypes /\ HandAt(c) /\ CpuAt(c) /\ c \in Agents
    BY CpuParts
  <1>1. AgentStep(c) /\ UNCHANGED <<hand, dest, after, curr, prev>>
    BY Zenon DEF leave_and_publish, AgentStep, Writes, handVars, callVars, stackVars
  <1>2. pc'[c] \in {"pull", "pick"} /\ sched_curr'[c] = None
    <2>1. \A k \in AfterLeave(c)' : k \in {"pull", "pick"}
      BY DEF AfterLeave
    <2> QED BY <1>0, <2>1 DEF leave_and_publish, AgentTypes, CpuTypes
  <1>3. HandAt(c)' /\ CpuAt(c)'
    BY <1>0, <1>1, <1>2 DEF HandAt, CpuAt, CpuPc, PublishPc
  <1>4. TaskTypes'
    BY <1>0 DEF leave_and_publish, TaskTypes, TaskState, ownerVars, maskVars,
      wakeVars, spawnVars
  <1>5. RqTypes'
    <2>1. rq' = rq \/ (rq' = [rq EXCEPT ![c] = @ \cup {curr[c]}] /\ curr[c] \in AllTasks)
      BY <1>0 DEF leave_and_publish, CpuAt
    <2>2. rq' \in [CPUs -> SUBSET AllTasks]
      BY SMT, <1>0, <2>1 DEF RqTypes
    <2> QED BY <1>0, <2>2 DEF leave_and_publish, RqTypes, ownerVars, reschedVars
  <1> QED BY <1>1, <1>3, <1>4, <1>5, CpuKept

LEMMA Type_blocked_resched ==
  ASSUME TypeInv, NEW c \in CPUs, blocked_resched(c)
  PROVE  TypeInv'
  <1>0. TaskTypes /\ RqTypes /\ AgentTypes /\ HandAt(c) /\ CpuAt(c) /\ c \in Agents
    BY CpuParts
  <1>1. AgentStep(c) /\ UNCHANGED <<hand, dest, sched_curr, curr, prev>>
    BY Zenon DEF blocked_resched, AgentStep, Writes, callVars, queueVars, stackVars
  <1>2. pc'[c] \in {"pull", "pick"} /\ after'[c] = None
    BY <1>0 DEF blocked_resched, AgentTypes, CpuAt
  <1>3. HandAt(c)' /\ CpuAt(c)'
    BY <1>0, <1>1, <1>2 DEF HandAt, AfterPc, CpuAt, CpuPc, PublishPc
  <1>4. TaskTypes'
    <2>1. woke' \in [AllTasks -> BOOLEAN]
      BY <1>0, BoolExcept DEF blocked_resched, TaskTypes
    <2>2. state' \in [AllTasks -> TaskState]
      BY <1>0 DEF blocked_resched, TaskTypes, TaskState
    <2> QED BY <1>0, <2>1, <2>2
              DEF blocked_resched, TaskTypes, ownerVars, maskVars, spawnVars
  <1>5. RqTypes'
    BY <1>0 DEF blocked_resched, RqTypes, ownerVars, queueVars, reschedVars
  <1> QED BY <1>1, <1>3, <1>4, <1>5, CpuKept

LEMMA Type_idle_pull ==
  ASSUME TypeInv, NEW c \in CPUs, idle_pull(c)
  PROVE  TypeInv'
  <1>0. TaskTypes /\ RqTypes /\ AgentTypes /\ HandAt(c) /\ CpuAt(c) /\ c \in Agents
    BY CpuParts
  <1>1. AgentStep(c) /\ UNCHANGED <<hand, after, sched_curr, curr, prev>>
    BY Zenon DEF idle_pull, AgentStep, Writes, callVars, queueVars, stackVars
  <1>2. \A T : PullSources(c, T) \subseteq CPUs
    BY DEF PullSources
  <1>3. (pc'[c] = "pick" /\ dest'[c] = dest[c]) \/ (pc'[c] = "steal" /\ dest'[c] \in CPUs)
    BY <1>0, <1>2 DEF idle_pull, AgentTypes
  <1>4. HandAt(c)' /\ CpuAt(c)'
    BY <1>0, <1>1, <1>3 DEF HandAt, CpuAt, CpuPc, PublishPc
  <1>5. TaskTypes'
    BY <1>0
      DEF idle_pull, TaskTypes, runVars, ownerVars, maskVars, wakeVars, spawnVars
  <1>6. RqTypes'
    <2>1. tried' \in [CPUs -> SUBSET CPUs]
      BY SMT, <1>0, <1>2 DEF idle_pull, RqTypes
    <2> QED BY <1>0, <2>1 DEF idle_pull, RqTypes, ownerVars, queueVars, reschedVars
  <1> QED BY <1>1, <1>4, <1>5, <1>6, CpuKept

LEMMA Type_steal_ready_for_idle_pull ==
  ASSUME TypeInv, NEW c \in CPUs, steal_ready_for_idle_pull(c)
  PROVE  TypeInv'
  <1>0. TaskTypes /\ RqTypes /\ AgentTypes /\ HandAt(c) /\ CpuAt(c) /\ c \in Agents
    BY CpuParts
  <1>1. AgentStep(c) /\ UNCHANGED <<sched_curr, curr, prev>>
    BY Zenon DEF steal_ready_for_idle_pull, TakeInHand, AgentStep, Writes,
      callVars, stackVars
  <1>2. Stealable(c, dest[c]) \subseteq AllTasks
    BY <1>0 DEF steal_ready_for_idle_pull, Stealable, CpuAt, RqTypes
  <1>3. \/ pc'[c] = "pull" /\ dest'[c] = None /\ hand'[c] = hand[c] /\ after'[c] = after[c]
        \/ pc'[c] = "publish" /\ dest'[c] = c /\ hand'[c] \in AllTasks /\ after'[c] = "pick"
    <2>1. \/ /\ pc' = [pc EXCEPT ![c] = "pull"] /\ dest' = [dest EXCEPT ![c] = None]
             /\ UNCHANGED <<hand, after>>
          \/ /\ pc' = [pc EXCEPT ![c] = "publish"] /\ dest' = [dest EXCEPT ![c] = c]
             /\ \E t \in AllTasks : hand' = [hand EXCEPT ![c] = t]
             /\ after' = [after EXCEPT ![c] = "pick"]
      BY Zenon, <1>2 DEF steal_ready_for_idle_pull, TakeInHand
    <2> QED BY <1>0, <2>1 DEF AgentTypes
  <1>4. HandAt(c)' /\ CpuAt(c)'
    BY <1>0, <1>1, <1>3 DEF HandAt, AfterPc, CpuAt, CpuPc, PublishPc
  <1>5. TaskTypes'
    BY <1>0 DEF steal_ready_for_idle_pull, TaskTypes, runVars, ownerVars, maskVars,
      wakeVars,
                spawnVars
  <1>6. RqTypes'
    <2>1. rq' = rq \/ \E t : rq' = [rq EXCEPT ![dest[c]] = @ \ {t}]
      BY Zenon DEF steal_ready_for_idle_pull
    <2>2. rq' \in [CPUs -> SUBSET AllTasks]
      BY SMT, <1>0, <2>1 DEF RqTypes
    <2> QED BY <1>0, <2>2
              DEF steal_ready_for_idle_pull, RqTypes, ownerVars, reschedVars
  <1> QED BY <1>1, <1>4, <1>5, <1>6, CpuKept

LEMMA Type_pick_next ==
  ASSUME TypeInv, NEW c \in CPUs, pick_next(c)
  PROVE  TypeInv'
  <1>0. TaskTypes /\ RqTypes /\ CpuTypes /\ AgentTypes /\ HandAt(c) /\ CpuAt(c) /\ c \in Agents
    BY CpuParts
  <1>1. AgentStep(c) /\ UNCHANGED <<hand, dest, after, curr, prev>>
    BY Zenon DEF pick_next, AgentStep, Writes, handVars, callVars, stackVars
  <1>2. \A t \in NextTasks(c) : t \in AllTasks \cup {Idle} /\ t # None
    BY SMT, <1>0, ConstantsAssumption DEF NextTasks, RqTypes, AllTasks
  <1>3. pc'[c] = "switch" /\ sched_curr'[c] \in AllTasks \cup {Idle} /\ sched_curr'[c] # None
    BY <1>0, <1>2 DEF pick_next, AgentTypes, CpuTypes
  <1>4. HandAt(c)' /\ CpuAt(c)'
    BY <1>0, <1>1, <1>3 DEF HandAt, CpuAt, CpuPc, PublishPc
  <1>5. TaskTypes'
    BY <1>0
      DEF pick_next, TaskTypes, runVars, ownerVars, maskVars, wakeVars, spawnVars
  <1>6. RqTypes'
    <2>1. \E t : rq' = [rq EXCEPT ![c] = @ \ {t}]
      BY Zenon DEF pick_next
    <2>2. rq' \in [CPUs -> SUBSET AllTasks]
      BY SMT, <1>0, <2>1 DEF RqTypes
    <2>3. tried' \in [CPUs -> SUBSET CPUs]
      BY <1>0 DEF pick_next, RqTypes
    <2> QED BY <1>0, <2>2, <2>3 DEF pick_next, RqTypes, ownerVars, reschedVars
  <1> QED BY <1>1, <1>4, <1>5, <1>6, CpuKept

LEMMA Type_switch_to ==
  ASSUME TypeInv, NEW c \in CPUs, switch_to(c)
  PROVE  TypeInv'
  <1>0. TaskTypes /\ RqTypes /\ CpuTypes /\ AgentTypes /\ HandAt(c) /\ CpuAt(c) /\ c \in Agents
    BY CpuParts
  <1>1. AgentStep(c) /\ UNCHANGED <<hand, dest, after, sched_curr>>
    BY Zenon DEF switch_to, AgentStep, Writes, handVars, callVars, queueVars
  <1>2. sched_curr[c] \in AllTasks \cup {Idle}
    BY <1>0 DEF switch_to, CpuAt
  <1>3. curr[c] \in AllTasks \cup {Idle} /\ curr[c] # None
    BY <1>0, ConstantsAssumption DEF CpuAt, AllTasks
  <1>4. \/ pc'[c] = "run" /\ curr'[c] = curr[c] /\ prev'[c] = prev[c]
        \/ pc'[c] = "clear" /\ curr'[c] = sched_curr[c] /\ prev'[c] = curr[c]
    BY <1>0 DEF switch_to, AgentTypes, CpuTypes
  <1>5. HandAt(c)' /\ CpuAt(c)'
    BY <1>0, <1>1, <1>2, <1>3, <1>4 DEF HandAt, CpuAt, CpuPc, PublishPc
  <1>6. TaskTypes'
    <2>1. state' \in [AllTasks -> TaskState]
      BY <1>0 DEF switch_to, TaskTypes, TaskState
    <2>2. on_cpu' = on_cpu \/ on_cpu' = [on_cpu EXCEPT ![sched_curr[c]] = TRUE]
      BY Zenon DEF switch_to
    <2>3. on_cpu' \in [AllTasks -> BOOLEAN]
      BY <1>0, <2>2, BoolExcept DEF TaskTypes
    <2> QED BY <1>0, <2>1, <2>3
              DEF switch_to, TaskTypes, ownerVars, maskVars, wakeVars, spawnVars
  <1>7. RqTypes'
    BY <1>0 DEF switch_to, RqTypes, ownerVars, queueVars
  <1> QED BY <1>1, <1>5, <1>6, <1>7, CpuKept

LEMMA Type_finish_task_switch ==
  ASSUME TypeInv, NEW c \in CPUs, finish_task_switch(c)
  PROVE  TypeInv'
  <1>0. TaskTypes /\ RqTypes /\ CpuTypes /\ AgentTypes /\ HandAt(c) /\ CpuAt(c) /\ c \in Agents
    BY CpuParts
  <1>1. AgentStep(c) /\ UNCHANGED <<hand, dest, after, sched_curr, curr>>
    BY Zenon
      DEF finish_task_switch, AgentStep, Writes, handVars, callVars, queueVars
  <1>2. \/ pc'[c] = "run" /\ prev'[c] = None
        \/ pc'[c] = "take" /\ prev'[c] = prev[c] /\ prev[c] \in AllTasks
    <2>1. prev[c] \in AllTasks \cup {Idle}
      BY <1>0 DEF finish_task_switch, CpuAt
    <2> QED BY <1>0, <2>1 DEF finish_task_switch, AgentTypes, CpuTypes
  <1>3. HandAt(c)' /\ CpuAt(c)'
    BY <1>0, <1>1, <1>2 DEF HandAt, CpuAt, CpuPc, PublishPc
  <1>4. TaskTypes'
    <2>1. on_cpu' = on_cpu \/ on_cpu' = [on_cpu EXCEPT ![prev[c]] = FALSE]
      BY Zenon DEF finish_task_switch
    <2>2. on_cpu' \in [AllTasks -> BOOLEAN]
      BY <1>0, <2>1, BoolExcept DEF TaskTypes
    <2> QED BY <1>0, <2>2 DEF finish_task_switch, TaskTypes, ownerVars, maskVars,
              wakeVars, spawnVars
  <1>5. RqTypes'
    BY <1>0 DEF finish_task_switch, RqTypes, ownerVars, queueVars, reschedVars
  <1> QED BY <1>1, <1>3, <1>4, <1>5, CpuKept

LEMMA Type_clear_prev_task_on_cpu ==
  ASSUME TypeInv, NEW c \in CPUs, clear_prev_task_on_cpu(c)
  PROVE  TypeInv'
  <1>0. TaskTypes /\ RqTypes /\ CpuTypes /\ AgentTypes /\ HandAt(c) /\ CpuAt(c) /\ c \in Agents
    BY CpuParts
  <1>1. AgentStep(c) /\ UNCHANGED <<sched_curr, curr>>
    BY Zenon DEF clear_prev_task_on_cpu, TakeInHand, AgentStep, Writes, handVars,
      callVars, queueVars
  <1>2. prev'[c] = None
    BY <1>0 DEF clear_prev_task_on_cpu, CpuTypes
  <1>3. PICK t \in AllTasks, d \in CPUs :
            prev[c] = t /\ d = IF wake_cpu[t] = None THEN cpu_id[t] ELSE wake_cpu[t]
    BY <1>0 DEF clear_prev_task_on_cpu, CpuAt, TaskTypes
  <1>4. \/ pc' = [pc EXCEPT ![c] = "run"] /\ UNCHANGED <<hand, dest, after>>
        \/ pc' = [pc EXCEPT ![c] = "publish"] /\ TakeInHand(c, t, d, "run")
    BY Zenon, <1>3 DEF clear_prev_task_on_cpu, handVars
  <1>5. HandAt(c)' /\ CpuAt(c)'
    <2>1. CASE pc' = [pc EXCEPT ![c] = "run"] /\ UNCHANGED <<hand, dest, after>>
      <3>1. pc'[c] = "run"
        BY <1>0, <2>1 DEF AgentTypes
      <3> QED BY <1>0, <1>1, <1>2, <2>1, <3>1 DEF HandAt, CpuAt, CpuPc, PublishPc
    <2>2. CASE pc' = [pc EXCEPT ![c] = "publish"] /\ TakeInHand(c, t, d, "run")
      <3>1. pc'[c] = "publish" /\ hand'[c] = t /\ dest'[c] = d /\ after'[c] = "run"
        BY <1>0, <2>2 DEF AgentTypes, TakeInHand
      <3> QED BY <1>0, <1>1, <1>2, <3>1 DEF HandAt, AfterPc, CpuAt, PublishPc
    <2> QED BY <1>4, <2>1, <2>2
  <1>6. TaskTypes'
    <2>1. /\ wake_flags' = wake_flags \/ wake_flags' = [wake_flags EXCEPT ![prev[c]] = FALSE]
          /\ wake_cpu' = wake_cpu \/ wake_cpu' = [wake_cpu EXCEPT ![prev[c]] = None]
      BY Zenon DEF clear_prev_task_on_cpu
    <2>2. wake_flags' \in [AllTasks -> BOOLEAN]
      BY <1>0, <2>1, BoolExcept DEF TaskTypes
    <2>3. wake_cpu' \in [AllTasks -> CPUs \cup {None}]
      BY <1>0, <2>1 DEF TaskTypes
    <2> QED BY <1>0, <2>2, <2>3
            DEF clear_prev_task_on_cpu, TaskTypes, runVars, ownerVars, maskVars, spawnVars
  <1>7. RqTypes'
    BY <1>0 DEF clear_prev_task_on_cpu, RqTypes, ownerVars, queueVars, reschedVars
  <1> QED BY <1>1, <1>5, <1>6, <1>7, CpuKept

LEMMA Type_HandleIpi ==
  ASSUME TypeInv, NEW c \in CPUs, HandleIpi(c)
  PROVE  TypeInv'
  <1>0. TaskTypes /\ RqTypes /\ AgentTypes /\ HandAt(c) /\ CpuAt(c) /\ c \in Agents
    BY CpuParts
  <1>1. AgentStep(c) /\ UNCHANGED <<hand, dest, after, sched_curr, curr, prev>>
    BY Zenon
      DEF HandleIpi, AgentStep, Writes, handVars, callVars, queueVars, stackVars
  <1>2. pc'[c] = "run"
    BY <1>0 DEF HandleIpi, AgentTypes
  <1>3. HandAt(c)' /\ CpuAt(c)'
    BY <1>0, <1>1, <1>2 DEF HandAt, CpuAt, CpuPc, PublishPc
  <1>4. TaskTypes'
    BY <1>0
      DEF HandleIpi, TaskTypes, runVars, ownerVars, maskVars, wakeVars, spawnVars
  <1>5. RqTypes'
    BY <1>0, BoolExcept DEF HandleIpi, RqTypes, ownerVars, queueVars
  <1> QED BY <1>1, <1>3, <1>4, <1>5, CpuKept

LEMMA Type_on_timer_fire ==
  ASSUME TypeInv, NEW c \in CPUs, on_timer_fire(c)
  PROVE  TypeInv'
  <1>0. TaskTypes /\ RqTypes /\ AgentTypes /\ HandAt(c) /\ CpuAt(c) /\ c \in Agents
    BY CpuParts
  <1>1. AgentStep(c) /\ UNCHANGED <<hand, dest, after, sched_curr, curr, prev>>
    BY Zenon
      DEF on_timer_fire, AgentStep, Writes, handVars, callVars, queueVars, stackVars
  <1>2. pc'[c] = "run"
    BY <1>0 DEF on_timer_fire, AgentTypes
  <1>3. HandAt(c)' /\ CpuAt(c)'
    BY <1>0, <1>1, <1>2 DEF HandAt, CpuAt, CpuPc, PublishPc
  <1>4. TaskTypes'
    BY <1>0
      DEF on_timer_fire, TaskTypes, runVars, ownerVars, maskVars, wakeVars, spawnVars
  <1>5. RqTypes'
    BY <1>0, BoolExcept DEF on_timer_fire, RqTypes, ownerVars, queueVars
  <1> QED BY <1>1, <1>3, <1>4, <1>5, CpuKept

LEMMA Type_idle_wait_if_no_work ==
  ASSUME TypeInv, NEW c \in CPUs, idle_wait_if_no_work(c)
  PROVE  TypeInv'
  <1>0. TaskTypes /\ RqTypes /\ AgentTypes /\ HandAt(c) /\ CpuAt(c) /\ c \in Agents
    BY CpuParts
  <1>1. AgentStep(c) /\ UNCHANGED <<hand, dest, after, sched_curr, curr, prev>>
    BY Zenon
      DEF idle_wait_if_no_work, AgentStep, Writes, handVars, callVars, queueVars, stackVars
  <1>2. pc'[c] = "halt"
    BY <1>0 DEF idle_wait_if_no_work, AgentTypes
  <1>3. HandAt(c)' /\ CpuAt(c)'
    BY <1>0, <1>1, <1>2 DEF HandAt, CpuAt, CpuPc, PublishPc
  <1>4. TaskTypes'
    BY <1>0
      DEF idle_wait_if_no_work, TaskTypes, runVars, ownerVars, maskVars, wakeVars, spawnVars
  <1>5. RqTypes'
    BY <1>0, BoolExcept DEF idle_wait_if_no_work, RqTypes, ownerVars, queueVars, reschedVars
  <1> QED BY <1>1, <1>3, <1>4, <1>5, CpuKept

LEMMA Type_idle_wait_returns ==
  ASSUME TypeInv, NEW c \in CPUs, idle_wait_returns(c)
  PROVE  TypeInv'
  <1>0. TaskTypes /\ RqTypes /\ AgentTypes /\ HandAt(c) /\ CpuAt(c) /\ c \in Agents
    BY CpuParts
  <1>1. AgentStep(c) /\ UNCHANGED <<hand, dest, after, sched_curr, curr, prev>>
    BY Zenon
      DEF idle_wait_returns, AgentStep, Writes, handVars, callVars, queueVars, stackVars
  <1>2. pc'[c] = "run"
    BY <1>0 DEF idle_wait_returns, AgentTypes
  <1>3. HandAt(c)' /\ CpuAt(c)'
    BY <1>0, <1>1, <1>2 DEF HandAt, CpuAt, CpuPc, PublishPc
  <1>4. TaskTypes'
    BY <1>0
      DEF idle_wait_returns, TaskTypes, runVars, ownerVars, maskVars, wakeVars, spawnVars
  <1>5. RqTypes'
    BY <1>0, BoolExcept DEF idle_wait_returns, RqTypes, ownerVars, queueVars, reschedVars
  <1> QED BY <1>1, <1>3, <1>4, <1>5, CpuKept

-----------------------------------------------------------------------------
(* The calls of the task that runs on a CPU.                               *)

LEMMA Type_add_task ==
  ASSUME TypeInv, NEW c \in CPUs, NEW t \in Tasks, add_task(c, t)
  PROVE  TypeInv'
  <1>0. TaskTypes /\ RqTypes /\ AgentTypes /\ HandAt(c) /\ CpuAt(c) /\ c \in Agents
    BY CpuParts
  <1>1. AgentStep(c) /\ UNCHANGED <<sched_curr, curr, prev>>
    BY Zenon
      DEF add_task, TakeInHand, AgentStep, Writes, callVars, queueVars, stackVars
  <1>2. PICK d \in CPUs : TakeInHand(c, t, d, "run")
    <2>1. cpumask[t] \subseteq CPUs
      BY <1>0 DEF TaskTypes, AllTasks
    <2> QED BY <2>1 DEF add_task
  <1>3. pc'[c] = "publish" /\ hand'[c] = t /\ dest'[c] = d /\ after'[c] = "run"
    BY <1>0, <1>2 DEF add_task, TakeInHand, AgentTypes
  <1>4. HandAt(c)' /\ CpuAt(c)'
    BY <1>0, <1>1, <1>3 DEF HandAt, AfterPc, AllTasks, CpuAt, PublishPc
  <1>5. TaskTypes'
    <2>1. prepared' \in SUBSET Tasks
      BY <1>0 DEF add_task, TaskTypes
    <2> QED BY <1>0, <2>1
              DEF add_task, TaskTypes, runVars, ownerVars, maskVars, wakeVars
  <1>6. RqTypes'
    BY <1>0 DEF add_task, RqTypes, ownerVars, queueVars, reschedVars
  <1> QED BY <1>1, <1>4, <1>5, <1>6, CpuKept

LEMMA Type_HelperSelect ==
  ASSUME TypeInv, NEW c \in CPUs, HelperSelect(c)
  PROVE  TypeInv'
  <1>0. TaskTypes /\ RqTypes /\ AgentTypes /\ HandAt(c) /\ CpuAt(c) /\ c \in Agents
    BY CpuParts
  <1>1. AgentStep(c) /\ UNCHANGED <<sched_curr, curr, prev>>
    BY Zenon
      DEF HelperSelect, TakeInHand, AgentStep, Writes, callVars, queueVars, stackVars
  <1>2. PICK h \in Helpers, t \in Tasks : curr[c] = h /\ carries[h] = t
    BY <1>0 DEF HelperSelect, TaskTypes
  <1>3. PICK d \in CPUs : TakeInHand(c, t, d, "loop")
    <2>1. cpumask[t] \subseteq CPUs
      BY <1>0 DEF TaskTypes, AllTasks
    <2> QED BY <1>2, <2>1 DEF HelperSelect
  <1>4. pc'[c] = "publish" /\ hand'[c] = t /\ dest'[c] = d /\ after'[c] = "loop"
    BY <1>0, <1>3 DEF HelperSelect, TakeInHand, AgentTypes
  <1>5. HandAt(c)' /\ CpuAt(c)'
    BY <1>0, <1>1, <1>4 DEF HandAt, AfterPc, AllTasks, CpuAt, PublishPc
  <1>6. TaskTypes'
    <2>1. carries' \in [Helpers -> Tasks \cup {None}]
      BY <1>0 DEF HelperSelect, TaskTypes
    <2> QED BY <1>0, <2>1
              DEF HelperSelect, TaskTypes, runVars, ownerVars, maskVars, wakeVars
  <1>7. RqTypes'
    BY <1>0 DEF HelperSelect, RqTypes, ownerVars, queueVars, reschedVars
  <1> QED BY <1>1, <1>5, <1>6, <1>7, CpuKept

LEMMA Type_park_task ==
  ASSUME TypeInv, NEW c \in CPUs, park_task(c)
  PROVE  TypeInv'
  <1>0. TaskTypes /\ RqTypes /\ CpuTypes /\ AgentTypes /\ HandAt(c) /\ CpuAt(c) /\ c \in Agents
    BY CpuParts
  <1>1. AgentStep(c) /\ UNCHANGED <<hand, dest, curr, prev>>
    BY Zenon DEF park_task, AgentStep, Writes, callVars, stackVars
  <1>2. \A k \in AfterLeave(c) : k \in {"pull", "pick"}
    BY DEF AfterLeave
  <1>3. \/ pc'[c] = "run" /\ after'[c] = after[c] /\ sched_curr'[c] = sched_curr[c]
        \/ /\ pc'[c] = "block" /\ after'[c] \in {"pull", "pick"} /\ sched_curr'[c] = None
           /\ curr[c] \in Tasks
    BY <1>0, <1>2 DEF park_task, AgentTypes, CpuTypes
  <1>4. HandAt(c)' /\ CpuAt(c)'
    BY <1>0, <1>1, <1>3 DEF HandAt, AfterPc, CpuAt, CpuPc, PublishPc
  <1>5. TaskTypes'
    <2>1. woke' = woke \/ woke' = [woke EXCEPT ![curr[c]] = FALSE]
      BY Zenon DEF park_task
    <2>2. woke' \in [AllTasks -> BOOLEAN]
      BY <1>0, <2>1, BoolExcept DEF TaskTypes
    <2> QED BY <1>0, <2>2
              DEF park_task, TaskTypes, runVars, ownerVars, maskVars, spawnVars
  <1>6. RqTypes'
    BY <1>0 DEF park_task, RqTypes, ownerVars, reschedVars
  <1> QED BY <1>1, <1>4, <1>5, <1>6, CpuKept

LEMMA Type_exit_current ==
  ASSUME TypeInv, NEW c \in CPUs, exit_current(c)
  PROVE  TypeInv'
  <1>0. TaskTypes /\ RqTypes /\ CpuTypes /\ AgentTypes /\ HandAt(c) /\ CpuAt(c) /\ c \in Agents
    BY CpuParts
  <1>1. AgentStep(c) /\ UNCHANGED <<hand, dest, after, curr, prev>>
    BY Zenon DEF exit_current, AgentStep, Writes, handVars, callVars, stackVars
  <1>2. pc'[c] \in {"pull", "pick"} /\ sched_curr'[c] = None
    <2>1. \A k \in AfterLeave(c) : k \in {"pull", "pick"}
      BY DEF AfterLeave
    <2> QED BY <1>0, <2>1 DEF exit_current, AgentTypes, CpuTypes
  <1>3. HandAt(c)' /\ CpuAt(c)'
    BY <1>0, <1>1, <1>2 DEF HandAt, CpuAt, CpuPc, PublishPc
  <1>4. TaskTypes'
    <2>1. home_charged' \in [AllTasks -> BOOLEAN]
      BY <1>0, BoolExcept DEF exit_current, TaskTypes
    <2>2. state' \in [AllTasks -> TaskState]
      BY <1>0 DEF exit_current, TaskTypes, TaskState
    <2> QED BY <1>0, <2>1, <2>2
              DEF exit_current, TaskTypes, maskVars, wakeVars, spawnVars
  <1>5. RqTypes'
    <2>1. nr_home' \in [CPUs -> Int]
      BY SMT, <1>0 DEF exit_current, RqTypes
    <2> QED BY <1>0, <2>1 DEF exit_current, RqTypes, reschedVars
  <1> QED BY <1>1, <1>3, <1>4, <1>5, CpuKept

LEMMA Type_migrate_current ==
  ASSUME TypeInv, NEW c \in CPUs, NEW h \in Helpers, migrate_current(c, h),
         cpumask' \in [AllTasks -> (SUBSET CPUs) \ {{}}], expect' \in [Tasks -> SUBSET CPUs]
  PROVE  TypeInv'
  <1>0. TaskTypes /\ RqTypes /\ CpuTypes /\ AgentTypes /\ HandAt(c) /\ CpuAt(c) /\ c \in Agents
    BY CpuParts
  <1>1. AgentStep(c) /\ UNCHANGED <<hand, dest, after, curr, prev>>
    BY Zenon DEF migrate_current, AgentStep, Writes, handVars, callVars, stackVars
  <1>2. pc'[c] = "switch" /\ sched_curr'[c] = h
    BY <1>0 DEF migrate_current, AgentTypes, CpuTypes
  <1>3. h \in AllTasks /\ h # None
    BY ConstantsAssumption DEF AllTasks
  <1>4. HandAt(c)' /\ CpuAt(c)'
    BY <1>0, <1>1, <1>2, <1>3 DEF HandAt, CpuAt, CpuPc, PublishPc
  <1>5. TaskTypes'
    <2>1. state' \in [AllTasks -> TaskState]
      BY <1>0 DEF migrate_current, TaskTypes, TaskState
    <2>2. carries' \in [Helpers -> Tasks \cup {None}]
      BY <1>0 DEF migrate_current, TaskTypes
    <2>3. cpu_id' \in [AllTasks -> CPUs]
      BY <1>0 DEF migrate_current, attach_owner, TaskTypes
    <2> QED BY <1>0, <2>1, <2>2, <2>3 DEF migrate_current, TaskTypes, wakeVars
  <1>6. RqTypes'
    BY <1>0 DEF migrate_current, RqTypes, reschedVars
  <1> QED BY <1>1, <1>4, <1>5, <1>6, CpuKept

LEMMA Type_LeaveForbidden ==
  ASSUME TypeInv, NEW c \in CPUs, NEW h \in Helpers, LeaveForbidden(c, h)
  PROVE  TypeInv'
  <1>1. TaskTypes
    BY CpuParts
  <1>2. cpumask' \in [AllTasks -> (SUBSET CPUs) \ {{}}] /\ expect' \in [Tasks -> SUBSET CPUs]
    BY Zenon, <1>1 DEF LeaveForbidden, maskVars, TaskTypes
  <1> QED BY <1>2, Type_migrate_current DEF LeaveForbidden

LEMMA Type_set_current_affinity ==
  ASSUME TypeInv, NEW c \in CPUs, NEW m \in Masks, set_current_affinity(c, m)
  PROVE  TypeInv'
  <1>0. TaskTypes /\ RqTypes /\ HandAt(c) /\ CpuAt(c)
    BY CpuParts
  <1>1. m \in (SUBSET CPUs) \ {{}}
    BY ConstantsAssumption
  <1>2. cpumask' \in [AllTasks -> (SUBSET CPUs) \ {{}}]
    BY <1>0, <1>1 DEF set_current_affinity, TaskTypes
  <1>3. CASE MustMigrate(c, m)
    <2>1. expect' \in [Tasks -> SUBSET CPUs]
      BY <1>0, <1>1, <1>3 DEF set_current_affinity, TaskTypes
    <2> QED BY <1>2, <1>3, <2>1, Type_migrate_current DEF set_current_affinity
  <1>4. CASE ~MustMigrate(c, m)
    <2>1. AgentStep(c) /\ UNCHANGED <<pc, hand, dest, after, sched_curr, curr, prev>>
      BY Zenon, <1>4
        DEF set_current_affinity, AgentStep, Writes, handVars, callVars, queueVars,
                         stackVars
    <2>2. HandAt(c)' /\ CpuAt(c)'
      BY <1>0, <2>1 DEF HandAt, CpuAt
    <2>3. UNCHANGED <<runVars, ownerVars, expect, wakeVars, spawnVars, rq, tried, reschedVars>>
      BY Zenon, <1>4 DEF set_current_affinity, queueVars
    <2>4. TaskTypes'
      BY <1>0, <1>2, <2>3 DEF TaskTypes, runVars, ownerVars, wakeVars, spawnVars
    <2>5. RqTypes'
      BY <1>0, <2>3 DEF RqTypes, ownerVars, reschedVars
    <2> QED BY <2>1, <2>2, <2>4, <2>5, CpuKept
  <1> QED BY <1>3, <1>4

LEMMA Type_AssertMigrated ==
  ASSUME TypeInv, NEW c \in CPUs, AssertMigrated(c)
  PROVE  TypeInv'
  <1>0. TaskTypes /\ RqTypes /\ HandAt(c) /\ CpuAt(c)
    BY CpuParts
  <1>1. AgentStep(c) /\ UNCHANGED <<pc, hand, dest, after, sched_curr, curr, prev>>
    BY Zenon
      DEF AssertMigrated, AgentStep, Writes, handVars, callVars, queueVars, stackVars
  <1>2. HandAt(c)' /\ CpuAt(c)'
    BY <1>0, <1>1 DEF HandAt, CpuAt
  <1>3. TaskTypes'
    <2>1. expect' \in [Tasks -> SUBSET CPUs]
      BY <1>0 DEF AssertMigrated, TaskTypes
    <2> QED BY <1>0, <2>1
              DEF AssertMigrated, TaskTypes, runVars, ownerVars, wakeVars, spawnVars
  <1>4. RqTypes'
    BY <1>0 DEF AssertMigrated, RqTypes, ownerVars, queueVars, reschedVars
  <1> QED BY <1>1, <1>2, <1>3, <1>4, CpuKept

-----------------------------------------------------------------------------
(* The steps of a publication, of whichever agent.                         *)

LEMMA PublisherParts ==
  ASSUME TypeInv, NEW a \in Agents, pc[a] \in PublishPc
  PROVE  /\ TaskTypes /\ RqTypes /\ AgentTypes /\ AgentAt(a)
         /\ hand[a] \in AllTasks /\ dest[a] \in CPUs
         /\ a \in CPUs => after[a] \in {"run", "loop", "pull", "pick"}
         /\ a \in Wakers => after[a] = "idle"
         /\ a \in Setters => after[a] = "verdict" /\ target[a] \in Tasks
         /\ after[a] = "loop" => a \in CPUs /\ hand[a] \in Tasks
  <1>1. TaskTypes /\ RqTypes /\ AgentTypes /\ AgentAt(a)
    BY AgentNow DEF TypeInv, TypeOK, CpuTypes, RqTypes
  <1>2. a \in Setters => target[a] \in Tasks
    BY <1>1 DEF AgentAt, SetterAt, PublishPc
  <1>3. /\ hand[a] \in AllTasks /\ dest[a] \in CPUs
        /\ a \in CPUs => after[a] \in {"run", "loop", "pull", "pick"}
        /\ a \in Wakers => after[a] = "idle"
        /\ a \in Setters => after[a] = "verdict"
        /\ a \in CPUs /\ after[a] = "loop" => hand[a] \in Tasks
    BY <1>1 DEF AgentAt, HandAt, CpuAt, WakerAt, SetterAt
  <1>4. a \in CPUs \/ a \in Wakers \/ a \in Setters
    BY DEF Agents
  <1>5. after[a] = "loop" => a \in CPUs /\ hand[a] \in Tasks
    BY <1>3, <1>4
  <1> QED BY <1>1, <1>2, <1>3, <1>5

LEMMA PublishingOn ==
  ASSUME NEW a \in Agents, AgentAt(a), pc[a] \in PublishPc, pc'[a] \in {"publish", "commit", "migrate"},
         UNCHANGED <<hand, target, snap, sched_curr, curr, prev>>,
         dest' = dest \/ dest'[a] \in CPUs,
         \/ after' = after
         \/ after[a] # "loop" /\ after'[a] = IF after[a] = "pick" THEN "pull" ELSE after[a]
  PROVE  AgentAt(a)'
  <1>0. pc'[a] \in PublishPc
    BY DEF PublishPc
  <1>1. HandAt(a)'
    BY <1>0 DEF AgentAt, HandAt, AfterPc
  <1>2. a \in CPUs => CpuAt(a)'
    BY <1>0 DEF AgentAt, CpuAt, CpuPc, PublishPc
  <1>3. a \in Wakers => WakerAt(a)'
    BY <1>0 DEF AgentAt, WakerAt, WakerPc, PublishPc
  <1>4. a \in Setters => SetterAt(a)'
    BY <1>0 DEF AgentAt, SetterAt, PublishPc
  <1> QED BY <1>1, <1>2, <1>3, <1>4 DEF AgentAt

LEMMA Type_publish_task ==
  ASSUME TypeInv, NEW a \in Agents, publish_task(a)
  PROVE  TypeInv'
  <1>0. pc[a] = "publish" /\ pc[a] \in PublishPc
    BY DEF publish_task, PublishPc
  <1>1. /\ TaskTypes /\ RqTypes /\ AgentTypes /\ AgentAt(a)
    BY <1>0, PublisherParts
  <1>2. AgentStep(a) /\ UNCHANGED <<hand, dest, after, target, snap, sched_curr, curr, prev>>
    BY Zenon
      DEF publish_task, AgentStep, Writes, handVars, callVars, queueVars, stackVars
  <1>3. pc'[a] = "commit"
    BY <1>1 DEF publish_task, AgentTypes
  <1>4. AgentAt(a)'
    BY <1>0, <1>1, <1>2, <1>3, PublishingOn
  <1>5. TaskTypes'
    BY <1>1
      DEF publish_task, TaskTypes, runVars, ownerVars, maskVars, wakeVars, spawnVars
  <1>6. RqTypes'
    BY <1>1 DEF publish_task, RqTypes, ownerVars, queueVars, reschedVars
  <1> QED BY <1>2, <1>4, <1>5, <1>6, TypeKept

LEMMA Type_migrate_entry ==
  ASSUME TypeInv, NEW a \in Agents, migrate_entry(a)
  PROVE  TypeInv'
  <1>0. pc[a] = "migrate" /\ pc[a] \in PublishPc
    BY DEF migrate_entry, PublishPc
  <1>1. /\ TaskTypes /\ RqTypes /\ AgentTypes /\ AgentAt(a) /\ hand[a] \in AllTasks
    BY <1>0, PublisherParts
  <1>2. AgentStep(a) /\ UNCHANGED <<hand, after, target, snap, sched_curr, curr, prev>>
    BY Zenon DEF migrate_entry, AgentStep, Writes, callVars, queueVars, stackVars
  <1>3. pc'[a] = "publish" /\ dest'[a] \in CPUs
    <2>1. cpumask[hand[a]] \subseteq CPUs
      BY <1>1 DEF TaskTypes
    <2> QED BY <1>1, <2>1 DEF migrate_entry, AgentTypes
  <1>4. AgentAt(a)'
    BY <1>0, <1>1, <1>2, <1>3, PublishingOn
  <1>5. TaskTypes'
    BY <1>1
      DEF migrate_entry, TaskTypes, runVars, ownerVars, maskVars, wakeVars, spawnVars
  <1>6. RqTypes'
    BY <1>1 DEF migrate_entry, RqTypes, ownerVars, queueVars, reschedVars
  <1> QED BY <1>2, <1>4, <1>5, <1>6, TypeKept

LEMMA Type_RejectTask ==
  ASSUME TypeInv, NEW a \in Agents, RejectTask(a)
  PROVE  TypeInv'
  <1>0. pc[a] = "publish" /\ pc[a] \in PublishPc
    BY DEF RejectTask, PublishPc
  <1>1. /\ TaskTypes /\ RqTypes /\ AgentTypes /\ AgentAt(a) /\ dest[a] \in CPUs
        /\ after[a] = "loop" => a \in CPUs /\ hand[a] \in Tasks
    BY <1>0, PublisherParts
  <1>2. AgentStep(a) /\ UNCHANGED <<target, snap, sched_curr, curr, prev>>
    BY Zenon
      DEF RejectTask, EmptyHand, AgentStep, Writes, callVars, queueVars, stackVars
  <1>3. CASE after[a] = "loop"
    <2>1. pc'[a] = "run" /\ hand'[a] = None /\ dest'[a] = None /\ after'[a] = None
      BY <1>1, <1>3 DEF RejectTask, EmptyHand, AgentTypes
    <2>2. CpuAt(a) /\ a \in CPUs /\ a \notin Wakers /\ a \notin Setters
      BY <1>1, <1>3, Disjoint DEF AgentAt
    <2>3. AgentAt(a)'
      BY <1>2, <2>1, <2>2 DEF AgentAt, HandAt, AfterPc, CpuAt, CpuPc, PublishPc
    <2>4. TaskTypes'
      <3>1. carries' \in [Helpers -> Tasks \cup {None}]
        BY <1>1, <1>3 DEF RejectTask, TaskTypes
      <3> QED BY <1>1, <3>1
                DEF RejectTask, TaskTypes, runVars, ownerVars, maskVars, wakeVars
    <2>5. RqTypes'
      BY <1>1 DEF RejectTask, RqTypes, ownerVars, queueVars, reschedVars
    <2> QED BY <1>2, <2>3, <2>4, <2>5, TypeKept
  <1>4. CASE after[a] # "loop"
    <2>1. pc'[a] = "migrate" /\ UNCHANGED <<carries, hand, dest>>
      BY <1>1, <1>4 DEF RejectTask, AgentTypes
    <2>2. after'[a] = IF after[a] = "pick" THEN "pull" ELSE after[a]
      BY <1>1, <1>4 DEF RejectTask, AgentTypes
    <2>3. AgentAt(a)'
      BY <1>0, <1>1, <1>2, <1>4, <2>1, <2>2, PublishingOn
    <2>4. TaskTypes'
      BY <1>1, <2>1
        DEF RejectTask, TaskTypes, runVars, ownerVars, maskVars, wakeVars
    <2>5. RqTypes'
      BY <1>1 DEF RejectTask, RqTypes, ownerVars, queueVars, reschedVars
    <2> QED BY <1>2, <2>3, <2>4, <2>5, TypeKept
  <1> QED BY <1>3, <1>4

LEMMA Type_enqueue ==
  ASSUME TypeInv, NEW a \in Agents, enqueue(a)
  PROVE  TypeInv'
  <1>0. pc[a] = "commit" /\ pc[a] \in PublishPc
    BY DEF enqueue, PublishPc
  <1>1. /\ TaskTypes /\ RqTypes /\ AgentTypes /\ AgentAt(a)
        /\ hand[a] \in AllTasks /\ dest[a] \in CPUs
    BY <1>0, PublisherParts
  <1>2. /\ a \in CPUs => after[a] \in {"run", "loop", "pull", "pick"}
        /\ a \in Wakers => after[a] = "idle"
        /\ a \in Setters => after[a] = "verdict" /\ target[a] \in Tasks
    BY <1>0, PublisherParts
  <1>3. AgentStep(a) /\ UNCHANGED <<snap, sched_curr, curr, prev>>
    BY Zenon DEF enqueue, EmptyHand, AgentStep, Writes, stackVars
  <1>4. /\ pc'[a] = IF after[a] = "loop" THEN "run" ELSE after[a]
        /\ hand'[a] = None /\ dest'[a] = None /\ after'[a] = None
        /\ target' = IF after[a] = "idle" THEN [target EXCEPT ![a] = None] ELSE target
    BY <1>1 DEF enqueue, EmptyHand, AgentTypes
  <1>5. AgentAt(a)'
    <2>0. pc'[a] \notin PublishPc
      BY <1>2, <1>4 DEF Agents, PublishPc
    <2>1. HandAt(a)'
      BY <1>4, <2>0 DEF HandAt, AfterPc
    <2>2. a \in CPUs => CpuAt(a)'
      BY <1>1, <1>2, <1>3, <1>4 DEF AgentAt, CpuAt, CpuPc, PublishPc
    <2>3. a \in Wakers => WakerAt(a)'
      BY <1>1, <1>2, <1>4 DEF WakerAt, WakerPc, PublishPc, AgentTypes
    <2>4. a \in Setters => SetterAt(a)'
      BY <1>1, <1>2, <1>3, <1>4 DEF AgentAt, SetterAt, SetterPc, PublishPc
    <2> QED BY <2>1, <2>2, <2>3, <2>4 DEF AgentAt
  <1>6. TaskTypes'
    <2>1. home_charged' \in [AllTasks -> BOOLEAN]
      BY <1>1, BoolExcept DEF enqueue, TaskTypes
    <2>2. cpu_id' \in [AllTasks -> CPUs]
      BY <1>1 DEF enqueue, attach_owner, TaskTypes
    <2> QED BY <1>1, <2>1, <2>2
              DEF enqueue, TaskTypes, runVars, maskVars, wakeVars, spawnVars
  <1>7. RqTypes'
    <2>1. nr_home' \in [CPUs -> Int]
      BY SMT, <1>1 DEF enqueue, charge_home, RqTypes
    <2>2. rq' \in [CPUs -> SUBSET AllTasks]
      BY SMT, <1>1 DEF enqueue, RqTypes
    <2>3. need_resched' \in [CPUs -> BOOLEAN] /\ ipi' \in [CPUs -> BOOLEAN]
      BY <1>1, BoolExcept DEF enqueue, kick, reschedVars, RqTypes
    <2> QED BY <1>1, <2>1, <2>2, <2>3 DEF enqueue, RqTypes
  <1> QED BY <1>3, <1>5, <1>6, <1>7, TypeKept

-----------------------------------------------------------------------------
(* The steps of a waker.                                                   *)

LEMMA Type_wake ==
  ASSUME TypeInv, NEW w \in Wakers, NEW t \in Tasks, NEW latched \in BOOLEAN, wake(w, t, latched)
  PROVE  TypeInv'
  <1>0. TaskTypes /\ RqTypes /\ AgentTypes /\ HandAt(w) /\ w \in Agents
    BY WakerParts
  <1>1. AgentStep(w) /\ UNCHANGED <<hand, dest, after>>
    BY Zenon DEF wake, AgentStep, Writes, handVars, queueVars, stackVars
  <1>2. pc'[w] = "unblock" /\ target'[w] = t
    BY <1>0 DEF wake, AgentTypes
  <1>3. HandAt(w)' /\ WakerAt(w)'
    BY <1>0, <1>1, <1>2 DEF HandAt, WakerAt, WakerPc, PublishPc
  <1>4. TaskTypes'
    <2>1. \E v \in BOOLEAN : woke' = [woke EXCEPT ![t] = v]
      <3>1. (woke[t] \/ latched) \in BOOLEAN
        OBVIOUS
      <3> QED BY Zenon, <3>1 DEF wake
    <2>2. woke' \in [AllTasks -> BOOLEAN]
      BY <1>0, <2>1, BoolExcept DEF TaskTypes
    <2> QED BY <1>0, <2>2
              DEF wake, TaskTypes, runVars, ownerVars, maskVars, spawnVars
  <1>5. RqTypes'
    BY <1>0 DEF wake, RqTypes, ownerVars, queueVars, reschedVars
  <1> QED BY <1>1, <1>3, <1>4, <1>5, WakerKept

LEMMA Type_unblock_task ==
  ASSUME TypeInv, NEW w \in Wakers, unblock_task(w)
  PROVE  TypeInv'
  <1>0. TaskTypes /\ RqTypes /\ AgentTypes /\ HandAt(w) /\ WakerAt(w) /\ w \in Agents
    BY WakerParts
  <1>1. AgentStep(w) /\ UNCHANGED <<hand, after>>
    BY Zenon DEF unblock_task, AgentStep, Writes, queueVars, stackVars
  <1>2. target[w] \in Tasks /\ cpumask[target[w]] \subseteq CPUs
    BY <1>0 DEF unblock_task, WakerAt, WakerPc, TaskTypes, AllTasks
  <1>3. \/ pc'[w] = "idle" /\ target'[w] = None /\ dest'[w] = dest[w]
        \/ pc'[w] = "arm" /\ target'[w] = target[w] /\ dest'[w] \in CPUs
    BY <1>0, <1>2 DEF unblock_task, AgentTypes
  <1>4. HandAt(w)' /\ WakerAt(w)'
    BY <1>0, <1>1, <1>2, <1>3 DEF HandAt, WakerAt, WakerPc, PublishPc
  <1>5. TaskTypes'
    <2>1. state' \in [AllTasks -> TaskState]
      BY <1>0 DEF unblock_task, TaskTypes, TaskState
    <2> QED BY <1>0, <2>1
              DEF unblock_task, TaskTypes, ownerVars, maskVars, wakeVars, spawnVars
  <1>6. RqTypes'
    BY <1>0 DEF unblock_task, RqTypes, ownerVars, queueVars, reschedVars
  <1> QED BY <1>1, <1>4, <1>5, <1>6, WakerKept

LEMMA Type_arm_wake_enqueue ==
  ASSUME TypeInv, NEW w \in Wakers, arm_wake_enqueue(w)
  PROVE  TypeInv'
  <1>0. TaskTypes /\ RqTypes /\ AgentTypes /\ HandAt(w) /\ WakerAt(w) /\ w \in Agents
    BY WakerParts
  <1>1. AgentStep(w) /\ UNCHANGED <<hand, dest, after, target>>
    BY Zenon DEF arm_wake_enqueue, AgentStep, Writes, handVars, callVars,
      queueVars, stackVars
  <1>2. pc'[w] = "check" /\ dest[w] \in CPUs /\ target[w] \in Tasks
    BY <1>0 DEF arm_wake_enqueue, AgentTypes, WakerAt, WakerPc
  <1>3. HandAt(w)' /\ WakerAt(w)'
    BY <1>0, <1>1, <1>2 DEF HandAt, WakerAt, WakerPc, PublishPc
  <1>4. TaskTypes'
    <2>1. wake_flags' \in [AllTasks -> BOOLEAN]
      BY <1>0, BoolExcept DEF arm_wake_enqueue, TaskTypes
    <2>2. wake_cpu' \in [AllTasks -> CPUs \cup {None}]
      BY <1>0, <1>2 DEF arm_wake_enqueue, TaskTypes
    <2> QED BY <1>0, <2>1, <2>2
            DEF arm_wake_enqueue, TaskTypes, runVars, ownerVars, maskVars, spawnVars
  <1>5. RqTypes'
    BY <1>0 DEF arm_wake_enqueue, RqTypes, ownerVars, queueVars, reschedVars
  <1> QED BY <1>1, <1>3, <1>4, <1>5, WakerKept

LEMMA Type_CheckOnCpu ==
  ASSUME TypeInv, NEW w \in Wakers, CheckOnCpu(w)
  PROVE  TypeInv'
  <1>0. TaskTypes /\ RqTypes /\ AgentTypes /\ HandAt(w) /\ WakerAt(w) /\ w \in Agents
    BY WakerParts
  <1>1. AgentStep(w)
    BY Zenon
      DEF CheckOnCpu, EmptyHand, AgentStep, Writes, handVars, queueVars, stackVars
  <1>2. dest[w] \in CPUs /\ target[w] \in Tasks
    BY <1>0 DEF CheckOnCpu, WakerAt, WakerPc
  <1>3. \/ /\ pc'[w] = "idle" /\ target'[w] = None
           /\ hand'[w] = None /\ dest'[w] = None /\ after'[w] = None
        \/ pc'[w] = "claim" /\ UNCHANGED <<hand, dest, after, target>>
    BY <1>0 DEF CheckOnCpu, EmptyHand, AgentTypes, handVars
  <1>4. HandAt(w)' /\ WakerAt(w)'
    BY <1>0, <1>2, <1>3 DEF HandAt, AfterPc, WakerAt, WakerPc, PublishPc
  <1>5. TaskTypes'
    BY <1>0
      DEF CheckOnCpu, TaskTypes, runVars, ownerVars, maskVars, wakeVars, spawnVars
  <1>6. RqTypes'
    BY <1>0 DEF CheckOnCpu, RqTypes, ownerVars, queueVars, reschedVars
  <1> QED BY <1>1, <1>4, <1>5, <1>6, WakerKept

LEMMA Type_take_wake_enqueue ==
  ASSUME TypeInv, NEW w \in Wakers, take_wake_enqueue(w)
  PROVE  TypeInv'
  <1>0. TaskTypes /\ RqTypes /\ AgentTypes /\ HandAt(w) /\ WakerAt(w) /\ w \in Agents
    BY WakerParts
  <1>1. AgentStep(w)
    BY Zenon DEF take_wake_enqueue, TakeInHand, EmptyHand, AgentStep, Writes,
      queueVars, stackVars
  <1>2. dest[w] \in CPUs /\ target[w] \in Tasks
    BY <1>0 DEF take_wake_enqueue, WakerAt, WakerPc
  <1>3. \/ /\ pc'[w] = "idle" /\ target'[w] = None
           /\ hand'[w] = None /\ dest'[w] = None /\ after'[w] = None
        \/ /\ pc'[w] = "publish" /\ target' = target
           /\ hand'[w] = target[w] /\ dest'[w] = dest[w] /\ after'[w] = "idle"
    BY <1>0 DEF take_wake_enqueue, TakeInHand, EmptyHand, AgentTypes
  <1>4. HandAt(w)' /\ WakerAt(w)'
    BY <1>0, <1>2, <1>3 DEF HandAt, AfterPc, AllTasks, WakerAt, WakerPc, PublishPc
  <1>5. TaskTypes'
    <2>1. /\ wake_flags' = wake_flags \/ wake_flags' = [wake_flags EXCEPT ![target[w]] = FALSE]
          /\ wake_cpu' = wake_cpu \/ wake_cpu' = [wake_cpu EXCEPT ![target[w]] = None]
      BY Zenon DEF take_wake_enqueue
    <2>2. wake_flags' \in [AllTasks -> BOOLEAN]
      BY <1>0, <2>1, BoolExcept DEF TaskTypes
    <2>3. wake_cpu' \in [AllTasks -> CPUs \cup {None}]
      BY <1>0, <2>1 DEF TaskTypes
    <2> QED BY <1>0, <2>2, <2>3
            DEF take_wake_enqueue, TaskTypes, runVars, ownerVars, maskVars, spawnVars
  <1>6. RqTypes'
    BY <1>0 DEF take_wake_enqueue, RqTypes, ownerVars, queueVars, reschedVars
  <1> QED BY <1>1, <1>4, <1>5, <1>6, WakerKept

-----------------------------------------------------------------------------
(* The steps of an affinity setter.                                        *)

LEMMA Type_set_task_affinity ==
  ASSUME TypeInv, NEW s \in Setters, NEW t \in Tasks, NEW m \in Masks, set_task_affinity(s, t, m)
  PROVE  TypeInv'
  <1>0. TaskTypes /\ RqTypes /\ AgentTypes /\ HandAt(s) /\ SetterAt(s) /\ s \in Agents
    BY SetterParts
  <1>1. AgentStep(s) /\ UNCHANGED <<hand, dest, after, snap>>
    BY Zenon
      DEF set_task_affinity, AgentStep, Writes, handVars, queueVars, stackVars
  <1>2. pc'[s] = "snapshot" /\ target'[s] = t
    BY <1>0 DEF set_task_affinity, AgentTypes
  <1>3. HandAt(s)' /\ SetterAt(s)'
    BY <1>0, <1>1, <1>2 DEF HandAt, SetterAt, SetterPc, PublishPc
  <1>4. TaskTypes'
    <2>1. m \in (SUBSET CPUs) \ {{}}
      BY ConstantsAssumption
    <2>2. cpumask' \in [AllTasks -> (SUBSET CPUs) \ {{}}]
      BY <1>0, <2>1 DEF set_task_affinity, TaskTypes
    <2> QED BY <1>0, <2>2 DEF set_task_affinity, TaskTypes, runVars, ownerVars,
              wakeVars, spawnVars
  <1>5. RqTypes'
    BY <1>0 DEF set_task_affinity, RqTypes, ownerVars, queueVars, reschedVars
  <1> QED BY <1>1, <1>3, <1>4, <1>5, SetterKept

LEMMA Type_SnapshotMask ==
  ASSUME TypeInv, NEW s \in Setters, SnapshotMask(s)
  PROVE  TypeInv'
  <1>0. TaskTypes /\ RqTypes /\ AgentTypes /\ HandAt(s) /\ SetterAt(s) /\ s \in Agents
    BY SetterParts
  <1>1. AgentStep(s) /\ UNCHANGED <<hand, dest, after, target>>
    BY Zenon DEF SnapshotMask, AgentStep, Writes, handVars, queueVars, stackVars
  <1>2. target[s] \in Tasks
    BY <1>0 DEF SnapshotMask, SetterAt
  <1>3. pc'[s] = "state" /\ snap'[s] \in SUBSET CPUs
    <2>1. cpumask[target[s]] \in SUBSET CPUs
      BY <1>0, <1>2 DEF TaskTypes, AllTasks
    <2> QED BY <1>0, <2>1 DEF SnapshotMask, AgentTypes
  <1>4. HandAt(s)' /\ SetterAt(s)'
    BY <1>0, <1>1, <1>2, <1>3 DEF HandAt, SetterAt, SetterPc, PublishPc
  <1>5. TaskTypes'
    BY <1>0
      DEF SnapshotMask, TaskTypes, runVars, ownerVars, maskVars, wakeVars, spawnVars
  <1>6. RqTypes'
    BY <1>0 DEF SnapshotMask, RqTypes, ownerVars, queueVars, reschedVars
  <1> QED BY <1>1, <1>4, <1>5, <1>6, SetterKept

LEMMA Type_enforce_affinity_placement ==
  ASSUME TypeInv, NEW s \in Setters, enforce_affinity_placement(s)
  PROVE  TypeInv'
  <1>0. TaskTypes /\ RqTypes /\ AgentTypes /\ HandAt(s) /\ SetterAt(s) /\ s \in Agents
    BY SetterParts
  <1>1. AgentStep(s) /\ UNCHANGED <<hand, dest, after, target, snap>>
    BY Zenon DEF enforce_affinity_placement, AgentStep, Writes, handVars, callVars,
      queueVars,
                 stackVars
  <1>2. /\ pc[s] # "idle"
        /\ \E k \in {"return", "owner", "dequeue", "redo", "dequeue2", "verdict", "failed"} :
              pc' = [pc EXCEPT ![s] = k]
    BY Zenon DEF enforce_affinity_placement
  <1>3. /\ target[s] \in Tasks
        /\ pc'[s] \in {"return", "owner", "dequeue", "redo", "dequeue2", "verdict", "failed"}
    BY <1>0, <1>2 DEF SetterAt, AgentTypes
  <1>4. HandAt(s)' /\ SetterAt(s)'
    BY <1>0, <1>1, <1>3 DEF HandAt, SetterAt, SetterPc, PublishPc
  <1>5. TaskTypes'
    BY <1>0 DEF enforce_affinity_placement, TaskTypes, runVars, ownerVars,
      maskVars, wakeVars,
                spawnVars
  <1>6. RqTypes'
    BY <1>0
      DEF enforce_affinity_placement, RqTypes, ownerVars, queueVars, reschedVars
  <1> QED BY <1>1, <1>4, <1>5, <1>6, SetterKept

LEMMA Type_dequeue_ready_task_waiting_off_cpu ==
  ASSUME TypeInv, NEW s \in Setters, dequeue_ready_task_waiting_off_cpu(s)
  PROVE  TypeInv'
  <1>0. TaskTypes /\ RqTypes /\ AgentTypes /\ HandAt(s) /\ SetterAt(s) /\ s \in Agents
    BY SetterParts
  <1>1. AgentStep(s) /\ UNCHANGED <<target, snap>>
    BY Zenon DEF dequeue_ready_task_waiting_off_cpu, TakeInHand, AgentStep, Writes,
      handVars,
                 callVars, stackVars
  <1>2. PICK t \in Tasks, c \in CPUs : target[s] = t /\ cpu_id[t] = c
    BY <1>0 DEF dequeue_ready_task_waiting_off_cpu, SetterAt, TaskTypes, AllTasks
  <1>3. \/ /\ \E k \in {"kick", "verdict"} : pc' = [pc EXCEPT ![s] = k]
           /\ UNCHANGED <<rq, hand, dest, after>>
        \/ /\ pc' = [pc EXCEPT ![s] = "migrate"] /\ TakeInHand(s, t, c, "verdict")
           /\ rq' = [rq EXCEPT ![c] = @ \ {t}]
    BY Zenon, <1>2 DEF dequeue_ready_task_waiting_off_cpu, handVars
  <1>4. \/ pc'[s] \in {"kick", "verdict"} /\ UNCHANGED <<hand, dest, after>>
        \/ pc'[s] = "migrate" /\ hand'[s] = t /\ dest'[s] = c /\ after'[s] = "verdict"
    BY <1>0, <1>3 DEF TakeInHand, AgentTypes
  <1>5. HandAt(s)' /\ SetterAt(s)'
    BY <1>0, <1>1, <1>2, <1>4
      DEF HandAt, AfterPc, AllTasks, SetterAt, SetterPc, PublishPc
  <1>6. TaskTypes'
    BY <1>0 DEF dequeue_ready_task_waiting_off_cpu, TaskTypes, runVars, ownerVars,
      maskVars,
                wakeVars, spawnVars
  <1>7. RqTypes'
    <2>1. rq' \in [CPUs -> SUBSET AllTasks]
      BY SMT, <1>0, <1>3 DEF RqTypes
    <2> QED BY <1>0, <2>1
              DEF dequeue_ready_task_waiting_off_cpu, RqTypes, ownerVars, reschedVars
  <1> QED BY <1>1, <1>5, <1>6, <1>7, SetterKept

LEMMA Type_request_remote_resched ==
  ASSUME TypeInv, NEW s \in Setters, request_remote_resched(s)
  PROVE  TypeInv'
  <1>0. TaskTypes /\ RqTypes /\ AgentTypes /\ HandAt(s) /\ SetterAt(s) /\ s \in Agents
    BY SetterParts
  <1>1. AgentStep(s) /\ UNCHANGED <<hand, dest, after, target, snap>>
    BY Zenon DEF request_remote_resched, AgentStep, Writes, handVars, callVars,
      queueVars, stackVars
  <1>2. target[s] \in Tasks /\ pc'[s] \in {"wait", "redo"}
    BY <1>0 DEF request_remote_resched, SetterAt, AgentTypes
  <1>3. HandAt(s)' /\ SetterAt(s)'
    BY <1>0, <1>1, <1>2 DEF HandAt, SetterAt, SetterPc, PublishPc
  <1>4. TaskTypes'
    BY <1>0 DEF request_remote_resched, TaskTypes, runVars, ownerVars, maskVars,
      wakeVars, spawnVars
  <1>5. RqTypes'
    <2>1. ipi' = ipi \/ ipi' = [ipi EXCEPT ![cpu_id[target[s]]] = TRUE]
      BY Zenon DEF request_remote_resched
    <2>2. ipi' \in [CPUs -> BOOLEAN]
      BY <1>0, <2>1, BoolExcept DEF RqTypes
    <2> QED BY <1>0, <2>2 DEF request_remote_resched, RqTypes, ownerVars, queueVars
  <1> QED BY <1>1, <1>3, <1>4, <1>5, SetterKept

LEMMA Type_AffinityReturns ==
  ASSUME TypeInv, NEW s \in Setters, AffinityReturns(s)
  PROVE  TypeInv'
  <1>0. TaskTypes /\ RqTypes /\ AgentTypes /\ HandAt(s) /\ s \in Agents
    BY SetterParts
  <1>1. AgentStep(s) /\ UNCHANGED <<hand, dest, after>>
    BY Zenon DEF AffinityReturns, AgentStep, Writes, handVars, queueVars, stackVars
  <1>2. pc'[s] = "idle" /\ target'[s] = None /\ snap'[s] = {}
    BY <1>0 DEF AffinityReturns, AgentTypes
  <1>3. HandAt(s)' /\ SetterAt(s)'
    BY <1>0, <1>1, <1>2 DEF HandAt, SetterAt, SetterPc, PublishPc
  <1>4. TaskTypes'
    BY <1>0 DEF AffinityReturns, TaskTypes, runVars, ownerVars, maskVars, wakeVars,
      spawnVars
  <1>5. RqTypes'
    BY <1>0 DEF AffinityReturns, RqTypes, ownerVars, queueVars, reschedVars
  <1> QED BY <1>1, <1>3, <1>4, <1>5, SetterKept

-----------------------------------------------------------------------------
(* The initial states, and all steps together.                             *)

LEMMA TypeInit == Init => TypeInv
  <1> SUFFICES ASSUME NEW b \in CPUs, Boot(b) PROVE TypeInv
    BY DEF Init
  <1>1. CPUs # {} /\ CPUs \in SUBSET CPUs
    OBVIOUS
  <1>a. cpumask \in [AllTasks -> (SUBSET CPUs) \ {{}}]
    BY <1>1 DEF Boot
  <1>2. TaskTypes
    BY <1>a, ConstantsAssumption DEF TaskTypes, Boot, AllTasks, TaskState
  <1>3. CpuTypes
    BY SMT, ConstantsAssumption DEF CpuTypes, Boot, AllTasks
  <1>4. AgentTypes
    BY ConstantsAssumption
      DEF AgentTypes, Boot, Agents, CpuPc, PublishPc, WakerPc, SetterPc
  <1>5. PublisherControl /\ CpuControl /\ CallControl
    BY ConstantsAssumption
    DEF Boot, Agents, PublisherControl, CpuControl, CallControl, PublishPc, WakerPc
  <1> QED BY <1>2, <1>3, <1>4, <1>5 DEF TypeInv, TypeOK

LEMMA TypeNext == TypeInv /\ Next => TypeInv'
  <1> SUFFICES ASSUME TypeInv, Next PROVE TypeInv'
    OBVIOUS
  <1>1. ASSUME NEW a \in Agents, Publication(a) PROVE TypeInv'
    BY <1>1, Type_publish_task, Type_RejectTask, Type_migrate_entry,
         Type_enqueue DEF Publication
  <1>2. ASSUME NEW c \in CPUs, Resched(c) PROVE TypeInv'
    BY <1>2, Type_leave_and_publish, Type_blocked_resched, Type_idle_pull,
         Type_steal_ready_for_idle_pull, Type_pick_next, Type_switch_to,
         Type_finish_task_switch, Type_clear_prev_task_on_cpu DEF Resched
  <1>3. ASSUME NEW c \in CPUs, Interrupt(c) PROVE TypeInv'
    BY <1>3, Type_HandleIpi, Type_on_timer_fire, Type_preempt_resched,
         Type_idle_wait_if_no_work, Type_idle_wait_returns DEF Interrupt
  <1>4. ASSUME NEW c \in CPUs, RunTask(c) PROVE TypeInv'
    BY <1>4, Type_yield_current, Type_park_task, Type_exit_current,
         Type_AssertMigrated, Type_HelperSelect, Type_add_task,
         Type_set_current_affinity, Type_LeaveForbidden DEF RunTask
  <1>5. ASSUME NEW w \in Wakers, Waker(w) PROVE TypeInv'
    BY <1>5, Type_wake, Type_unblock_task, Type_arm_wake_enqueue,
         Type_CheckOnCpu, Type_take_wake_enqueue DEF Waker
  <1>6. ASSUME NEW s \in Setters, Setter(s) PROVE TypeInv'
    BY <1>6, Type_set_task_affinity, Type_SnapshotMask,
         Type_enforce_affinity_placement,
         Type_dequeue_ready_task_waiting_off_cpu,
         Type_request_remote_resched, Type_AffinityReturns DEF Setter
  <1> QED BY <1>1, <1>2, <1>3, <1>4, <1>5, <1>6 DEF Next


LEMMA TypeStutter == TypeInv /\ UNCHANGED vars => TypeInv'
  <1> SUFFICES ASSUME TypeInv, UNCHANGED vars PROVE TypeInv'
    OBVIOUS
  <1> USE DEF vars, TypeInv, TypeOK
  <1>1. TaskTypes'
    BY DEF TaskTypes, runVars, ownerVars, maskVars, wakeVars, spawnVars
  <1>2. CpuTypes'
    BY DEF CpuTypes, ownerVars, queueVars, stackVars, reschedVars
  <1>3. AgentTypes' /\ PublisherControl'
    BY DEF AgentTypes, PublisherControl, handVars, callVars
  <1>4. CpuControl' /\ CallControl'
    BY DEF CpuControl, CallControl, queueVars, stackVars, handVars, callVars
  <1> QED BY <1>1, <1>2, <1>3, <1>4

(* Every agent of the run queues holds what its program point needs: a     *)
(* publisher a task and a destination, a switching CPU its next task, a    *)
(* waker or setter its target.                                             *)
THEOREM TypeInvariant == Spec => []TypeInv
  BY TypeInit, TypeNext, TypeStutter, PTL DEF Spec

(* The run queues stay well typed (TaskInner, RunQueue, and every context  *)
(* that publishes, wakes or moves a task), for any number of CPUs, tasks,  *)
(* wakers and affinity setters.                                            *)
THEOREM TypeCorrect == Spec => []TypeOK
  BY TypeInvariant, PTL DEF TypeInv

-----------------------------------------------------------------------------
(* No lost wakeup.                                                         *)

(* A quiet step brings no CPU to its last look at a latch, sets no latch,  *)
(* puts no task to sleep, and stops no waker on its way to unblock_task.   *)
Quiet ==
    /\ \A c \in CPUs : pc'[c] = "block" => pc[c] = "block" /\ curr'[c] = curr[c]
    /\ woke' = woke
    /\ \A t \in Tasks : state'[t] = "Blocked" => state[t] = "Blocked"
    /\ \A w \in Wakers : pc[w] = "unblock" => pc'[w] = "unblock" /\ target'[w] = target[w]

\* A quiet step loses no wakeup.
LEMMA QuietKeeps == NoLostWake /\ Quiet => NoLostWake'
  BY SMT DEF NoLostWake, Quiet

\* Publishing a task is quiet: a publisher never continues at "block".
LEMMA QuietPublication ==
  ASSUME TypeInv, NEW a \in Agents
  PROVE  (publish_task(a) \/ RejectTask(a) \/ migrate_entry(a) \/ enqueue(a)) => Quiet
  <1>a. TaskTypes /\ CpuTypes /\ AgentTypes /\ PublisherControl
    BY Zenon DEF TypeInv, TypeOK
  <1> USE DEF Quiet, TaskTypes, CpuTypes, AgentTypes, Agents, AllTasks,
            runVars, wakeVars, stackVars, handVars, callVars
  <1>1. ASSUME publish_task(a) PROVE Quiet
    BY <1>1, <1>a DEF publish_task
  <1>2. ASSUME RejectTask(a) PROVE Quiet
    BY <1>2, <1>a DEF RejectTask
  <1>3. ASSUME migrate_entry(a) PROVE Quiet
    BY <1>3, <1>a DEF migrate_entry
  <1>4. ASSUME enqueue(a) PROVE Quiet
    BY <1>4, <1>a DEF enqueue, PublisherControl, PublishPc
  <1> QED BY <1>1, <1>2, <1>3, <1>4

\* Leaving, pulling, picking and switching are quiet; blocked_resched is not.
LEMMA QuietResched ==
  ASSUME TypeInv, NEW c \in CPUs
  PROVE  (leave_and_publish(c) \/ idle_pull(c) \/ steal_ready_for_idle_pull(c)
         \/ pick_next(c) \/ switch_to(c) \/ finish_task_switch(c)
         \/ clear_prev_task_on_cpu(c)) => Quiet
  <1>a. TaskTypes /\ CpuTypes /\ AgentTypes /\ PublisherControl
    BY Zenon DEF TypeInv, TypeOK
  <1> USE DEF Quiet, TaskTypes, CpuTypes, AgentTypes, Agents, AllTasks,
            runVars, wakeVars, stackVars, handVars, callVars
  <1>1. ASSUME leave_and_publish(c) PROVE Quiet
    <2>1. \A k \in AfterLeave(c)' : k # "block"
      BY DEF AfterLeave
    <2> QED BY <1>1, <1>a, <2>1 DEF leave_and_publish
  <1>2. ASSUME idle_pull(c) PROVE Quiet
    BY <1>2, <1>a DEF idle_pull
  <1>3. ASSUME steal_ready_for_idle_pull(c) PROVE Quiet
    BY <1>3, <1>a DEF steal_ready_for_idle_pull
  <1>4. ASSUME pick_next(c) PROVE Quiet
    BY <1>4, <1>a DEF pick_next
  <1>5. ASSUME switch_to(c) PROVE Quiet
    BY <1>5, <1>a DEF switch_to
  <1>6. ASSUME finish_task_switch(c) PROVE Quiet
    BY <1>6, <1>a DEF finish_task_switch
  <1>7. ASSUME clear_prev_task_on_cpu(c) PROVE Quiet
    BY SMT, <1>7, <1>a DEF clear_prev_task_on_cpu
  <1> QED BY <1>1, <1>2, <1>3, <1>4, <1>5, <1>6, <1>7

\* Interrupts and preempt safe points are quiet.
LEMMA QuietInterrupt ==
  ASSUME TypeInv, NEW c \in CPUs
  PROVE  (HandleIpi(c) \/ on_timer_fire(c) \/ preempt_resched(c)
         \/ idle_wait_if_no_work(c) \/ idle_wait_returns(c)) => Quiet
  <1>a. TaskTypes /\ CpuTypes /\ AgentTypes /\ PublisherControl
    BY Zenon DEF TypeInv, TypeOK
  <1> USE DEF Quiet, TaskTypes, CpuTypes, AgentTypes, Agents, AllTasks,
            runVars, wakeVars, stackVars, handVars, callVars
  <1>1. ASSUME HandleIpi(c) PROVE Quiet
    BY <1>1, <1>a DEF HandleIpi
  <1>2. ASSUME on_timer_fire(c) PROVE Quiet
    BY <1>2, <1>a DEF on_timer_fire
  <1>3. ASSUME preempt_resched(c) PROVE Quiet
    BY <1>3, <1>a DEF preempt_resched
  <1>4. ASSUME idle_wait_if_no_work(c) PROVE Quiet
    BY <1>4, <1>a DEF idle_wait_if_no_work
  <1>5. ASSUME idle_wait_returns(c) PROVE Quiet
    BY <1>5, <1>a DEF idle_wait_returns
  <1> QED BY <1>1, <1>2, <1>3, <1>4, <1>5

\* What a running task does is quiet, except park_task.
LEMMA QuietRunTask ==
  ASSUME TypeInv, NEW c \in CPUs
  PROVE  (yield_current(c) \/ exit_current(c) \/ AssertMigrated(c)
         \/ HelperSelect(c) \/ (\E t \in Tasks : add_task(c, t))
         \/ (\E h \in Helpers : LeaveForbidden(c, h))
         \/ (\E m \in Masks : set_current_affinity(c, m))) => Quiet
  <1>a. TaskTypes /\ CpuTypes /\ AgentTypes /\ PublisherControl
    BY Zenon DEF TypeInv, TypeOK
  <1> USE DEF Quiet, TaskTypes, CpuTypes, AgentTypes, Agents, AllTasks,
            runVars, wakeVars, stackVars, handVars, callVars
  <1>1. ASSUME yield_current(c) PROVE Quiet
    BY <1>1, <1>a DEF yield_current
  <1>2. ASSUME exit_current(c) PROVE Quiet
    <2>1. \A k \in AfterLeave(c) : k # "block"
      BY DEF AfterLeave
    <2> QED BY <1>2, <1>a, <2>1 DEF exit_current
  <1>3. ASSUME AssertMigrated(c) PROVE Quiet
    BY <1>3, <1>a DEF AssertMigrated
  <1>4. ASSUME HelperSelect(c) PROVE Quiet
    BY <1>4, <1>a DEF HelperSelect
  <1>5. ASSUME NEW t \in Tasks, add_task(c, t) PROVE Quiet
    BY <1>5, <1>a DEF add_task
  <1>6. ASSUME NEW h \in Helpers, LeaveForbidden(c, h) PROVE Quiet
    BY <1>6, <1>a DEF LeaveForbidden, migrate_current
  <1>7. ASSUME NEW m \in Masks, set_current_affinity(c, m) PROVE Quiet
    BY ZenonT(60), <1>7, <1>a DEF set_current_affinity, migrate_current
  <1> QED BY <1>1, <1>2, <1>3, <1>4, <1>5, <1>6, <1>7

\* A waker that has unblocked its task is quiet.
LEMMA QuietWaker ==
  ASSUME TypeInv, NEW w \in Wakers
  PROVE  (arm_wake_enqueue(w) \/ CheckOnCpu(w) \/ take_wake_enqueue(w)) => Quiet
  <1>a. TaskTypes /\ CpuTypes /\ AgentTypes /\ PublisherControl
    BY Zenon DEF TypeInv, TypeOK
  <1> USE DEF Quiet, TaskTypes, CpuTypes, AgentTypes, Agents, AllTasks,
            runVars, wakeVars, stackVars, handVars, callVars
  <1>1. ASSUME arm_wake_enqueue(w) PROVE Quiet
    BY <1>1, <1>a DEF arm_wake_enqueue
  <1>2. ASSUME CheckOnCpu(w) PROVE Quiet
    BY SMT, <1>2, <1>a DEF CheckOnCpu
  <1>3. ASSUME take_wake_enqueue(w) PROVE Quiet
    BY SMT, <1>3, <1>a DEF take_wake_enqueue
  <1> QED BY <1>1, <1>2, <1>3

\* Affinity calls are quiet.
LEMMA QuietSetter ==
  ASSUME TypeInv, NEW s \in Setters
  PROVE  (SnapshotMask(s) \/ enforce_affinity_placement(s)
         \/ dequeue_ready_task_waiting_off_cpu(s) \/ request_remote_resched(s)
         \/ AffinityReturns(s)
         \/ (\E t \in Tasks, m \in Masks : set_task_affinity(s, t, m))) => Quiet
  <1>a. TaskTypes /\ CpuTypes /\ AgentTypes /\ PublisherControl
    BY Zenon DEF TypeInv, TypeOK
  <1> USE DEF Quiet, TaskTypes, CpuTypes, AgentTypes, Agents, AllTasks,
            runVars, wakeVars, stackVars, handVars, callVars
  <1>1. ASSUME SnapshotMask(s) PROVE Quiet
    BY <1>1, <1>a DEF SnapshotMask
  <1>2. ASSUME enforce_affinity_placement(s) PROVE Quiet
    BY <1>2, <1>a DEF enforce_affinity_placement
  <1>3. ASSUME dequeue_ready_task_waiting_off_cpu(s) PROVE Quiet
    BY <1>3, <1>a DEF dequeue_ready_task_waiting_off_cpu
  <1>4. ASSUME request_remote_resched(s) PROVE Quiet
    BY <1>4, <1>a DEF request_remote_resched
  <1>5. ASSUME AffinityReturns(s) PROVE Quiet
    BY <1>5, <1>a DEF AffinityReturns
  <1>6. ASSUME NEW t \in Tasks, NEW m \in Masks, set_task_affinity(s, t, m) PROVE Quiet
    BY <1>6, <1>a DEF set_task_affinity
  <1> QED BY <1>1, <1>2, <1>3, <1>4, <1>5, <1>6

\* park_task: a CPU passes its last look at the latch only if it is clear.
LEMMA KeepPark ==
  ASSUME TypeInv, NoLostWake, NEW c \in CPUs, park_task(c)
  PROVE  NoLostWake'
  <1>a. TaskTypes /\ CpuTypes /\ AgentTypes /\ CpuControl
    BY Zenon DEF TypeInv, TypeOK
  <1>1. /\ UNCHANGED <<state, curr, target>>
        /\ \A w \in Wakers : pc[w] = "unblock" => pc'[w] = "unblock"
    BY <1>a DEF park_task, runVars, stackVars, callVars, AgentTypes, Agents
  <1>2. \A t \in AllTasks : woke'[t] => woke[t]
    BY <1>a DEF park_task, TaskTypes
  <1>3. ASSUME NEW d \in CPUs, pc'[d] = "block" PROVE ~woke'[curr'[d]]
    <2>1. CASE woke[curr[c]]
      <3>1. pc' = pc
        BY <2>1 DEF park_task
      <3>2. curr[d] \in AllTasks
        BY <1>3, <1>a, <3>1 DEF CpuControl, AllTasks
      <3> QED BY <1>1, <1>2, <1>3, <3>1, <3>2 DEF NoLostWake
    <2>2. CASE ~woke[curr[c]]
      BY <1>3, <2>2, <1>a DEF NoLostWake, park_task, stackVars, AgentTypes, Agents
    <2> QED BY <2>1, <2>2
  <1> QED BY <1>1, <1>2, <1>3 DEF NoLostWake, AllTasks

\* blocked_resched: the latch is clear when the task becomes Blocked.
LEMMA KeepBlocked ==
  ASSUME TypeInv, NoLostWake, NEW c \in CPUs, blocked_resched(c)
  PROVE  NoLostWake'
  <1>a. TaskTypes /\ CpuTypes /\ AgentTypes /\ CpuControl
    BY Zenon DEF TypeInv, TypeOK
  <1>1. /\ curr' = curr /\ target' = target
        /\ \A d \in CPUs : pc'[d] = "block" => pc[d] = "block"
        /\ \A w \in Wakers : pc[w] = "unblock" => pc'[w] = "unblock"
    BY <1>a DEF blocked_resched, stackVars, callVars, AgentTypes, Agents, CpuControl
  <1>2. \A t \in AllTasks : woke'[t] => woke[t] /\ t # curr[c]
    BY <1>a DEF blocked_resched, TaskTypes
  <1>3. \A t \in AllTasks : t # curr[c] => state'[t] = state[t]
    BY <1>a DEF blocked_resched, TaskTypes
  <1>4. ASSUME NEW d \in CPUs, pc'[d] = "block" PROVE ~woke'[curr'[d]]
    BY SMT, <1>1, <1>4, <1>a DEF NoLostWake, blocked_resched, TaskTypes
  <1> QED BY SMT, <1>1, <1>2, <1>3, <1>4 DEF NoLostWake, AllTasks

\* wake: the latch is set only while no CPU holds it, and its setter is on its
\* way to unblock the task.
LEMMA KeepWake ==
  ASSUME TypeInv, NoLostWake, NEW w \in Wakers, NEW t \in Tasks, NEW b \in BOOLEAN,
         wake(w, t, b)
  PROVE  NoLostWake'
  <1>a. TaskTypes /\ CpuTypes /\ AgentTypes
    BY Zenon DEF TypeInv, TypeOK
  <1>1. /\ state' = state /\ curr' = curr
        /\ \A d \in CPUs : pc'[d] = "block" => pc[d] = "block"
        /\ \A v \in Wakers : pc[v] = "unblock" => pc'[v] = "unblock" /\ target'[v] = target[v]
        /\ pc'[w] = "unblock" /\ target'[w] = t
    BY <1>a DEF wake, runVars, stackVars, AgentTypes, Agents
  <1>2. \A u \in AllTasks : u # t => woke'[u] = woke[u]
    BY <1>a DEF wake, TaskTypes
  <1>3. ASSUME NEW d \in CPUs, pc'[d] = "block" PROVE ~woke'[curr'[d]]
    BY SMT, <1>1, <1>3, <1>a DEF NoLostWake, wake, LatchHeld, TaskTypes
  <1> QED BY SMT, <1>1, <1>2, <1>3 DEF NoLostWake, AllTasks

\* unblock_task: a waker stops only at a task that is not Blocked any more.
LEMMA KeepUnblock ==
  ASSUME TypeInv, NoLostWake, NEW w \in Wakers, unblock_task(w)
  PROVE  NoLostWake'
  <1>a. TaskTypes /\ CpuTypes /\ AgentTypes
    BY Zenon DEF TypeInv, TypeOK
  <1>1. /\ woke' = woke /\ curr' = curr
        /\ \A d \in CPUs : pc'[d] = "block" => pc[d] = "block"
        /\ \A v \in Wakers \ {w} : pc'[v] = pc[v] /\ target'[v] = target[v]
    BY <1>a DEF unblock_task, wakeVars, stackVars, AgentTypes, Agents
  <1>2. \A t \in Tasks : state'[t] = "Blocked" => state[t] = "Blocked" /\ t # target[w]
    BY <1>a DEF unblock_task, CanUnblock, TaskTypes, AllTasks
  <1> QED BY SMT, <1>1, <1>2 DEF NoLostWake

LEMMA KeepNext == TypeInv /\ NoLostWake /\ Next => NoLostWake'
  <1> SUFFICES ASSUME TypeInv, NoLostWake, Next PROVE NoLostWake'
    OBVIOUS
  <1>1. ASSUME NEW a \in Agents, Publication(a) PROVE NoLostWake'
    BY <1>1, QuietPublication, QuietKeeps, Zenon DEF Publication
  <1>2. ASSUME NEW c \in CPUs, Resched(c) PROVE NoLostWake'
    BY <1>2, QuietResched, QuietKeeps, KeepBlocked, Zenon DEF Resched
  <1>3. ASSUME NEW c \in CPUs, Interrupt(c) PROVE NoLostWake'
    BY <1>3, QuietInterrupt, QuietKeeps, Zenon DEF Interrupt
  <1>4. ASSUME NEW c \in CPUs, RunTask(c) PROVE NoLostWake'
    BY <1>4, QuietRunTask, QuietKeeps, KeepPark, Zenon DEF RunTask
  <1>5. ASSUME NEW w \in Wakers, Waker(w) PROVE NoLostWake'
    BY <1>5, QuietWaker, QuietKeeps, KeepWake, KeepUnblock, Zenon DEF Waker
  <1>6. ASSUME NEW s \in Setters, Setter(s) PROVE NoLostWake'
    BY <1>6, QuietSetter, QuietKeeps, Zenon DEF Setter
  <1> QED BY <1>1, <1>2, <1>3, <1>4, <1>5, <1>6, Zenon DEF Next

LEMMA KeepStutter == NoLostWake /\ UNCHANGED vars => NoLostWake'
  BY DEF NoLostWake, vars, runVars, wakeVars, stackVars, callVars

LEMMA NoLostWakeInit == Init => NoLostWake
  BY ConstantsAssumption DEF Init, Boot, NoLostWake, Agents, AllTasks

(* park_task and KWaker::wake_by_ref never lose a wakeup: the latch cannot *)
(* be set between a sleeper's last look and its Blocked state, and a set   *)
(* latch next to a Blocked task always has a waker about to unblock it.    *)
THEOREM WakeupsKept == Spec => []NoLostWake
  <1>1. TypeInv /\ NoLostWake /\ [Next]_vars => NoLostWake'
    BY KeepNext, KeepStutter
  <1> QED BY <1>1, NoLostWakeInit, TypeInvariant, PTL DEF Spec
=============================================================================
