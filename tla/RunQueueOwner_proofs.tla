------------------------ MODULE RunQueueOwner_proofs ------------------------
(***************************************************************************)
(* The ownership invariant OwnerInv of RunQueueInvariant, as far as it can *)
(* be argued from the state alone.                                         *)
(*                                                                         *)
(* A step of RunQueue is either quiet (an agent moves on, and no task      *)
(* changes its place) or one of twelve steps that move one task from one   *)
(* place to another. Each is described here by what it changes, without    *)
(* the guards and data of the actions, and shown to keep OwnerInv.         *)
(* RunQueueSteps_proofs shows that every action is such a step.            *)
(***************************************************************************)
EXTENDS RunQueueInvariant, TLAPS

USE Zenon, SMT

\* No place of u is entered or left in this step.
SamePlaces(u) ==
    /\ \A c \in CPUs : u \in rq'[c] <=> u \in rq[c]
    /\ \A c \in CPUs : pc'[c] = "switch" /\ sched_curr'[c] = u <=>
                       pc[c] = "switch" /\ sched_curr[c] = u
    /\ \A a \in Agents : hand'[a] = u <=> hand[a] = u
    /\ \A h \in Helpers : carries'[h] = u <=> carries[h] = u
    /\ \A w \in Wakers : pc'[w] = "arm" /\ target'[w] = u <=> pc[w] = "arm" /\ target[w] = u
    /\ wake_flags'[u] <=> wake_flags[u]

\* A place that SiteAt admits is one of those Sited ranges over.
LEMMA SiteKnown ==
  ASSUME NEW k, NEW x, SiteAt(k, x)
  PROVE  k \in Kinds /\ x \in Agents \cup AllTasks
  BY DEF SiteAt, Kinds, Agents, AllTasks

\* A task whose places do not change stays in exactly one.
LEMMA StaysSited ==
  ASSUME NEW u \in AllTasks, Sited(u), SamePlaces(u), Active(u)' <=> Active(u)
  PROVE  Sited(u)'
  <1>1. PICK k, x : SiteAt(k, x) /\ Site(u, k, x) /\ (k # "none" <=> Active(u))
    BY Zenon DEF Sited
  <1>2. Site(u, k, x)'
    BY <1>1 DEF Site, SamePlaces
  <1>3. SiteAt(k, x)'
    BY <1>1 DEF SiteAt, Kinds
  <1> QED BY <1>1, <1>2, <1>3, SiteKnown DEF Sited

-----------------------------------------------------------------------------
(* The parts of TypeInv that the steps below refer to.                     *)

\* The program counters.
LEMMA PcTypes ==
  ASSUME TypeInv
  PROVE  /\ pc \in [Agents -> CpuPc \cup PublishPc \cup WakerPc \cup SetterPc]
         /\ \A c \in CPUs : pc[c] \in CpuPc \cup PublishPc
         /\ \A w \in Wakers : pc[w] \in WakerPc \cup PublishPc
         /\ \A s \in Setters : pc[s] \in SetterPc \cup PublishPc
  BY Zenon DEF TypeInv, TypeOK, AgentTypes

\* What the agents hold.
LEMMA HandTypes ==
  ASSUME TypeInv
  PROVE  /\ hand \in [Agents -> AllTasks \cup {None}]
         /\ dest \in [Agents -> CPUs \cup {None}]
         /\ after \in [Agents -> {"run", "loop", "pull", "pick", "idle", "verdict", None}]
         /\ target \in [Wakers \cup Setters -> Tasks \cup {None}]
  BY Zenon DEF TypeInv, TypeOK, AgentTypes

\* The stacks the CPUs are on.
LEMMA StackTypes ==
  ASSUME TypeInv
  PROVE  /\ curr \in [CPUs -> AllTasks \cup {Idle}]
         /\ prev \in [CPUs -> AllTasks \cup {Idle, None}]
  BY Zenon DEF TypeInv, TypeOK, CpuTypes

\* A CPU always runs something, its idle task at least.
LEMMA CurrNeverNone ==
  ASSUME TypeInv, NEW c \in CPUs
  PROVE  curr[c] # None
  <1>1. None # Idle
    BY ConstantsAssumption
  <1> QED BY SMT, <1>1, StackTypes, ConstantsAssumption DEF AllTasks

\* The run queues.
LEMMA QueueTypes ==
  ASSUME TypeInv
  PROVE  /\ rq \in [CPUs -> SUBSET AllTasks]
         /\ sched_curr \in [CPUs -> AllTasks \cup {Idle, None}]
  BY Zenon DEF TypeInv, TypeOK, CpuTypes

\* The fields of the tasks.
LEMMA TaskTypeFacts ==
  ASSUME TypeInv
  PROVE  /\ state \in [AllTasks -> TaskState]
         /\ on_cpu \in [AllTasks -> BOOLEAN]
         /\ cpu_id \in [AllTasks -> CPUs]
         /\ home_charged \in [AllTasks -> BOOLEAN]
         /\ wake_flags \in [AllTasks -> BOOLEAN]
         /\ prepared \in SUBSET Tasks
         /\ carries \in [Helpers -> Tasks \cup {None}]
  BY Zenon DEF TypeInv, TypeOK, TaskTypes

\* None and Idle are no tasks, and a migration task is no ordinary task.
LEMMA TaskNames ==
  /\ None \notin AllTasks /\ Idle \notin AllTasks
  /\ \A t \in Tasks : t \in AllTasks /\ t \notin Helpers
  /\ \A h \in Helpers : h \in AllTasks /\ h \notin Tasks
  BY ConstantsAssumption DEF AllTasks

\* CPUs, wakers and setters are different agents.
LEMMA AgentNames ==
  /\ \A c \in CPUs : c \in Agents /\ c \notin Wakers /\ c \notin Setters
  /\ \A w \in Wakers : w \in Agents /\ w \notin CPUs /\ w \notin Setters
  /\ \A s \in Setters : s \in Agents /\ s \notin CPUs /\ s \notin Wakers
  BY ConstantsAssumption DEF Agents

-----------------------------------------------------------------------------
(* Where a task is, and what it takes to move it.                          *)

\* A task that is seen in one place is Ready and in no other place; a task that
\* is not active is in none.
LEMMA Located ==
  ASSUME Ownership, NEW t \in AllTasks
  PROVE  /\ \A c \in CPUs : t \in rq[c] => Site(t, "queue", c) /\ Active(t)
         /\ \A c \in CPUs : pc[c] = "switch" /\ sched_curr[c] = t =>
                             Site(t, "pick", c) /\ Active(t)
         /\ \A a \in Agents : hand[a] = t => Site(t, "hand", a) /\ Active(t)
         /\ \A h \in Helpers : carries[h] = t => Site(t, "carry", h) /\ Active(t)
         /\ \A w \in Wakers : pc[w] = "arm" /\ target[w] = t => Site(t, "arm", w) /\ Active(t)
         /\ wake_flags[t] => Site(t, "flag", t) /\ Active(t)
         /\ ~Active(t) => Site(t, "none", t)
  <1>1. PICK k, x : SiteAt(k, x) /\ Site(t, k, x) /\ (k # "none" <=> Active(t))
    BY Zenon DEF Sited, Ownership
  <1> QED BY Zenon, <1>1 DEF Site

\* Moving one task to one place, or out of all of them, keeps Ownership.
LEMMA Relocated ==
  ASSUME Ownership, NEW t \in AllTasks, NEW k, NEW x,
         \A u \in AllTasks \ {t} : SamePlaces(u) /\ (Active(u)' <=> Active(u)),
         SiteAt(k, x), Site(t, k, x)', k # "none" <=> Active(t)'
  PROVE  Ownership'
  <1> SUFFICES ASSUME NEW u \in AllTasks PROVE Sited(u)'
    BY Zenon DEF Ownership
  <1>1. CASE u = t
    <2>1. SiteAt(k, x)'
      BY DEF SiteAt, Kinds
    <2> QED BY <1>1, <2>1, SiteKnown DEF Sited
  <1>2. CASE u # t
    BY <1>2, StaysSited DEF Ownership
  <1> QED BY <1>1, <1>2

\* Stacks speaks of what is running and its on_cpu bit only.
LEMMA StacksKept ==
  ASSUME Stacks, curr' = curr, on_cpu' = on_cpu, cpu_id' = cpu_id,
         \A c \in CPUs : pc'[c] = "clear" <=> pc[c] = "clear",
         \A c \in CPUs : pc[c] = "clear" => prev'[c] = prev[c],
         \A c \in CPUs : prev'[c] = prev[c] \/ prev'[c] # curr[c]
  PROVE  Stacks'
  BY SMT DEF Stacks

\* CarriedOff is kept by a step that carries nothing new and lets no CPU leave
\* the switch to a migration task.
LEMMA CarriedKept ==
  ASSUME TypeInv, CarriedOff, cpu_id' = cpu_id, on_cpu' = on_cpu, curr' = curr,
         \A h \in Helpers : carries'[h] = carries[h] \/ carries'[h] = None,
         \A c \in CPUs : pc[c] = "switch" => pc'[c] = "switch" /\ sched_curr'[c] = sched_curr[c],
         \A c \in CPUs : pc[c] = "clear" => pc'[c] = "clear" /\ prev'[c] = prev[c]
  PROVE  CarriedOff'
  <1>1. \A h \in Helpers : cpu_id[h] \in CPUs
    BY TaskTypeFacts, TaskNames
  <1> QED BY SMT, <1>1 DEF CarriedOff

\* Handshake is kept by a step that brings nobody to a claim and changes no
\* flag.
LEMMA HandshakeKept ==
  ASSUME Handshake, on_cpu' = on_cpu, wake_flags' = wake_flags,
         \A c \in CPUs : pc'[c] = "take" => pc[c] = "take" /\ prev'[c] = prev[c],
         \A w \in Wakers, k \in {"arm", "check", "claim"} :
            pc'[w] = k => pc[w] = k /\ target'[w] = target[w]
  PROVE  Handshake'
  BY SMT DEF Handshake

-----------------------------------------------------------------------------
(* Quiet steps: an agent moves on and no task changes its place.           *)

\* All that the tasks and the run queues record is unchanged.
SameTasks ==
    UNCHANGED <<state, on_cpu, cpu_id, home_charged, wake_flags, prepared, carries, rq, curr,
                hand>>

(* Agents may move, but none starts or stops to publish, to pick, to arm,  *)
(* to claim or to run a task.                                              *)
Quietly ==
    /\ SameTasks
    /\ \A a \in Agents : pc'[a] \in PublishPc <=> pc[a] \in PublishPc
    /\ \A c \in CPUs : pc'[c] = "switch" <=> pc[c] = "switch"
    /\ \A c \in CPUs : pc'[c] = "clear" <=> pc[c] = "clear"
    /\ \A c \in CPUs : pc'[c] = "take" => pc[c] = "take"
    /\ \A c \in CPUs : Executes(c)' => Executes(c)
    /\ \A c \in CPUs : pc[c] = "switch" => sched_curr'[c] = sched_curr[c]
    /\ \A c \in CPUs : pc'[c] \in PublishPc /\ after'[c] = "loop" => after[c] = "loop"
    /\ \A c \in CPUs : prev'[c] = prev[c] \/ (prev'[c] = None /\ pc[c] = "take")
    /\ \A w \in Wakers : pc'[w] = "arm" <=> pc[w] = "arm"
    /\ \A w \in Wakers : pc'[w] = "claim" => pc[w] = "claim"
    /\ \A w \in Wakers : pc'[w] = "check" => pc[w] = "check"
    /\ \A w \in Wakers : pc[w] = "arm" => target'[w] = target[w]
    /\ \A w \in Wakers : pc'[w] \in {"check", "claim"} => target'[w] = target[w]

\* A quiet step keeps the ownership invariant.
LEMMA QuietlyKeeps ==
  ASSUME TypeInv, OwnerInv, Quietly
  PROVE  OwnerInv'
  <1>0. Ownership /\ Hands /\ Owners /\ Stacks /\ RunsCurrent /\ CarriedOff /\ Handshake
    BY Zenon DEF OwnerInv
  <1>a. /\ state' = state /\ on_cpu' = on_cpu /\ cpu_id' = cpu_id /\ home_charged' = home_charged
        /\ wake_flags' = wake_flags /\ prepared' = prepared /\ carries' = carries
        /\ rq' = rq /\ curr' = curr /\ hand' = hand
    BY Zenon DEF Quietly, SameTasks
  <1>1. Ownership'
    <2> SUFFICES ASSUME NEW u \in AllTasks PROVE Sited(u)'
      BY Zenon DEF Ownership
    <2>1. SamePlaces(u)
      BY Zenon, <1>a DEF Quietly, SamePlaces
    <2>2. Active(u)' <=> Active(u)
      BY <1>a DEF Active
    <2> QED BY <1>0, <2>1, <2>2, StaysSited DEF Ownership
  <1>2. Hands'
    <2>1. \A a \in Agents : pc'[a] \notin PublishPc => hand'[a] = None
      BY SMT, <1>0, <1>a DEF Hands, Quietly
    <2>2. \A c \in CPUs : pc'[c] \in PublishPc /\ after'[c] = "loop" =>
                          curr'[c] \in Helpers /\ carries'[curr'[c]] = None
      BY SMT, <1>0, <1>a DEF Hands, Quietly, Agents
    <2> QED BY <1>0, <1>a, <2>1, <2>2 DEF Hands
  <1>3. Stacks'
    <2>1. \A c \in CPUs : curr[c] # None
      BY CurrNeverNone
    <2> QED BY <1>0, <1>a, <2>1, StacksKept DEF Quietly
  <1>4. Owners'
    BY SMT, <1>0, <1>a DEF Owners, Quietly
  <1>5. RunsCurrent'
    BY SMT, <1>0, <1>a DEF RunsCurrent, Quietly
  <1>7. CarriedOff'
    BY <1>0, <1>a, CarriedKept DEF Quietly
  <1>8. Handshake'
    <2>1. None \notin AllTasks
      BY ConstantsAssumption DEF AllTasks
    <2>2. \A v, w \in Wakers : pc'[v] \in {"check", "claim"} /\ pc'[w] = "arm" =>
                               target'[v] # target'[w]
      BY SMT, <1>0 DEF Handshake, Quietly
    <2>3. \A w \in Wakers : pc'[w] = "claim" /\ wake_flags'[target'[w]] => ~on_cpu'[target'[w]]
      BY SMT, <1>0, <1>a DEF Handshake, Quietly
    <2>4. ASSUME NEW c \in CPUs, NEW t \in AllTasks, pc'[c] = "take", prev'[c] = t,
                 wake_flags'[t] \/ \E w \in Wakers : pc'[w] = "arm" /\ target'[w] = t
          PROVE  ~on_cpu'[t]
      BY SMT, <1>0, <1>a, <2>1, <2>4 DEF Handshake, Quietly
    <2> QED BY <2>2, <2>3, <2>4 DEF Handshake
  <1> QED BY <1>1, <1>2, <1>3, <1>4, <1>5, <1>7, <1>8 DEF OwnerInv

\* A step that changes nothing it speaks of is quiet.
LEMMA StillQuiet ==
  ASSUME SameTasks, UNCHANGED <<pc, after, sched_curr, prev, target>>
  PROVE  Quietly
  BY DEF Quietly, Executes

\* A publisher that goes on to another step of its publication is quiet.
LEMMA PublisherQuiet ==
  ASSUME TypeInv, SameTasks, UNCHANGED <<sched_curr, prev, target>>,
         NEW a \in Agents, NEW k \in PublishPc,
         pc[a] \in PublishPc, pc' = [pc EXCEPT ![a] = k],
         after' = after \/ \E j \in {after[a], "pull"} : after' = [after EXCEPT ![a] = j]
  PROVE  Quietly
  <1>1. /\ pc'[a] = k /\ \A b \in Agents : b # a => pc'[b] = pc[b]
        /\ after'[a] \in {after[a], "pull"} /\ \A b \in Agents : b # a => after'[b] = after[b]
    BY PcTypes, HandTypes
  <1>2. \A b \in Agents : pc'[b] \in PublishPc <=> pc[b] \in PublishPc
    BY <1>1
  <1>3. \A b \in Agents, l \in CpuPc \cup WakerPc : pc'[b] = l <=> pc[b] = l
    BY <1>1 DEF CpuPc, WakerPc, PublishPc
  <1>4. \A c \in CPUs : Executes(c)' => Executes(c)
    BY SMT, <1>1, <1>2, <1>3, AgentNames DEF Executes, CpuPc
  <1>5. \A c \in CPUs : after'[c] = "loop" => after[c] = "loop"
    BY <1>1, AgentNames
  <1> QED BY <1>2, <1>3, <1>4, <1>5, AgentNames DEF Quietly, CpuPc, WakerPc

\* So is a CPU that goes from one step of its own to another that runs the same
\* task.
LEMMA CpuQuiet ==
  ASSUME TypeInv, SameTasks, target' = target, NEW c \in CPUs,
         pc[c] \in {"run", "halt", "leave", "pull", "steal", "take"},
         pc'[c] \in {"run", "halt", "leave", "block", "pull", "steal", "pick"},
         pc'[c] \in {"run", "halt", "leave", "block"} => pc[c] \in {"run", "halt", "take"},
         Writes(pc', pc, c), Writes(after', after, c), Writes(sched_curr', sched_curr, c),
         prev' = prev \/ (pc[c] = "take" /\ prev' = [prev EXCEPT ![c] = None])
  PROVE  Quietly
  <1>1. /\ \A b \in Agents : b # c => pc'[b] = pc[b] /\ after'[b] = after[b]
        /\ \A d \in CPUs : d # c => sched_curr'[d] = sched_curr[d]
    BY PcTypes, HandTypes, QueueTypes, AgentNames DEF Writes
  <1>2. \A d \in CPUs : prev'[d] = prev[d] \/ (prev'[d] = None /\ pc[d] = "take")
    BY StackTypes
  <1>3. \A b \in Agents : pc'[b] \in PublishPc <=> pc[b] \in PublishPc
    BY <1>1 DEF PublishPc
  <1>4. /\ \A d \in CPUs, l \in {"switch", "clear"} : pc'[d] = l <=> pc[d] = l
        /\ \A d \in CPUs : pc'[d] = "take" => pc[d] = "take"
        /\ \A d \in CPUs : pc'[d] \in PublishPc \cup {"switch"} => d # c
        /\ \A w \in Wakers : pc'[w] = pc[w]
    BY <1>1, AgentNames DEF PublishPc
  <1>5. \A d \in CPUs : Executes(d)' => Executes(d)
    BY <1>1, <1>4, AgentNames DEF Executes
  <1> QED BY <1>1, <1>2, <1>3, <1>4, <1>5, AgentNames DEF Quietly

\* So is a waker or a setter that neither arms nor claims.
LEMMA CallQuiet ==
  ASSUME TypeInv, SameTasks, UNCHANGED <<sched_curr, prev>>,
         NEW a \in Wakers \cup Setters, NEW k,
         pc[a] \notin PublishPc \cup {"arm"}, pc' = [pc EXCEPT ![a] = k],
         k \notin PublishPc \cup {"arm", "check", "claim"},
         Writes(after', after, a), Writes(target', target, a)
  PROVE  Quietly
  <1>1. a \in Agents /\ a \notin CPUs
    BY AgentNames
  <1>2. /\ pc'[a] = k /\ \A b \in Agents : b # a => pc'[b] = pc[b] /\ after'[b] = after[b]
        /\ \A w \in Wakers : w # a => target'[w] = target[w]
    BY <1>1, PcTypes, HandTypes DEF Writes
  <1>3. \A d \in CPUs : pc'[d] = pc[d] /\ after'[d] = after[d]
    BY <1>1, <1>2, AgentNames
  <1>4. \A b \in Agents : pc'[b] \in PublishPc <=> pc[b] \in PublishPc
    BY <1>2
  <1>5. /\ \A w \in Wakers : pc'[w] = "arm" <=> pc[w] = "arm"
        /\ \A w \in Wakers, l \in {"check", "claim"} : pc'[w] = l => w # a /\ pc[w] = l
        /\ \A w \in Wakers : pc[w] = "arm" => w # a
    BY <1>2, AgentNames
  <1>6. \A d \in CPUs : Executes(d)' => Executes(d)
    BY <1>3 DEF Executes
  <1> QED BY <1>2, <1>3, <1>4, <1>5, <1>6, AgentNames DEF Quietly

-----------------------------------------------------------------------------
(* The steps that move a task: twelve of them, each described by what it   *)
(* does to the places of a task, and shown to keep the ownership           *)
(* invariant.                                                              *)

\* No other agent moves.
OthersKeep(a) ==
    \A b \in Agents : b # a => pc'[b] = pc[b] /\ hand'[b] = hand[b] /\ after'[b] = after[b]

(* Agent a takes t, which is Ready, out of the place it is in and into its *)
(* hands, to publish it: add_task, steal_ready_for_idle_pull,              *)
(* HelperSelect, clear_prev_task_on_cpu, take_wake_enqueue and             *)
(* dequeue_ready_task_waiting_off_cpu.                                     *)
Takes(a, t) ==
    /\ UNCHANGED <<state, on_cpu, cpu_id, home_charged, sched_curr, curr, target>>
    /\ state[t] = "Ready" /\ ~on_cpu[t]
    /\ \A b \in Agents : hand[b] # t
    /\ \A c \in CPUs : ~(pc[c] = "switch" /\ sched_curr[c] = t)
    /\ \A w \in Wakers : ~(pc[w] = "arm" /\ target[w] = t)
    /\ pc[a] \notin PublishPc \cup {"switch", "clear", "arm"}
    /\ pc'[a] \in {"publish", "migrate"} /\ hand'[a] = t
    /\ OthersKeep(a)
    /\ a \in CPUs /\ after'[a] \in {"run", "loop"} => pc[a] \in {"run", "take"}
    /\ a \in CPUs /\ after'[a] = "loop" => curr[a] \in Helpers /\ carries'[curr[a]] = None
    /\ \A u : u \in prepared' <=> u \in prepared /\ u # t
    /\ \A u \in AllTasks, c \in CPUs : u \in rq'[c] <=> u \in rq[c] /\ u # t
    /\ \A h \in Helpers : carries'[h] = IF carries[h] = t THEN None ELSE carries[h]
    /\ \A u \in AllTasks : wake_flags'[u] <=> wake_flags[u] /\ u # t
    /\ \A c \in CPUs : prev'[c] = prev[c] \/ (c = a /\ prev'[c] = None)

\* The ownership invariant survives taking a task in hand.
LEMMA TakesKeeps ==
  ASSUME TypeInv, OwnerInv, NEW a \in Agents, NEW t \in AllTasks, Takes(a, t)
  PROVE  OwnerInv'
  <1>0. Ownership /\ Hands /\ Owners /\ Stacks /\ RunsCurrent /\ CarriedOff /\ Handshake
    BY Zenon DEF OwnerInv
  <1>a. /\ UNCHANGED <<state, on_cpu, cpu_id, home_charged, sched_curr, curr, target>>
        /\ state[t] = "Ready" /\ ~on_cpu[t]
    BY Zenon DEF Takes
  <1>b. /\ \A b \in Agents : hand[b] # t
        /\ \A c \in CPUs : ~(pc[c] = "switch" /\ sched_curr[c] = t)
        /\ \A w \in Wakers : ~(pc[w] = "arm" /\ target[w] = t)
    BY Zenon DEF Takes
  <1>c. /\ pc[a] \notin PublishPc \cup {"switch", "clear", "arm"}
        /\ pc'[a] \in {"publish", "migrate"}
        /\ \A b \in Agents : b # a => pc'[b] = pc[b] /\ after'[b] = after[b]
    BY Zenon DEF Takes, OthersKeep
  <1>d. /\ hand'[a] = t
        /\ \A b \in Agents : b # a => hand'[b] = hand[b]
    BY Zenon DEF Takes, OthersKeep
  <1>e. /\ a \in CPUs /\ after'[a] \in {"run", "loop"} => pc[a] \in {"run", "take"}
        /\ a \in CPUs /\ after'[a] = "loop" => curr[a] \in Helpers /\ carries'[curr[a]] = None
    BY Zenon DEF Takes
  <1>f. \A u : u \in prepared' <=> u \in prepared /\ u # t
    BY Zenon DEF Takes
  <1>g. \A u \in AllTasks, c \in CPUs : u \in rq'[c] <=> u \in rq[c] /\ u # t
    BY Zenon DEF Takes
  <1>h. \A h \in Helpers : carries'[h] = IF carries[h] = t THEN None ELSE carries[h]
    BY Zenon DEF Takes
  <1>i. \A u \in AllTasks : wake_flags'[u] <=> wake_flags[u] /\ u # t
    BY Zenon DEF Takes
  <1>j. \A c \in CPUs : prev'[c] = prev[c] \/ (c = a /\ prev'[c] = None)
    BY Zenon DEF Takes
  <1>k. /\ \A c \in CPUs, k \in {"switch", "clear"} : pc'[c] = k <=> pc[c] = k
        /\ \A c \in CPUs : pc'[c] = "take" => pc[c] = "take" /\ c # a
        /\ \A w \in Wakers : pc'[w] = "arm" <=> pc[w] = "arm"
        /\ \A w \in Wakers, k \in {"check", "claim"} : pc'[w] = k => pc[w] = k
    BY Zenon, <1>c, AgentNames
  <1>l. hand[a] = None
    BY <1>0, <1>c DEF Hands
  <1>1. Ownership'
    <2>1. Site(t, "hand", a)'
      <3>1. \A h \in Helpers : carries'[h] # t
        BY <1>h, TaskNames
      <3> QED BY <1>a, <1>b, <1>d, <1>g, <1>i, <1>k, <3>1 DEF Site
    <2>2. SiteAt("hand", a)
      BY DEF SiteAt, Kinds
    <2>3. Active(t)' /\ \A u \in AllTasks \ {t} : Active(u)' <=> Active(u)
      BY <1>a, <1>f DEF Active
    <2>4. \A u \in AllTasks \ {t} : SamePlaces(u)
      <3>1. \A u \in AllTasks \ {t}, b \in Agents : hand'[b] = u <=> hand[b] = u
        BY <1>d, <1>l, TaskNames
      <3>2. \A u \in AllTasks \ {t}, h \in Helpers : carries'[h] = u <=> carries[h] = u
        BY <1>h, TaskNames
      <3> QED BY SMT, <1>a, <1>g, <1>i, <1>k, <3>1, <3>2 DEF SamePlaces
    <2> QED BY <1>0, <2>1, <2>2, <2>3, <2>4, Relocated
  <1>2. Hands'
    <2>1. \A h \in Helpers : carries[h] = None => carries'[h] = None
      BY <1>h
    <2>2. \A b \in Agents : pc'[b] \notin PublishPc => hand'[b] = None
      BY Zenon, <1>0, <1>c, <1>d DEF Hands, PublishPc
    <2>3. \A c \in CPUs : pc'[c] \in PublishPc /\ after'[c] = "loop" =>
                          curr'[c] \in Helpers /\ carries'[curr'[c]] = None
      BY Zenon, <1>0, <1>a, <1>c, <1>e, <2>1, AgentNames DEF Hands
    <2> QED BY Zenon, <1>0, <1>a, <1>f, <2>1, <2>2, <2>3 DEF Hands
  <1>3. Owners'
    BY SMT, <1>0, <1>a, <1>d, <1>g, <1>k DEF Owners
  <1>4. Stacks'
    <2>1. \A c \in CPUs : pc[c] = "clear" => prev'[c] = prev[c]
      BY <1>c, <1>j
    <2>2. \A c \in CPUs : curr[c] # None
      BY CurrNeverNone
    <2> QED BY <1>0, <1>a, <1>j, <1>k, <2>1, <2>2, StacksKept
  <1>5. RunsCurrent'
    <2>1. \A c \in CPUs : Executes(c)' => Executes(c)
      BY Zenon, <1>c, <1>e, AgentNames DEF Executes, PublishPc
    <2> QED BY <1>0, <1>a, <2>1 DEF RunsCurrent
  <1>6. CarriedOff'
    <2>1. \A h \in Helpers : carries'[h] = carries[h] \/ carries'[h] = None
      BY <1>h
    <2>2. \A c \in CPUs : pc[c] = "clear" => prev'[c] = prev[c]
      BY <1>c, <1>j
    <2> QED BY <1>0, <1>a, <1>k, <2>1, <2>2, CarriedKept
  <1>7. Handshake'
    <2>1. \A w \in Wakers : pc[w] = "claim" => target[w] \in AllTasks
      BY TaskNames DEF TypeInv, CallControl, WakerPc
    <2>2. \A w \in Wakers : pc'[w] = "claim" /\ wake_flags'[target'[w]] => ~on_cpu'[target'[w]]
      BY SMT, <1>0, <1>a, <1>i, <1>k, <2>1 DEF Handshake
    <2>3. \A c \in CPUs : pc'[c] = "take" => prev'[c] = prev[c]
      BY <1>j, <1>k
    <2> QED BY SMT, <1>0, <1>a, <1>i, <1>k, <2>2, <2>3 DEF Handshake
  <1> QED BY <1>1, <1>2, <1>3, <1>4, <1>5, <1>6, <1>7 DEF OwnerInv

\* Agent a puts the task t it holds on the run queue of d (enqueue).
Publishes(a, t, d) ==
    /\ UNCHANGED <<state, on_cpu, wake_flags, prepared, carries, sched_curr, curr, prev>>
    /\ pc[a] = "commit" /\ hand[a] = t /\ hand'[a] = None
    /\ pc'[a] \in {"run", "pull", "pick", "idle", "verdict"}
    /\ pc'[a] = "run" => after[a] \in {"run", "loop"}
    /\ OthersKeep(a)
    /\ \A w \in Wakers : w # a => target'[w] = target[w]
    /\ \A u \in AllTasks, c \in CPUs : u \in rq'[c] <=> u \in rq[c] \/ (u = t /\ c = d)
    /\ \A u \in AllTasks : cpu_id'[u] = IF u = t THEN d ELSE cpu_id[u]
    /\ \A u \in AllTasks : home_charged'[u] <=> home_charged[u] \/ u = t

\* The ownership invariant survives publishing a task.
LEMMA PublishesKeeps ==
  ASSUME TypeInv, OwnerInv, NEW a \in Agents, NEW t \in AllTasks, NEW d \in CPUs,
         Publishes(a, t, d)
  PROVE  OwnerInv'
  <1>0. Ownership /\ Hands /\ Owners /\ Stacks /\ RunsCurrent /\ CarriedOff /\ Handshake
    BY Zenon DEF OwnerInv
  <1>a. pc[a] = "commit" /\ hand[a] = t
    BY Zenon DEF Publishes
  <1>b. Site(t, "hand", a) /\ Active(t) /\ ~on_cpu[t]
    BY <1>0, <1>a, Located DEF Owners
  <1>c. UNCHANGED <<state, on_cpu, wake_flags, prepared, carries, sched_curr, curr, prev>>
    BY Zenon DEF Publishes
  <1>d. /\ pc'[a] \in {"run", "pull", "pick", "idle", "verdict"}
        /\ pc'[a] = "run" => after[a] \in {"run", "loop"}
        /\ \A b \in Agents : b # a => pc'[b] = pc[b] /\ after'[b] = after[b]
    BY Zenon DEF Publishes, OthersKeep
  <1>e. /\ hand'[a] = None
        /\ \A b \in Agents : b # a => hand'[b] = hand[b]
    BY Zenon DEF Publishes, OthersKeep
  <1>f. \A u \in AllTasks, c \in CPUs : u \in rq'[c] <=> u \in rq[c] \/ (u = t /\ c = d)
    BY Zenon DEF Publishes
  <1>g. \A u \in AllTasks : cpu_id'[u] = IF u = t THEN d ELSE cpu_id[u]
    BY Zenon DEF Publishes
  <1>h. \A u \in AllTasks : home_charged'[u] <=> home_charged[u] \/ u = t
    BY Zenon DEF Publishes
  <1>i. \A u \in AllTasks, b \in Agents : hand'[b] = u <=> hand[b] = u /\ b # a
    BY <1>e, TaskNames
  <1>k. \A c \in CPUs, k \in {"switch", "clear", "take"} : pc'[c] = k <=> pc[c] = k
    BY SMT, <1>a, <1>d, AgentNames
  <1>l. /\ \A w \in Wakers, k \in {"arm", "check", "claim"} : pc'[w] = k <=> pc[w] = k
        /\ \A w \in Wakers : pc'[w] \in {"arm", "check", "claim"} => target'[w] = target[w]
    <2>1. \A w \in Wakers : w # a => target'[w] = target[w]
      BY Zenon DEF Publishes
    <2> QED BY Zenon, <1>a, <1>d, <2>1, AgentNames
  <1>1. Ownership'
    <2>1. Site(t, "queue", d)'
      BY SMT, <1>b, <1>c, <1>f, <1>i, <1>k, <1>l DEF Site
    <2>2. SiteAt("queue", d)
      BY DEF SiteAt, Kinds
    <2>3. Active(t)' /\ \A u \in AllTasks : Active(u)' <=> Active(u)
      BY <1>b, <1>c DEF Active
    <2>4. \A u \in AllTasks \ {t} : SamePlaces(u)
      BY SMT, <1>a, <1>c, <1>f, <1>i, <1>k, <1>l DEF SamePlaces
    <2> QED BY <1>0, <2>1, <2>2, <2>3, <2>4, Relocated
  <1>2. Hands'
    <2>1. \A h \in Helpers : state[h] = "Exited" => ~home_charged'[h]
      BY <1>0, <1>b, <1>h, TaskNames DEF Hands, Active
    <2> QED BY SMT, <1>0, <1>c, <1>d, <1>e, <2>1, AgentNames DEF Hands, PublishPc
  <1>3. Owners'
    BY SMT, <1>0, <1>b, <1>c, <1>f, <1>g, <1>i, <1>k DEF Owners, Site
  <1>4. Stacks'
    BY SMT, <1>0, <1>b, <1>c, <1>g, <1>k DEF Stacks
  <1>5. RunsCurrent'
    <2>1. \A c \in CPUs : Executes(c)' => Executes(c)
      BY SMT, <1>a, <1>d, AgentNames DEF Executes, PublishPc
    <2> QED BY <1>0, <1>c, <2>1 DEF RunsCurrent
  <1>6. CarriedOff'
    <2>1. ~\E c \in CPUs : pc[c] = "switch" /\ sched_curr[c] = t
      BY <1>b DEF Site
    <2>2. ~\E c \in CPUs : pc[c] = "clear" /\ curr[c] = t
      BY <1>0, <1>b DEF RunsCurrent, Executes, Active
    <2> QED BY SMT, <1>0, <1>c, <1>g, <1>k, <2>1, <2>2, TaskNames,
              TaskTypeFacts DEF CarriedOff
  <1>7. Handshake'
    BY <1>0, <1>c, <1>k, <1>l, HandshakeKept
  <1> QED BY <1>1, <1>2, <1>3, <1>4, <1>5, <1>6, <1>7 DEF OwnerInv

(* The migration task h gets the task t back that the mask of its target   *)
(* refused (RejectTask).                                                   *)
PutsBack(c, t, h) ==
    /\ UNCHANGED <<state, on_cpu, cpu_id, home_charged, wake_flags, prepared, rq, sched_curr,
                   curr, prev, target>>
    /\ pc[c] = "publish" /\ after[c] = "loop" /\ hand[c] = t /\ curr[c] = h
    /\ pc'[c] = "run" /\ hand'[c] = None
    /\ OthersKeep(c)
    /\ \A g \in Helpers : carries'[g] = IF g = h THEN t ELSE carries[g]

\* The ownership invariant survives a refused publication.
LEMMA PutsBackKeeps ==
  ASSUME TypeInv, OwnerInv, NEW c \in CPUs, NEW t \in AllTasks, NEW h \in Helpers,
         PutsBack(c, t, h)
  PROVE  OwnerInv'
  <1>0. Ownership /\ Hands /\ Owners /\ Stacks /\ RunsCurrent /\ CarriedOff /\ Handshake
    BY Zenon DEF OwnerInv
  <1>a. pc[c] = "publish" /\ after[c] = "loop" /\ hand[c] = t /\ curr[c] = h
    BY Zenon DEF PutsBack
  <1>b. carries[h] = None /\ c \in Agents
    BY <1>0, <1>a, AgentNames DEF Hands, PublishPc
  <1>c. Site(t, "hand", c) /\ Active(t) /\ ~on_cpu[t]
    BY <1>0, <1>a, <1>b, Located DEF Owners
  <1>d. UNCHANGED <<state, on_cpu, cpu_id, home_charged, wake_flags, prepared, rq, sched_curr,
                    curr, prev, target>>
    BY Zenon DEF PutsBack
  <1>e. /\ pc'[c] = "run"
        /\ \A b \in Agents : b # c => pc'[b] = pc[b] /\ after'[b] = after[b]
    BY Zenon DEF PutsBack, OthersKeep
  <1>f. /\ hand'[c] = None
        /\ \A b \in Agents : b # c => hand'[b] = hand[b]
    BY Zenon DEF PutsBack, OthersKeep
  <1>g. \A u \in AllTasks, b \in Agents : hand'[b] = u <=> hand[b] = u /\ b # c
    BY <1>f, TaskNames
  <1>h. \A g \in Helpers : carries'[g] = IF g = h THEN t ELSE carries[g]
    BY Zenon DEF PutsBack
  <1>i. /\ \A d \in CPUs, k \in {"switch", "clear", "take"} : pc'[d] = k <=> pc[d] = k
        /\ \A w \in Wakers : pc'[w] = pc[w]
    BY <1>a, <1>e, AgentNames
  <1>1. Ownership'
    <2>1. Site(t, "carry", h)'
      BY SMT, <1>c, <1>d, <1>g, <1>h, <1>i DEF Site
    <2>2. SiteAt("carry", h)
      BY DEF SiteAt, Kinds
    <2>3. Active(t)' /\ \A u \in AllTasks : Active(u)' <=> Active(u)
      BY <1>c, <1>d DEF Active
    <2>4. \A u \in AllTasks \ {t} : SamePlaces(u)
      BY SMT, <1>a, <1>b, <1>d, <1>g, <1>h, <1>i, TaskNames DEF SamePlaces
    <2> QED BY <1>0, <2>1, <2>2, <2>3, <2>4, Relocated
  <1>2. Hands'
    <2>1. state[h] = "Running"
      BY <1>0, <1>a, TaskNames DEF RunsCurrent, Executes, PublishPc
    <2>2. \A e \in CPUs : curr[e] = h => e = c
      BY SMT, <1>0, <1>a, TaskNames DEF Stacks
    <2> QED BY SMT, <1>0, <1>a, <1>d, <1>e, <1>f, <1>h, <2>1, <2>2, AgentNames
              DEF Hands, PublishPc
  <1>3. Owners'
    BY SMT, <1>0, <1>d, <1>g, <1>i DEF Owners
  <1>4. Stacks'
    BY <1>0, <1>d, <1>i, StacksKept
  <1>5. RunsCurrent'
    <2>1. \A e \in CPUs : Executes(e)' => Executes(e)
      BY Zenon, <1>a, <1>e, AgentNames DEF Executes, PublishPc
    <2> QED BY <1>0, <1>d, <2>1 DEF RunsCurrent
  <1>6. CarriedOff'
    BY SMT, <1>0, <1>c, <1>d, <1>h, <1>i, TaskNames, TaskTypeFacts DEF CarriedOff
  <1>7. Handshake'
    BY <1>0, <1>d, <1>i, HandshakeKept
  <1> QED BY <1>1, <1>2, <1>3, <1>4, <1>5, <1>6, <1>7 DEF OwnerInv

(* CPU c leaves t, which becomes s: back to the run queue (Ready), asleep  *)
(* or gone (leave_and_publish, blocked_resched, exit_current).             *)
Leaves(c, t, s) ==
    /\ UNCHANGED <<on_cpu, cpu_id, wake_flags, prepared, carries, curr, prev, hand, target>>
    /\ curr[c] = t /\ s \in {"Ready", "Blocked", "Exited"}
    /\ pc[c] \in {"run", "leave", "block"} /\ pc'[c] \in {"pull", "pick"}
    /\ OthersKeep(c)
    /\ \A d \in CPUs : d # c => sched_curr'[d] = sched_curr[d]
    /\ \A u \in AllTasks : state'[u] = IF u = t THEN s ELSE state[u]
    /\ \A u \in AllTasks, d \in CPUs :
          u \in rq'[d] <=> u \in rq[d] \/ (s = "Ready" /\ u = t /\ d = c)
    /\ \A u \in AllTasks : home_charged'[u] <=> home_charged[u] /\ (u # t \/ s # "Exited")
    /\ s = "Exited" /\ t \in Helpers => carries[t] = None

\* The ownership invariant survives leaving a task.
LEMMA LeavesKeeps ==
  ASSUME TypeInv, OwnerInv, NEW c \in CPUs, NEW t \in AllTasks, NEW s, Leaves(c, t, s)
  PROVE  OwnerInv'
  <1>0. Ownership /\ Hands /\ Owners /\ Stacks /\ RunsCurrent /\ CarriedOff /\ Handshake
    BY Zenon DEF OwnerInv
  <1>a. /\ curr[c] = t /\ s \in {"Ready", "Blocked", "Exited"}
        /\ pc[c] \in {"run", "leave", "block"} /\ pc'[c] \in {"pull", "pick"}
    BY Zenon DEF Leaves
  <1>b. state[t] = "Running" /\ t \notin prepared
    BY SMT, <1>0, <1>a DEF RunsCurrent, Executes, Hands
  <1>c. Site(t, "none", t) /\ cpu_id[t] = c /\ on_cpu[t]
    BY <1>0, <1>a, <1>b, Located DEF Active, Stacks
  <1>d. UNCHANGED <<on_cpu, cpu_id, wake_flags, prepared, carries, curr, prev, hand, target>>
    BY Zenon DEF Leaves
  <1>e. \A b \in Agents : b # c => pc'[b] = pc[b] /\ after'[b] = after[b]
    BY Zenon DEF Leaves, OthersKeep
  <1>f. \A u \in AllTasks : state'[u] = IF u = t THEN s ELSE state[u]
    BY Zenon DEF Leaves
  <1>g. \A u \in AllTasks, d \in CPUs :
           u \in rq'[d] <=> u \in rq[d] \/ (s = "Ready" /\ u = t /\ d = c)
    BY Zenon DEF Leaves
  <1>h. \A d \in CPUs : d # c => sched_curr'[d] = sched_curr[d]
    BY Zenon DEF Leaves
  <1>i. /\ \A d \in CPUs, k \in {"switch", "clear", "take"} : pc'[d] = k <=> pc[d] = k
        /\ \A w \in Wakers : pc'[w] = pc[w]
    BY Zenon, <1>a, <1>e, AgentNames
  <1>j. \A d \in CPUs : pc'[d] = "switch" => d # c /\ sched_curr'[d] = sched_curr[d]
    BY <1>a, <1>h
  <1>1. Ownership'
    <2>1. \A u \in AllTasks \ {t} : Active(u)' <=> Active(u)
      BY <1>d, <1>f DEF Active
    <2>2. \A u \in AllTasks \ {t} : SamePlaces(u)
      BY Zenon, <1>d, <1>g, <1>i, <1>j DEF SamePlaces
    <2>3. CASE s = "Ready"
      <3>1. Site(t, "queue", c)'
        BY SMT, <1>c, <1>d, <1>g, <1>i, <1>j, <2>3 DEF Site
      <3>2. SiteAt("queue", c)
        BY DEF SiteAt, Kinds
      <3>3. Active(t)'
        BY <1>b, <1>d, <1>f, <2>3 DEF Active
      <3> QED BY <1>0, <2>1, <2>2, <3>1, <3>2, <3>3, Relocated
    <2>4. CASE s # "Ready"
      <3>1. Site(t, "none", t)'
        BY SMT, <1>c, <1>d, <1>g, <1>i, <1>j, <2>4 DEF Site
      <3>2. SiteAt("none", t)
        BY DEF SiteAt, Kinds
      <3>3. ~Active(t)'
        BY <1>f, <2>4 DEF Active
      <3> QED BY <1>0, <2>1, <2>2, <3>1, <3>2, <3>3, Relocated
    <2> QED BY <2>3, <2>4
  <1>2. Hands'
    <2>1. \A a \in Agents : pc'[a] \in PublishPc <=> pc[a] \in PublishPc
      BY SMT, <1>a, <1>e DEF PublishPc
    <2>2. \A d \in CPUs : pc'[d] \in PublishPc => d # c
      BY SMT, <1>a DEF PublishPc
    <2>3. /\ \A u \in AllTasks : home_charged'[u] <=> home_charged[u] /\ (u # t \/ s # "Exited")
          /\ s = "Exited" /\ t \in Helpers => carries[t] = None
      BY Zenon DEF Leaves
    <2>4. \A h \in Helpers : state'[h] = "Exited" => carries'[h] = None /\ ~home_charged'[h]
      BY SMT, <1>0, <1>d, <1>f, <2>3, TaskNames DEF Hands
    <2>5. \A u \in prepared' : state'[u] = "Ready" /\ ~on_cpu'[u]
      <3>1. \A u \in prepared : u \in AllTasks
        BY TaskTypeFacts, TaskNames
      <3> QED BY <1>0, <1>b, <1>d, <1>f, <3>1 DEF Hands
    <2> QED BY SMT, <1>0, <1>d, <1>e, <2>1, <2>2, <2>4, <2>5, AgentNames DEF Hands
  <1>3. Owners'
    BY SMT, <1>0, <1>c, <1>d, <1>g, <1>i, <1>j DEF Owners
  <1>4. Stacks'
    BY <1>0, <1>d, <1>i, StacksKept
  <1>5. RunsCurrent'
    <2>1. \A d \in CPUs : curr[d] = t => d = c
      BY SMT, <1>0, <1>c DEF Stacks
    <2>2. \A d \in CPUs : Executes(d)' => Executes(d) /\ d # c
      BY SMT, <1>a, <1>e, AgentNames DEF Executes, PublishPc
    <2>3. \A d \in CPUs : d # c /\ curr[d] \in AllTasks => state'[curr[d]] = state[curr[d]]
      BY <1>f, <2>1
    <2> QED BY <1>0, <1>d, <2>2, <2>3 DEF RunsCurrent
  <1>6. CarriedOff'
    BY <1>0, <1>d, <1>i, <1>j, CarriedKept
  <1>7. Handshake'
    BY <1>0, <1>d, <1>i, HandshakeKept
  <1> QED BY <1>1, <1>2, <1>3, <1>4, <1>5, <1>6, <1>7 DEF OwnerInv

\* CPU c leaves t, which its migration task h carries off (migrate_current).
Migrates(c, t, h) ==
    /\ UNCHANGED <<on_cpu, home_charged, wake_flags, prepared, rq, curr, prev, hand, after,
                   target>>
    /\ pc[c] = "run" /\ curr[c] = t /\ state[h] = "Exited" /\ ~on_cpu[h]
    /\ pc'[c] = "switch" /\ sched_curr'[c] = h
    /\ \A b \in Agents : b # c => pc'[b] = pc[b]
    /\ \A d \in CPUs : d # c => sched_curr'[d] = sched_curr[d]
    /\ \A u \in AllTasks : state'[u] = IF u \in {t, h} THEN "Ready" ELSE state[u]
    /\ \A g \in Helpers : carries'[g] = IF g = h THEN t ELSE carries[g]
    /\ \A u \in AllTasks : cpu_id'[u] = IF u = h THEN c ELSE cpu_id[u]

\* The ownership invariant survives handing a task to its migration task.
LEMMA MigratesKeeps ==
  ASSUME TypeInv, OwnerInv, NEW c \in CPUs, NEW t \in Tasks, NEW h \in Helpers,
         Migrates(c, t, h)
  PROVE  OwnerInv'
  <1>0. Ownership /\ Hands /\ Owners /\ Stacks /\ RunsCurrent /\ CarriedOff /\ Handshake
    BY Zenon DEF OwnerInv
  <1>a. pc[c] = "run" /\ curr[c] = t
    BY Zenon DEF Migrates
  <1>b. state[t] = "Running" /\ t \notin prepared /\ t \in AllTasks
    BY <1>0, <1>a, TaskNames DEF RunsCurrent, Executes, Hands
  <1>c. Site(t, "none", t) /\ cpu_id[t] = c /\ on_cpu[t]
    BY <1>0, <1>a, <1>b, Located, TaskNames DEF Active, Stacks
  <1>d. /\ h \in AllTasks /\ h # t /\ h \notin prepared
        /\ state[h] = "Exited" /\ ~on_cpu[h] /\ carries[h] = None
    <2>1. h \notin prepared
      BY TaskTypeFacts, TaskNames
    <2> QED BY <1>0, <1>a, <2>1, TaskNames DEF Migrates, Hands
  <1>e. Site(h, "none", h)
    BY <1>0, <1>d, Located DEF Active
  <1>f. UNCHANGED <<on_cpu, home_charged, wake_flags, prepared, rq, curr, prev, hand, after, target>>
    BY Zenon DEF Migrates
  <1>g. /\ pc'[c] = "switch" /\ sched_curr'[c] = h
        /\ \A b \in Agents : b # c => pc'[b] = pc[b]
        /\ \A d \in CPUs : d # c => sched_curr'[d] = sched_curr[d]
    BY Zenon DEF Migrates
  <1>h. \A u \in AllTasks : state'[u] = IF u \in {t, h} THEN "Ready" ELSE state[u]
    BY Zenon DEF Migrates
  <1>i. \A g \in Helpers : carries'[g] = IF g = h THEN t ELSE carries[g]
    BY Zenon DEF Migrates
  <1>j. \A u \in AllTasks : cpu_id'[u] = IF u = h THEN c ELSE cpu_id[u]
    BY Zenon DEF Migrates
  <1>k. /\ \A d \in CPUs, k \in {"clear", "take"} : pc'[d] = k <=> pc[d] = k
        /\ \A d \in CPUs : pc'[d] = "switch" <=> pc[d] = "switch" \/ d = c
        /\ \A w \in Wakers : pc'[w] = pc[w]
    BY <1>a, <1>g, AgentNames
  <1>l. \A d \in CPUs : curr[d] # h /\ (curr[d] = t => d = c)
    BY <1>0, <1>a, <1>b, <1>c, <1>d DEF Stacks
  <1>1. Ownership'
    <2> SUFFICES ASSUME NEW u \in AllTasks PROVE Sited(u)'
      BY Zenon DEF Ownership
    <2>1. CASE u = t
      <3>1. Site(t, "carry", h)'
        BY SMT, <1>b, <1>c, <1>d, <1>f, <1>g, <1>i, <1>k DEF Site
      <3>2. Active(t)'
        BY <1>b, <1>f, <1>h DEF Active
      <3>3. SiteAt("carry", h)'
        BY DEF SiteAt, Kinds
      <3> QED BY SMT, <2>1, <3>1, <3>2, <3>3, SiteKnown DEF Sited
    <2>2. CASE u = h
      <3>1. Site(h, "pick", c)'
        BY SMT, <1>a, <1>b, <1>d, <1>e, <1>f, <1>g, <1>i, <1>k DEF Site
      <3>2. Active(h)'
        BY <1>d, <1>f, <1>h DEF Active
      <3>3. SiteAt("pick", c)'
        BY DEF SiteAt, Kinds
      <3> QED BY SMT, <2>2, <3>1, <3>2, <3>3, SiteKnown DEF Sited
    <2>3. CASE u # t /\ u # h
      <3>1. SamePlaces(u)
        BY SMT, <1>a, <1>d, <1>f, <1>g, <1>i, <1>k, <2>3, TaskNames DEF SamePlaces
      <3>2. Active(u)' <=> Active(u)
        BY <1>f, <1>h, <2>3 DEF Active
      <3> QED BY <1>0, <3>1, <3>2, StaysSited DEF Ownership
    <2> QED BY <2>1, <2>2, <2>3
  <1>2. Hands'
    <2>1. \A d \in CPUs : pc'[d] \in PublishPc => pc[d] \in PublishPc /\ d # c
      BY <1>g, AgentNames DEF PublishPc
    <2>2. \A a \in Agents : pc'[a] \notin PublishPc => pc[a] \notin PublishPc
      BY <1>a, <1>g DEF PublishPc
    <2>3. \A g \in Helpers : state'[g] = "Exited" => state[g] = "Exited" /\ g # h
      BY <1>h, TaskNames
    <2>4. \A u \in prepared : state'[u] = "Ready"
      BY <1>0, <1>b, <1>d, <1>h, TaskTypeFacts, TaskNames DEF Hands
    <2> QED BY Zenon, <1>0, <1>f, <1>i, <1>l, <2>1, <2>2, <2>3, <2>4 DEF Hands
  <1>3. Owners'
    <2>1. \A d \in CPUs : h \notin rq[d]
      BY <1>e DEF Site
    <2>2. \A d \in CPUs : pc[d] = "switch" => sched_curr[d] # h
      BY <1>e DEF Site
    <2> QED BY SMT, <1>0, <1>f, <1>g, <1>j, <1>k, <2>1, <2>2 DEF Owners
  <1>4. Stacks'
    BY SMT, <1>0, <1>d, <1>f, <1>j, <1>k DEF Stacks
  <1>5. RunsCurrent'
    BY SMT, <1>0, <1>f, <1>g, <1>h, <1>l, AgentNames
      DEF RunsCurrent, Executes, PublishPc
  <1>6. CarriedOff'
    <2>1. \A g \in Helpers : cpu_id[g] \in CPUs /\ g \in AllTasks
      BY TaskTypeFacts, TaskNames
    <2>2. ASSUME NEW g \in Helpers, g # h, carries'[g] # None, on_cpu'[carries'[g]]
          PROVE  LET e == cpu_id'[g]
                 IN  \/ pc'[e] = "switch" /\ sched_curr'[e] = g /\ curr'[e] = carries'[g]
                     \/ pc'[e] = "clear" /\ curr'[e] = g /\ prev'[e] = carries'[g]
      BY SMT, <1>0, <1>a, <1>f, <1>g, <1>i, <1>j, <1>k, <2>1, <2>2 DEF CarriedOff
    <2>3. cpu_id'[h] = c /\ carries'[h] = t /\ curr'[c] = t
      BY <1>a, <1>d, <1>f, <1>i, <1>j
    <2> QED BY SMT, <1>g, <2>2, <2>3 DEF CarriedOff
  <1>7. Handshake'
    BY <1>0, <1>f, <1>k, HandshakeKept
  <1> QED BY <1>1, <1>2, <1>3, <1>4, <1>5, <1>6, <1>7 DEF OwnerInv

\* CPU c picks t off its run queue, or its idle task (pick_next).
Picks(c, t) ==
    /\ UNCHANGED <<state, on_cpu, cpu_id, home_charged, wake_flags, prepared, carries,
                   curr, prev, hand, after, target>>
    /\ pc[c] = "pick" /\ (t = Idle \/ (t \in rq[c] /\ t \in AllTasks))
    /\ pc'[c] = "switch" /\ sched_curr'[c] = t
    /\ \A b \in Agents : b # c => pc'[b] = pc[b]
    /\ \A d \in CPUs : d # c => sched_curr'[d] = sched_curr[d]
    /\ \A u \in AllTasks, d \in CPUs : u \in rq'[d] <=> u \in rq[d] /\ ~(u = t /\ d = c)

\* The ownership invariant survives picking a task.
LEMMA PicksKeeps ==
  ASSUME TypeInv, OwnerInv, NEW c \in CPUs, NEW t, Picks(c, t)
  PROVE  OwnerInv'
  <1>0. Ownership /\ Hands /\ Owners /\ Stacks /\ RunsCurrent /\ CarriedOff /\ Handshake
    BY Zenon DEF OwnerInv
  <1>b. pc[c] = "pick" /\ (t = Idle \/ (t \in rq[c] /\ t \in AllTasks))
    BY Zenon DEF Picks
  <1>e. UNCHANGED <<state, on_cpu, cpu_id, home_charged, wake_flags, prepared, carries,
                    curr, prev, hand, after, target>>
    BY Zenon DEF Picks
  <1>f. /\ pc'[c] = "switch" /\ sched_curr'[c] = t
        /\ \A b \in Agents : b # c => pc'[b] = pc[b]
        /\ \A d \in CPUs : d # c => sched_curr'[d] = sched_curr[d]
    BY Zenon DEF Picks
  <1>g. \A u \in AllTasks, d \in CPUs : u \in rq'[d] <=> u \in rq[d] /\ ~(u = t /\ d = c)
    BY Zenon DEF Picks
  <1>i. /\ \A d \in CPUs, k \in {"clear", "take"} : pc'[d] = k <=> pc[d] = k
        /\ \A d \in CPUs : pc'[d] = "switch" <=> pc[d] = "switch" \/ d = c
        /\ \A w \in Wakers : pc'[w] = pc[w]
    BY <1>b, <1>f, TaskNames, AgentNames
  <1>j. \A u \in AllTasks : Active(u)' <=> Active(u)
    BY <1>e DEF Active
  <1>k. \A u \in AllTasks \ {t} : SamePlaces(u)
    BY Zenon, <1>b, <1>e, <1>f, <1>g, <1>i DEF SamePlaces
  <1>1. Ownership'
    <2>1. CASE t = Idle
      BY <1>0, <1>j, <1>k, <2>1, StaysSited, TaskNames, AgentNames DEF Ownership
    <2>2. CASE t \in rq[c] /\ t \in AllTasks
      <3>1. Site(t, "queue", c) /\ Active(t)
        BY <1>0, <2>2, Located
      <3>2. Site(t, "pick", c)'
        BY Zenon, <1>e, <1>f, <1>g, <1>i, <2>2, <3>1 DEF Site
      <3>3. SiteAt("pick", c)
        BY DEF SiteAt, Kinds
      <3> QED BY <1>0, <1>j, <1>k, <2>2, <3>1, <3>2, <3>3, Relocated
    <2> QED BY <1>b, <2>1, <2>2
  <1>2. Hands'
    BY Zenon, <1>0, <1>b, <1>e, <1>f, TaskNames, AgentNames DEF Hands, PublishPc
  <1>3. Owners'
    BY SMT, <1>0, <1>b, <1>e, <1>f, <1>g, <1>i, TaskNames, AgentNames DEF Owners
  <1>4. Stacks'
    BY <1>0, <1>e, <1>i, StacksKept
  <1>5. RunsCurrent'
    BY SMT, <1>0, <1>e, <1>f, TaskNames, AgentNames
      DEF RunsCurrent, Executes, PublishPc
  <1>6. CarriedOff'
    BY <1>0, <1>b, <1>e, <1>f, <1>i, CarriedKept
  <1>7. Handshake'
    BY <1>0, <1>e, <1>i, HandshakeKept
  <1> QED BY <1>1, <1>2, <1>3, <1>4, <1>5, <1>6, <1>7 DEF OwnerInv

\* CPU c has picked the task it is on (switch_to).
Resumes(c) ==
    /\ UNCHANGED <<on_cpu, cpu_id, home_charged, wake_flags, prepared, carries, rq, sched_curr,
                   curr, prev, hand, after, target>>
    /\ pc[c] = "switch" /\ sched_curr[c] = curr[c] /\ pc'[c] = "run"
    /\ \A b \in Agents : b # c => pc'[b] = pc[b]
    /\ \A u \in AllTasks : state'[u] = IF u = curr[c] THEN "Running" ELSE state[u]

\* The ownership invariant survives resuming the same task.
LEMMA ResumesKeeps ==
  ASSUME TypeInv, OwnerInv, NEW c \in CPUs, Resumes(c)
  PROVE  OwnerInv'
  <1>0. Ownership /\ Hands /\ Owners /\ Stacks /\ RunsCurrent /\ CarriedOff /\ Handshake
    BY Zenon DEF OwnerInv
  <1>a. pc[c] = "switch" /\ sched_curr[c] = curr[c]
        /\ UNCHANGED <<on_cpu, cpu_id, home_charged, wake_flags, prepared, carries, rq, sched_curr,
                        curr, prev, hand, after, target>>
    BY Zenon DEF Resumes
  <1>b. /\ pc'[c] = "run"
        /\ \A b \in Agents : b # c => pc'[b] = pc[b]
    BY Zenon DEF Resumes
  <1>c. /\ \A d \in CPUs, k \in {"clear", "take"} : pc'[d] = k <=> pc[d] = k
        /\ \A d \in CPUs : pc'[d] = "switch" <=> pc[d] = "switch" /\ d # c
        /\ \A w \in Wakers : pc'[w] = pc[w]
    BY <1>a, <1>b, AgentNames
  <1>d. \A u \in AllTasks \ {curr[c]} : SamePlaces(u)
    BY Zenon, <1>a, <1>c DEF SamePlaces
  <1>e. \A u \in AllTasks : state'[u] = IF u = curr[c] THEN "Running" ELSE state[u]
    BY Zenon DEF Resumes
  <1>f. \A u \in AllTasks \ {curr[c]} : Active(u)' <=> Active(u)
    BY <1>a, <1>e DEF Active
  <1>g. \A h \in Helpers : carries[h] # curr[c]
    <2>1. CASE curr[c] = Idle
      BY <2>1, TaskTypeFacts, TaskNames, ConstantsAssumption
    <2>2. CASE curr[c] # Idle
      <3>1. curr[c] \in AllTasks
        BY <2>2, StackTypes
      <3>2. Site(curr[c], "pick", c)
        BY <1>0, <1>a, <3>1, Located
      <3> QED BY <3>2 DEF Site
    <2> QED BY <2>1, <2>2
  <1>1. Ownership'
    <2>1. CASE curr[c] = Idle
      BY <1>0, <1>d, <1>f, <2>1, StaysSited, TaskNames DEF Ownership
    <2>2. CASE curr[c] # Idle
      <3>1. PICK t \in AllTasks : t = curr[c]
        BY <2>2, StackTypes
      <3>2. Site(t, "pick", c)
        BY <1>0, <1>a, <3>1, Located
      <3>3. Site(t, "none", t)'
        BY Zenon, <1>a, <1>c, <3>1, <3>2 DEF Site
      <3>4. SiteAt("none", t)
        BY DEF SiteAt, Kinds
      <3>5. ~Active(t)'
        BY <1>e, <3>1 DEF Active
      <3> QED BY <1>0, <1>d, <1>f, <3>1, <3>3, <3>4, <3>5, Relocated
    <2> QED BY <2>1, <2>2
  <1>2. Hands'
    <2>1. curr[c] \notin prepared
      <3>1. curr[c] \in AllTasks => Active(curr[c])
        BY <1>0, <1>a, Located
      <3> QED BY <3>1, TaskTypeFacts, TaskNames DEF Active
    <2> QED BY Zenon, <1>0, <1>a, <1>b, <1>e, <2>1, AgentNames, TaskNames,
              TaskTypeFacts DEF Hands,
          PublishPc
  <1>3. Owners'
    BY Zenon, <1>0, <1>a, <1>c DEF Owners
  <1>4. Stacks'
    BY <1>0, <1>a, <1>c, StacksKept
  <1>5. RunsCurrent'
    BY Zenon, <1>0, <1>a, <1>b, <1>e, AgentNames
      DEF RunsCurrent, Executes, PublishPc
  <1>6. CarriedOff'
    <2>1. \A h \in Helpers : cpu_id[h] \in CPUs
      BY TaskTypeFacts, TaskNames
    <2> QED BY SMT, <1>0, <1>a, <1>c, <1>g, <2>1, AgentNames DEF CarriedOff
  <1>7. Handshake'
    BY <1>0, <1>a, <1>c, HandshakeKept
  <1> QED BY <1>1, <1>2, <1>3, <1>4, <1>5, <1>6, <1>7 DEF OwnerInv

\* CPU c switches to the stack of another task n (switch_to).
Switches(c, n) ==
    /\ UNCHANGED <<cpu_id, home_charged, wake_flags, prepared, carries, rq, sched_curr, hand,
                   after, target>>
    /\ pc[c] = "switch" /\ sched_curr[c] = n /\ n # curr[c]
    /\ pc'[c] = "clear" /\ prev'[c] = curr[c] /\ curr'[c] = n
    /\ \A b \in Agents : b # c => pc'[b] = pc[b]
    /\ \A d \in CPUs : d # c => prev'[d] = prev[d] /\ curr'[d] = curr[d]
    /\ \A u \in AllTasks : state'[u] = IF u = n THEN "Running" ELSE state[u]
    /\ \A u \in AllTasks : on_cpu'[u] <=> on_cpu[u] \/ u = n

\* The ownership invariant survives switching to another task.
LEMMA SwitchesKeeps ==
  ASSUME TypeInv, OwnerInv, NEW c \in CPUs, NEW n, Switches(c, n)
  PROVE  OwnerInv'
  <1>0. Ownership /\ Hands /\ Owners /\ Stacks /\ RunsCurrent /\ CarriedOff /\ Handshake
    BY Zenon DEF OwnerInv
  <1>a. pc[c] = "switch" /\ UNCHANGED <<cpu_id, home_charged, wake_flags, prepared,
                    carries, rq, sched_curr, hand, after, target>>
    BY Zenon DEF Switches
  <1>b. /\ pc'[c] = "clear" /\ prev'[c] = curr[c] /\ curr'[c] = n
        /\ \A b \in Agents : b # c => pc'[b] = pc[b]
        /\ \A d \in CPUs : d # c => prev'[d] = prev[d] /\ curr'[d] = curr[d]
    BY Zenon DEF Switches
  <1>c. /\ \A d \in CPUs : pc'[d] = "take" <=> pc[d] = "take"
        /\ \A d \in CPUs : pc'[d] = "clear" <=> pc[d] = "clear" \/ d = c
        /\ \A d \in CPUs : pc'[d] = "switch" <=> pc[d] = "switch" /\ d # c
        /\ \A w \in Wakers : pc'[w] = pc[w]
    BY <1>a, <1>b, AgentNames
  <1>d. sched_curr[c] = n /\ n # curr[c]
    BY Zenon DEF Switches
  <1>e. /\ \A u \in AllTasks : state'[u] = IF u = n THEN "Running" ELSE state[u]
        /\ \A u \in AllTasks : on_cpu'[u] <=> on_cpu[u] \/ u = n
    BY Zenon DEF Switches
  <1>f. n = Idle \/ n \in AllTasks
    BY <1>a, <1>d, QueueTypes DEF TypeInv, CpuControl
  <1>g. n \in AllTasks => Site(n, "pick", c) /\ Active(n) /\ cpu_id[n] = c
    BY <1>0, <1>a, <1>d, Located DEF Owners
  <1>h. \A u \in AllTasks \ {n} : SamePlaces(u)
    BY Zenon, <1>a, <1>c, <1>d DEF SamePlaces
  <1>i. \A u \in AllTasks \ {n} : Active(u)' <=> Active(u)
    BY <1>a, <1>e DEF Active
  <1>j. \A d \in CPUs : n \in AllTasks => curr[d] # n /\ ~(pc[d] = "clear" /\ prev[d] = n)
    BY Zenon, <1>0, <1>a, <1>d, <1>g DEF Stacks
  <1>1. Ownership'
    <2>1. CASE n = Idle
      BY <1>0, <1>h, <1>i, <2>1, StaysSited, TaskNames DEF Ownership
    <2>2. CASE n \in AllTasks
      <3>3. Site(n, "none", n)'
        BY Zenon, <1>a, <1>c, <1>d, <1>g, <2>2 DEF Site
      <3>4. SiteAt("none", n)
        BY <2>2 DEF SiteAt, Kinds
      <3>5. ~Active(n)'
        BY <1>e, <2>2 DEF Active
      <3> QED BY <1>0, <1>h, <1>i, <2>2, <3>3, <3>4, <3>5, Relocated
    <2> QED BY <1>f, <2>1, <2>2
  <1>2. Hands'
    <2>1. n \notin prepared
      BY <1>f, <1>g, TaskTypeFacts, TaskNames DEF Active
    <2>2. \A h \in Helpers : state'[h] = "Exited" => state[h] = "Exited"
      BY <1>e, TaskNames
    <2>3. \A t \in prepared : state'[t] = "Ready" /\ ~on_cpu'[t]
      BY <1>0, <1>e, <2>1, TaskTypeFacts, TaskNames DEF Hands
    <2>4. \A d \in CPUs : pc'[d] \in PublishPc => pc[d] \in PublishPc /\ curr'[d] = curr[d]
      BY <1>b, AgentNames DEF PublishPc
    <2>5. \A a \in Agents : pc'[a] \notin PublishPc => pc[a] \notin PublishPc
      BY <1>a, <1>b DEF PublishPc
    <2> QED BY <1>0, <1>a, <2>2, <2>3, <2>4, <2>5 DEF Hands
  <1>3. Owners'
    <2>1. \A a \in Agents : n \in AllTasks => hand[a] # n
      BY <1>g DEF Site
    <2> QED BY SMT, <1>0, <1>a, <1>c, <1>e, <2>1 DEF Owners
  <1>4. Stacks'
    <2>1. ASSUME NEW t \in AllTasks, NEW d \in CPUs, d # c
          PROVE  curr'[d] = t \/ (pc'[d] = "clear" /\ prev'[d] = t) <=> on_cpu'[t] /\ cpu_id'[t] = d
      BY SMT, <1>0, <1>a, <1>b, <1>c, <1>e, <1>g, <2>1 DEF Stacks
    <2>2. ASSUME NEW t \in AllTasks
          PROVE  curr'[c] = t \/ (pc'[c] = "clear" /\ prev'[c] = t) <=> on_cpu'[t] /\ cpu_id'[t] = c
      BY SMT, <1>0, <1>a, <1>b, <1>c, <1>d, <1>e, <1>g DEF Stacks
    <2> QED BY SMT, <1>0, <1>b, <1>d, <2>1, <2>2 DEF Stacks
  <1>5. RunsCurrent'
    BY SMT, <1>0, <1>a, <1>b, <1>d, <1>e, <1>j, AgentNames
      DEF RunsCurrent, Executes, PublishPc
  <1>6. CarriedOff'
    <2> SUFFICES ASSUME NEW h \in Helpers, carries[h] # None, on_cpu'[carries[h]]
                 PROVE  LET e == cpu_id[h]
                        IN  \/ pc'[e] = "switch" /\ sched_curr'[e] = h /\ curr'[e] = carries[h]
                            \/ pc'[e] = "clear" /\ curr'[e] = h /\ prev'[e] = carries[h]
      BY Zenon, <1>a DEF CarriedOff
    <2>1. carries[h] \in AllTasks /\ carries[h] # n /\ cpu_id[h] \in CPUs
      BY Zenon, <1>g, TaskTypeFacts, TaskNames DEF Site
    <2>2. on_cpu[carries[h]]
      BY <1>e, <2>1
    <2>3. CASE cpu_id[h] = c
      BY <1>0, <1>a, <1>b, <1>d, <2>1, <2>2, <2>3 DEF CarriedOff
    <2>4. CASE cpu_id[h] # c
      BY SMT, <1>0, <1>a, <1>b, <2>1, <2>2, <2>4, AgentNames DEF CarriedOff
    <2> QED BY <2>3, <2>4
  <1>7. Handshake'
    <2>1. n \in AllTasks => ~wake_flags[n] /\ \A w \in Wakers : ~(pc[w] = "arm" /\ target[w] = n)
      BY <1>g DEF Site
    <2>2. \A w \in Wakers : pc[w] = "claim" => target[w] \in AllTasks
      BY TaskNames DEF TypeInv, CallControl, WakerPc
    <2>3. \A w \in Wakers : pc'[w] = "claim" /\ wake_flags'[target'[w]] => ~on_cpu'[target'[w]]
      BY SMT, <1>0, <1>a, <1>c, <1>e, <2>1, <2>2 DEF Handshake
    <2>4. \A d \in CPUs : pc[d] = "take" => d # c
      BY <1>a
    <2> QED BY SMT, <1>0, <1>a, <1>b, <1>c, <1>e, <2>1, <2>3, <2>4 DEF Handshake
  <1> QED BY <1>1, <1>2, <1>3, <1>4, <1>5, <1>6, <1>7 DEF OwnerInv

\* CPU c has saved the task o it has left (finish_task_switch).
Finishes(c, o) ==
    /\ UNCHANGED <<state, cpu_id, home_charged, wake_flags, prepared, carries, rq, sched_curr,
                   curr, hand, after, target>>
    /\ pc[c] = "clear" /\ prev[c] = o
    /\ pc'[c] = IF o = Idle THEN "run" ELSE "take"
    /\ prev'[c] = IF o = Idle THEN None ELSE o
    /\ \A b \in Agents : b # c => pc'[b] = pc[b]
    /\ \A d \in CPUs : d # c => prev'[d] = prev[d]
    /\ \A u \in AllTasks : on_cpu'[u] <=> on_cpu[u] /\ u # o

\* The ownership invariant survives the end of a switch.
LEMMA FinishesKeeps ==
  ASSUME TypeInv, OwnerInv, NEW c \in CPUs, NEW o, Finishes(c, o)
  PROVE  OwnerInv'
  <1>0. Ownership /\ Hands /\ Owners /\ Stacks /\ RunsCurrent /\ CarriedOff /\ Handshake
    BY Zenon DEF OwnerInv
  <1>a. pc[c] = "clear" /\ UNCHANGED <<state, cpu_id, home_charged, wake_flags, prepared,
                    carries, rq, sched_curr, curr, hand, after, target>>
    BY Zenon DEF Finishes
  <1>b. prev[c] = o
    BY Zenon DEF Finishes
  <1>c. o = Idle \/ o \in AllTasks
    BY <1>a, <1>b, StackTypes DEF TypeInv, CpuControl
  <1>d. /\ pc'[c] = IF o = Idle THEN "run" ELSE "take"
        /\ prev'[c] = IF o = Idle THEN None ELSE o
        /\ \A b \in Agents : b # c => pc'[b] = pc[b]
        /\ \A d \in CPUs : d # c => prev'[d] = prev[d]
    BY Zenon DEF Finishes
  <1>e. \A u \in AllTasks : on_cpu'[u] <=> on_cpu[u] /\ u # o
    BY Zenon DEF Finishes
  <1>f. /\ \A d \in CPUs : pc'[d] = "take" <=> pc[d] = "take" \/ (d = c /\ o # Idle)
        /\ \A d \in CPUs : pc'[d] = "clear" <=> pc[d] = "clear" /\ d # c
        /\ \A d \in CPUs : pc'[d] = "switch" <=> pc[d] = "switch"
        /\ \A w \in Wakers : pc'[w] = pc[w]
    BY <1>a, <1>d, AgentNames
  <1>g. o \in AllTasks => cpu_id[o] = c
    BY <1>0, <1>a, <1>b DEF Stacks
  <1>1. Ownership'
    <2>1. \A u \in AllTasks : SamePlaces(u)
      BY SMT, <1>a, <1>f DEF SamePlaces
    <2>2. \A u \in AllTasks : Active(u)' <=> Active(u)
      BY <1>a DEF Active
    <2> QED BY <1>0, <2>1, <2>2, StaysSited DEF Ownership
  <1>2. Hands'
    <2>1. \A a \in Agents : pc'[a] \in PublishPc <=> pc[a] \in PublishPc
      BY <1>a, <1>d DEF PublishPc
    <2>2. \A t \in prepared : ~on_cpu'[t]
      BY <1>0, <1>e, TaskTypeFacts, TaskNames DEF Hands
    <2> QED BY SMT, <1>0, <1>a, <2>1, <2>2, AgentNames DEF Hands
  <1>3. Owners'
    BY <1>0, <1>a, <1>e, <1>f DEF Owners
  <1>4. Stacks'
    <2>1. ASSUME NEW t \in AllTasks, NEW d \in CPUs
          PROVE  curr'[d] = t \/ (pc'[d] = "clear" /\ prev'[d] = t) <=> on_cpu'[t] /\ cpu_id'[t] = d
      BY SMT, <1>0, <1>a, <1>b, <1>d, <1>e, <1>f, <1>g, TaskNames DEF Stacks
    <2>2. curr[c] # None
      BY CurrNeverNone
    <2>3. \A d \in CPUs : prev'[d] # curr'[d]
      BY SMT, <1>0, <1>a, <1>b, <1>d, <2>2 DEF Stacks
    <2> QED BY <2>1, <2>3 DEF Stacks
  <1>5. RunsCurrent'
    BY Zenon, <1>0, <1>a, <1>d, AgentNames DEF RunsCurrent, Executes, PublishPc
  <1>6. CarriedOff'
    <2> SUFFICES ASSUME NEW h \in Helpers, carries[h] # None, on_cpu'[carries[h]]
                 PROVE  LET e == cpu_id[h]
                        IN  \/ pc'[e] = "switch" /\ sched_curr'[e] = h /\ curr'[e] = carries[h]
                            \/ pc'[e] = "clear" /\ curr'[e] = h /\ prev'[e] = carries[h]
      BY Zenon, <1>a DEF CarriedOff
    <2>1. carries[h] \in AllTasks /\ cpu_id[h] \in CPUs
      BY TaskTypeFacts, TaskNames
    <2>2. on_cpu[carries[h]] /\ carries[h] # o
      BY <1>e, <2>1
    <2> QED BY SMT, <1>0, <1>a, <1>b, <1>d, <1>f, <2>1, <2>2 DEF CarriedOff
  <1>7. Handshake'
    <2>1. \A w \in Wakers : pc[w] = "claim" => target[w] \in AllTasks
      BY TaskNames DEF TypeInv, CallControl, WakerPc
    <2>2. \A w \in Wakers : pc'[w] = "claim" /\ wake_flags'[target'[w]] => ~on_cpu'[target'[w]]
      BY SMT, <1>0, <1>a, <1>e, <1>f, <2>1 DEF Handshake
    <2>3. ASSUME NEW d \in CPUs, NEW t \in AllTasks, pc'[d] = "take", prev'[d] = t,
                 wake_flags[t] \/ \E w \in Wakers : pc[w] = "arm" /\ target[w] = t
          PROVE  ~on_cpu'[t]
      BY <1>0, <1>c, <1>d, <1>e, <1>f, <2>3 DEF Handshake
    <2> QED BY SMT, <1>0, <1>a, <1>f, <2>2, <2>3 DEF Handshake
  <1> QED BY <1>1, <1>2, <1>3, <1>4, <1>5, <1>6, <1>7 DEF OwnerInv

\* Waker w makes the Blocked task t Ready (unblock_task).
Unblocks(w, t) ==
    /\ UNCHANGED <<on_cpu, cpu_id, home_charged, wake_flags, prepared, carries, rq, sched_curr,
                   curr, prev, hand, after, target>>
    /\ pc[w] = "unblock" /\ target[w] = t /\ state[t] = "Blocked" /\ pc'[w] = "arm"
    /\ \A b \in Agents : b # w => pc'[b] = pc[b]
    /\ \A u \in AllTasks : state'[u] = IF u = t THEN "Ready" ELSE state[u]
    /\ \A v \in Wakers : v # w /\ pc[v] \in {"check", "claim"} => target[v] # t
    /\ \A c \in CPUs : pc[c] = "take" /\ prev[c] = t => cpu_id[t] = c

\* The ownership invariant survives unblocking a task.
LEMMA UnblocksKeeps ==
  ASSUME TypeInv, OwnerInv, NEW w \in Wakers, NEW t \in Tasks, Unblocks(w, t)
  PROVE  OwnerInv'
  <1>0. Ownership /\ Hands /\ Owners /\ Stacks /\ RunsCurrent /\ CarriedOff /\ Handshake
    BY Zenon DEF OwnerInv
  <1>a. pc[w] = "unblock" /\ target[w] = t
    BY Zenon DEF Unblocks
  <1>b. /\ state[t] = "Blocked" /\ t \in AllTasks /\ t \notin Helpers /\ t \notin prepared
    BY <1>0, TaskNames DEF Unblocks, Hands
  <1>c. Site(t, "none", t)
    BY <1>0, <1>b, Located DEF Active
  <1>d. UNCHANGED <<on_cpu, cpu_id, home_charged, wake_flags, prepared, carries, rq, sched_curr,
                    curr, prev, hand, after, target>>
    BY Zenon DEF Unblocks
  <1>e. /\ \A v \in Wakers : v # w /\ pc[v] \in {"check", "claim"} => target[v] # t
        /\ \A c \in CPUs : pc[c] = "take" /\ prev[c] = t => cpu_id[t] = c
    BY Zenon DEF Unblocks
  <1>f. /\ pc'[w] = "arm" /\ \A b \in Agents : b # w => pc'[b] = pc[b]
    BY Zenon DEF Unblocks
  <1>g. \A u \in AllTasks : state'[u] = IF u = t THEN "Ready" ELSE state[u]
    BY Zenon DEF Unblocks
  <1>i. /\ \A d \in CPUs : pc'[d] = pc[d]
        /\ \A v \in Wakers : v # w => pc'[v] = pc[v]
        /\ \A a \in Agents : pc'[a] \in PublishPc <=> pc[a] \in PublishPc
    BY <1>a, <1>f, AgentNames DEF PublishPc
  <1>1. Ownership'
    <2>1. Site(t, "arm", w)'
      BY Zenon, <1>a, <1>c, <1>d, <1>f, <1>i DEF Site
    <2>2. SiteAt("arm", w)
      BY DEF SiteAt, Kinds
    <2>3. Active(t)' /\ \A u \in AllTasks \ {t} : Active(u)' <=> Active(u)
      BY <1>b, <1>d, <1>g DEF Active
    <2>4. \A u \in AllTasks \ {t} : SamePlaces(u)
      BY Zenon, <1>a, <1>b, <1>d, <1>f, <1>i DEF SamePlaces
    <2> QED BY <1>0, <1>b, <2>1, <2>2, <2>3, <2>4, Relocated
  <1>2. Hands'
    <2>1. \A h \in Helpers : state'[h] = state[h]
      BY <1>b, <1>g, TaskNames
    <2>2. \A u \in prepared : state'[u] = state[u]
      BY <1>b, <1>g, TaskTypeFacts, TaskNames
    <2> QED BY Zenon, <1>0, <1>d, <1>i, <2>1, <2>2 DEF Hands
  <1>3. Owners'
    BY <1>0, <1>d, <1>i DEF Owners
  <1>4. Stacks'
    BY <1>0, <1>d, <1>i, StacksKept
  <1>5. RunsCurrent'
    <2>1. \A d \in CPUs : Executes(d)' <=> Executes(d)
      BY <1>d, <1>i DEF Executes
    <2> QED BY <1>0, <1>b, <1>d, <1>g, <2>1 DEF RunsCurrent
  <1>6. CarriedOff'
    BY <1>0, <1>d, <1>i, CarriedKept
  <1>7. Handshake'
    <2>1. ASSUME NEW v \in Wakers, NEW x \in Wakers, pc'[v] \in {"check", "claim"}, pc'[x] = "arm"
          PROVE  target'[v] # target'[x]
      BY SMT, <1>0, <1>a, <1>d, <1>e, <1>f, <1>i, <2>1 DEF Handshake
    <2>2. ASSUME NEW v \in Wakers, pc'[v] = "claim", wake_flags'[target'[v]]
          PROVE  ~on_cpu'[target'[v]]
      BY SMT, <1>0, <1>d, <1>f, <1>i, <2>2 DEF Handshake
    <2>3. \A d \in CPUs : pc[d] = "take" /\ prev[d] = t => ~on_cpu[t]
      BY SMT, <1>0, <1>b, <1>e DEF Stacks
    <2>4. ASSUME NEW d \in CPUs, NEW u \in AllTasks, pc'[d] = "take", prev'[d] = u,
                 wake_flags'[u] \/ \E v \in Wakers : pc'[v] = "arm" /\ target'[v] = u
          PROVE  ~on_cpu'[u]
      BY Zenon, <1>0, <1>a, <1>d, <1>f, <1>i, <2>3, <2>4 DEF Handshake
    <2> QED BY <2>1, <2>2, <2>4 DEF Handshake
  <1> QED BY <1>1, <1>2, <1>3, <1>4, <1>5, <1>6, <1>7 DEF OwnerInv

\* Waker w leaves t to whoever claims its wake flags (arm_wake_enqueue).
Arms(w, t) ==
    /\ UNCHANGED <<state, on_cpu, cpu_id, home_charged, prepared, carries, rq, sched_curr,
                   curr, prev, hand, after, target>>
    /\ pc[w] = "arm" /\ target[w] = t /\ pc'[w] = "check"
    /\ \A b \in Agents : b # w => pc'[b] = pc[b]
    /\ \A u \in AllTasks : wake_flags'[u] <=> wake_flags[u] \/ u = t

\* The ownership invariant survives arming a wakeup.
LEMMA ArmsKeeps ==
  ASSUME TypeInv, OwnerInv, NEW w \in Wakers, NEW t \in AllTasks, Arms(w, t)
  PROVE  OwnerInv'
  <1>0. Ownership /\ Hands /\ Owners /\ Stacks /\ RunsCurrent /\ CarriedOff /\ Handshake
    BY Zenon DEF OwnerInv
  <1>a. target[w] = t
    BY Zenon DEF Arms
  <1>b. pc[w] = "arm"
    BY Zenon DEF Arms
  <1>c. Site(t, "arm", w) /\ Active(t)
    BY <1>0, <1>a, <1>b, Located
  <1>d. UNCHANGED <<state, on_cpu, cpu_id, home_charged, prepared, carries, rq, sched_curr,
                    curr, prev, hand, after, target>>
    BY Zenon DEF Arms
  <1>f. /\ pc'[w] = "check" /\ \A b \in Agents : b # w => pc'[b] = pc[b]
    BY Zenon DEF Arms
  <1>g. \A u \in AllTasks : wake_flags'[u] <=> wake_flags[u] \/ u = t
    BY Zenon DEF Arms
  <1>i. /\ \A d \in CPUs : pc'[d] = pc[d]
        /\ \A v \in Wakers : v # w => pc'[v] = pc[v]
        /\ \A a \in Agents : pc'[a] \in PublishPc <=> pc[a] \in PublishPc
    BY <1>b, <1>f, AgentNames DEF PublishPc
  <1>1. Ownership'
    <2>1. Site(t, "flag", t)'
      BY Zenon, <1>a, <1>c, <1>d, <1>f, <1>g, <1>i DEF Site
    <2>2. SiteAt("flag", t)
      BY DEF SiteAt, Kinds
    <2>3. Active(t)' /\ \A u \in AllTasks : Active(u)' <=> Active(u)
      BY <1>c, <1>d DEF Active
    <2>4. \A u \in AllTasks \ {t} : SamePlaces(u)
      BY Zenon, <1>a, <1>d, <1>f, <1>g, <1>i DEF SamePlaces
    <2> QED BY <1>0, <1>a, <2>1, <2>2, <2>3, <2>4, Relocated
  <1>2. Hands'
    BY <1>0, <1>d, <1>i DEF Hands
  <1>3. Owners'
    BY Zenon, <1>0, <1>d, <1>i DEF Owners
  <1>4. Stacks'
    BY <1>0, <1>d, <1>i, StacksKept
  <1>5. RunsCurrent'
    <2>1. \A d \in CPUs : Executes(d)' <=> Executes(d)
      BY <1>d, <1>i DEF Executes
    <2> QED BY <1>0, <1>d, <2>1 DEF RunsCurrent
  <1>6. CarriedOff'
    BY <1>0, <1>d, <1>i, CarriedKept
  <1>7. Handshake'
    <2>1. ASSUME NEW v \in Wakers, NEW x \in Wakers, pc'[v] \in {"check", "claim"}, pc'[x] = "arm"
          PROVE  target'[v] # target'[x]
      <3>1. x # w /\ pc[x] = "arm" /\ target[x] # t
        BY <1>c, <1>f, <1>i, <2>1 DEF Site
      <3> QED BY SMT, <1>0, <1>a, <1>d, <1>i, <2>1, <3>1 DEF Handshake
    <2>2. ASSUME NEW v \in Wakers, pc'[v] = "claim", wake_flags'[target'[v]]
          PROVE  ~on_cpu'[target'[v]]
      <3>1. v # w /\ pc[v] = "claim" /\ target[v] # t
        BY SMT, <1>0, <1>a, <1>b, <1>f, <1>i, <2>2 DEF Handshake
      <3>2. target[v] \in AllTasks
        BY <3>1, TaskNames DEF TypeInv, CallControl, WakerPc
      <3> QED BY SMT, <1>0, <1>d, <1>g, <2>2, <3>1, <3>2 DEF Handshake
    <2>3. ASSUME NEW d \in CPUs, NEW u \in AllTasks, pc'[d] = "take", prev'[d] = u,
                 wake_flags'[u] \/ \E v \in Wakers : pc'[v] = "arm" /\ target'[v] = u
          PROVE  ~on_cpu'[u]
      <3>1. wake_flags[u] \/ \E v \in Wakers : pc[v] = "arm" /\ target[v] = u
        BY <1>a, <1>b, <1>d, <1>f, <1>g, <1>i, <2>3
      <3> QED BY <1>0, <1>d, <1>i, <2>3, <3>1 DEF Handshake
    <2> QED BY <2>1, <2>2, <2>3 DEF Handshake
  <1> QED BY <1>1, <1>2, <1>3, <1>4, <1>5, <1>6, <1>7 DEF OwnerInv

\* Waker w finds the task it has armed off its CPU (CheckOnCpu).
Claims(w) ==
    /\ UNCHANGED <<state, on_cpu, cpu_id, home_charged, wake_flags, prepared, carries, rq,
                   sched_curr, curr, prev, hand, after, target>>
    /\ pc[w] = "check" /\ ~on_cpu[target[w]] /\ pc'[w] = "claim"
    /\ \A b \in Agents : b # w => pc'[b] = pc[b]

\* The ownership invariant survives the check before a claim.
LEMMA ClaimsKeeps ==
  ASSUME TypeInv, OwnerInv, NEW w \in Wakers, Claims(w)
  PROVE  OwnerInv'
  <1>0. Ownership /\ Hands /\ Owners /\ Stacks /\ RunsCurrent /\ CarriedOff /\ Handshake
    BY Zenon DEF OwnerInv
  <1>b. pc[w] = "check" /\ ~on_cpu[target[w]]
    BY Zenon DEF Claims
  <1>d. UNCHANGED <<state, on_cpu, cpu_id, home_charged, wake_flags, prepared, carries, rq,
                    sched_curr, curr, prev, hand, after, target>>
    BY Zenon DEF Claims
  <1>f. /\ pc'[w] = "claim" /\ \A b \in Agents : b # w => pc'[b] = pc[b]
    BY Zenon DEF Claims
  <1>i. /\ \A d \in CPUs : pc'[d] = pc[d]
        /\ \A v \in Wakers : v # w => pc'[v] = pc[v]
        /\ \A v \in Wakers : pc'[v] = "arm" <=> pc[v] = "arm"
        /\ \A a \in Agents : pc'[a] \in PublishPc <=> pc[a] \in PublishPc
    BY <1>b, <1>f, AgentNames DEF PublishPc
  <1>1. Ownership'
    <2>1. \A u \in AllTasks : SamePlaces(u)
      BY <1>d, <1>i DEF SamePlaces
    <2>2. \A u \in AllTasks : Active(u)' <=> Active(u)
      BY <1>d DEF Active
    <2> QED BY <1>0, <2>1, <2>2, StaysSited DEF Ownership
  <1>2. Hands'
    BY <1>0, <1>d, <1>i DEF Hands
  <1>3. Owners'
    BY Zenon, <1>0, <1>d, <1>i DEF Owners
  <1>4. Stacks'
    BY <1>0, <1>d, <1>i, StacksKept
  <1>5. RunsCurrent'
    <2>1. \A d \in CPUs : Executes(d)' <=> Executes(d)
      BY <1>d, <1>i DEF Executes
    <2> QED BY <1>0, <1>d, <2>1 DEF RunsCurrent
  <1>6. CarriedOff'
    BY <1>0, <1>d, <1>i, CarriedKept
  <1>7. Handshake'
    <2>1. ASSUME NEW v \in Wakers, NEW x \in Wakers, pc'[v] \in {"check", "claim"}, pc'[x] = "arm"
          PROVE  target'[v] # target'[x]
      BY Zenon, <1>0, <1>b, <1>d, <1>i, <2>1 DEF Handshake
    <2>2. ASSUME NEW v \in Wakers, pc'[v] = "claim", wake_flags'[target'[v]]
          PROVE  ~on_cpu'[target'[v]]
      BY <1>0, <1>b, <1>d, <1>i, <2>2 DEF Handshake
    <2> QED BY SMT, <1>0, <1>d, <1>i, <2>1, <2>2 DEF Handshake
  <1> QED BY <1>1, <1>2, <1>3, <1>4, <1>5, <1>6, <1>7 DEF OwnerInv

=============================================================================
