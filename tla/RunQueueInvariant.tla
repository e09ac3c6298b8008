-------------------------- MODULE RunQueueInvariant --------------------------
(***************************************************************************)
(* Why no task is lost, queued twice or run on two CPUs: the inductive     *)
(* invariant behind OwnedOnce, OneStack, OwnerMatches, HandOff and         *)
(* HomeCount.  It relies on no wakeup racing a claim of the wakeup before  *)
(* it (StaleClaims = FALSE).                                               *)
(***************************************************************************)
EXTENDS RunQueueState

\* A step from f to g writes at most the entry x of f.
Writes(g, f, x) == g = f \/ \E v : g = [f EXCEPT ![x] = v]

(* What an agent has in its hands at each program point: a publisher holds *)
(* a task and a destination, a switching CPU has picked its next task, a   *)
(* waker knows whom it wakes.                                              *)
PublisherControl ==
    /\ \A a \in Agents : pc[a] \in PublishPc => hand[a] \in AllTasks /\ dest[a] \in CPUs
    /\ \A c \in CPUs : pc[c] \in PublishPc => after[c] \in {"run", "loop", "pull", "pick"}
    /\ \A w \in Wakers : pc[w] \in PublishPc => after[w] = "idle"
    /\ \A s \in Setters : pc[s] \in PublishPc => after[s] = "verdict"
    /\ \A c \in CPUs : pc[c] \in PublishPc /\ after[c] = "loop" => hand[c] \in Tasks

CpuControl ==
    /\ \A c \in CPUs : pc[c] = "block" => curr[c] \in Tasks /\ after[c] \in {"pull", "pick"}
    /\ \A c \in CPUs : pc[c] = "steal" => dest[c] \in CPUs
    /\ \A c \in CPUs : pc[c] = "switch" => sched_curr[c] # None
    /\ \A c \in CPUs : pc[c] = "clear" => prev[c] # None
    /\ \A c \in CPUs : pc[c] = "take" => prev[c] \in AllTasks

CallControl ==
    /\ \A w \in Wakers : pc[w] \in WakerPc \ {"idle"} => target[w] \in Tasks
    /\ \A w \in Wakers : pc[w] \in {"arm", "check", "claim"} => dest[w] \in CPUs
    /\ \A s \in Setters : pc[s] # "idle" => target[s] \in Tasks

TypeInv == TypeOK /\ PublisherControl /\ CpuControl /\ CallControl

(* The places of OwnedOnce, where a task that is not running can be.        *)
Kinds == {"none", "queue", "pick", "hand", "carry", "arm", "flag"}

(* t is in the place k of x and in no other place.                          *)
Site(t, k, x) ==
    /\ \A c \in CPUs : t \in rq[c] <=> k = "queue" /\ x = c
    /\ \A c \in CPUs : pc[c] = "switch" /\ sched_curr[c] = t <=> k = "pick" /\ x = c
    /\ \A a \in Agents : hand[a] = t <=> k = "hand" /\ x = a
    /\ \A h \in Helpers : carries[h] = t <=> k = "carry" /\ x = h
    /\ \A w \in Wakers : pc[w] = "arm" /\ target[w] = t <=> k = "arm" /\ x = w
    /\ wake_flags[t] <=> k = "flag"

SiteAt(k, x) ==
    /\ k \in Kinds
    /\ k \in {"queue", "pick"} => x \in CPUs
    /\ k = "hand" => x \in Agents
    /\ k = "carry" => x \in Helpers
    /\ k = "arm" => x \in Wakers
    /\ k \in {"none", "flag"} => x \in AllTasks

Active(t) == state[t] = "Ready" /\ t \notin prepared

(* OwnedOnce, place by place.                                               *)
Sited(t) ==
    \E k \in Kinds, x \in Agents \cup AllTasks :
        SiteAt(k, x) /\ Site(t, k, x) /\ (k # "none" <=> Active(t))

Ownership == \A t \in AllTasks : Sited(t)

(* Only a publisher has a task in its hands, and a migration task that     *)
(* publishes has handed over what it carries.                              *)
Hands ==
    /\ \A a \in Agents : pc[a] \notin PublishPc => hand[a] = None
    /\ \A c \in CPUs : pc[c] \in PublishPc /\ after[c] = "loop" =>
                          curr[c] \in Helpers /\ carries[curr[c]] = None
    /\ \A h \in Helpers : state[h] = "Exited" => carries[h] = None /\ ~home_charged[h]
    /\ \A t \in prepared : state[t] = "Ready" /\ ~on_cpu[t]

(* A queued or picked task belongs to its CPU, one in somebody's hands is  *)
(* off every CPU: OwnerMatches and HandOff, place by place.                *)
Owners ==
    /\ \A t \in AllTasks, c \in CPUs : t \in rq[c] => cpu_id[t] = c
    /\ \A t \in AllTasks, c \in CPUs :
          pc[c] = "switch" /\ sched_curr[c] = t => cpu_id[t] = c
    /\ \A t \in AllTasks, a \in Agents : hand[a] = t => ~on_cpu[t]

(* on_cpu is set exactly while a CPU is on the task's stack, and that CPU  *)
(* owns the task.                                                          *)
Stacks ==
    /\ \A t \in AllTasks, c \in CPUs :
          curr[c] = t \/ (pc[c] = "clear" /\ prev[c] = t) <=> on_cpu[t] /\ cpu_id[t] = c
    /\ \A c \in CPUs : prev[c] # curr[c]

(* A CPU that has not left its task, or has switched to it, runs it.       *)
Executes(c) ==
    \/ pc[c] \in {"run", "halt", "leave", "block", "clear", "take"}
    \/ pc[c] \in PublishPc /\ after[c] \in {"run", "loop"}

RunsCurrent ==
    \A c \in CPUs : Executes(c) /\ curr[c] \in AllTasks => state[curr[c]] = "Running"

(* A task that migrates is left before its migration task runs.            *)
CarriedOff ==
    \A h \in Helpers : carries[h] # None /\ on_cpu[carries[h]] =>
        LET c == cpu_id[h]
        IN  \/ pc[c] = "switch" /\ sched_curr[c] = h /\ curr[c] = carries[h]
            \/ pc[c] = "clear" /\ curr[c] = h /\ prev[c] = carries[h]

(* Whoever may take the wake flags of a task finds it off its CPU.         *)
Handshake ==
    /\ \A v, w \in Wakers : pc[v] \in {"check", "claim"} /\ pc[w] = "arm" =>
                               target[v] # target[w]
    /\ \A w \in Wakers : pc[w] = "claim" /\ wake_flags[target[w]] => ~on_cpu[target[w]]
    /\ \A c \in CPUs, t \in AllTasks :
          /\ pc[c] = "take" /\ prev[c] = t
          /\ wake_flags[t] \/ \E w \in Wakers : pc[w] = "arm" /\ target[w] = t
          => ~on_cpu[t]

OwnerInv ==
    /\ Ownership /\ Hands /\ Owners /\ Stacks /\ RunsCurrent
    /\ CarriedOff /\ Handshake
=============================================================================
