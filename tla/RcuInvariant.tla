----------------------------- MODULE RcuInvariant -----------------------------
(* Why a grace period is long enough: the inductive invariant behind          *)
(* GracePeriodHonoured, in the order in which its parts rest on one another.  *)
EXTENDS RcuCallbacks

(* Readers. *)

ReaderTypes ==
    /\ running \in [CPUs -> Tasks \cup {Idle}]
    /\ mode \in [CPUs -> {"kernel", "quiet"}]
    /\ sw \in [CPUs -> {"none", "lock", "report", "exit"}]
    /\ irq \in [CPUs -> {"none", "in", "reading"}]
    /\ watch \in [CPUs -> BOOLEAN] /\ activated \in [CPUs -> BOOLEAN]
    /\ nesting \in [Tasks -> Nat]
    /\ owner \in [Tasks -> CPUs \cup {None}]
    /\ exited \in SUBSET Tasks
    /\ readers \in [CPUs -> Seq(Tasks)]
    /\ blocker \in [CPUs -> Tasks \cup {None}]

(* A task is on one CPU at most, an exited one on none; an open scope is that *)
(* of the current task of some CPU or that of an enrolled reader.             *)
Placement ==
    /\ \A c, d \in CPUs : running[c] = running[d] /\ running[c] # Idle => c = d
    /\ \A c \in CPUs : running[c] \notin exited
    /\ \A t \in exited : nesting[t] = 0
    /\ \A t \in Tasks : nesting[t] > 0 /\ owner[t] = None => \E c \in CPUs : running[c] = t
    /\ \A c \in CPUs : sw[c] = "exit" => running[c] \in Tasks
    /\ \A c \in CPUs : sw[c] = "report" => ~NeedsEnrollment(running[c])

(* The watching counter is even exactly in the quiescent windows, which no    *)
(* scope of the interrupted task spans.                                       *)
Windows ==
    \A c \in CPUs :
        /\ sw[c] # "none" => irq[c] = "none" /\ mode[c] = "kernel"
        /\ watch[c] <=> mode[c] = "kernel" \/ irq[c] # "none"
        /\ activated[c] <=> mode[c] = "quiet" /\ irq[c] # "none"
        /\ mode[c] = "quiet" /\ running[c] # Idle => nesting[running[c]] = 0

ReaderInv == ReaderTypes /\ NodesMatchOwners /\ Placement /\ Windows

(* The driver, the nodes and the coordinator. *)

DriverTypes ==
    /\ at \in CPUs
    /\ gp \in {"park", "observe", "report", "inspect", "accept", "assign", "finalize",
               "finish", "complete", "promote", "begin", "nodes", "init"}
    /\ phase \in {"Idle", "Initializing", "Waiting", "Finalizing"}
    /\ completed \in Nat /\ active \in Nat /\ pending \in SUBSET CPUs
    /\ period \in [CPUs -> Nat] /\ report \in [CPUs -> Nat]
    /\ cpuPending \in [CPUs -> BOOLEAN]
    /\ snapshot \in [CPUs -> Nat \cup {None}]

Phases ==
    /\ gp \in {"park", "finalize", "complete", "begin", "init"} => at = 1
    /\ phase = "Initializing" <=> gp \in {"nodes", "init"}
    /\ phase = "Finalizing" <=> gp \in {"finish", "complete"}
    /\ phase \in {"Waiting", "Finalizing"} => active = completed + 1
    /\ phase = "Idle" => active = 0 \/ gp = "promote"
    /\ gp = "finalize" => phase = "Waiting"
    /\ gp \in {"promote", "begin"} => phase = "Idle"

(* Which nodes take part in the period. *)
Engaged(c) ==
    \/ phase = "Waiting" \/ gp = "init"
    \/ gp = "nodes" /\ c < at
    \/ gp = "finish" /\ at <= c

(* A node whose report has been accepted, or is on its way, is ready. *)
Reports ==
    /\ \A c \in CPUs : period[c] = IF Engaged(c) THEN completed + 1 ELSE 0
    /\ \A c \in CPUs : cpuPending[c] => period[c] # 0
    /\ phase \in {"Initializing", "Waiting"} => \A c \in CPUs \ pending : NodeReady(c)
    /\ phase = "Finalizing" => \A c \in CPUs : period[c] # 0 => NodeReady(c)
    /\ \A c \in CPUs : report[c] # 0 /\ report[c] > completed =>
          /\ report[c] = completed + 1 /\ phase # "Idle"
          /\ phase \in {"Initializing", "Waiting"} => NodeReady(c)
    /\ gp \in {"report", "accept"} => NodeReady(at)

DriverInv == DriverTypes /\ Phases /\ Reports

(* Callback queues. *)

Nodes == Callbacks \cup Markers
Segment == [period : Nat, callbacks : Seq(Nodes)]

QueueTypes ==
    /\ unassigned \in [CPUs -> Seq(Nodes)]
    /\ waiting \in [CPUs -> [1..2 -> Segment]]
    /\ eligible \in [CPUs -> Seq(Nodes)]
    /\ batch \in [CPUs -> Seq(Nodes)]
    /\ guards = [b \in Submitted |-> guards[b]]
    /\ Submitted \in SUBSET Callbacks
    /\ invoked \in SUBSET Submitted

(* Segments belong to this period and the next, and a queue has one of each   *)
(* at most; those of a completed period are being promoted.                   *)
Segments ==
    \A c \in CPUs :
        /\ \A i \in 1..2 :
             LET p == waiting[c][i].period
             IN  /\ \/ p = 0 \/ p = completed + 1
                    \/ p = completed + 2 /\ phase # "Idle"
                    \/ p = completed /\ gp = "promote" /\ at <= c
                 /\ p = 0 => waiting[c][i].callbacks = <<>>
        /\ waiting[c][1].period = waiting[c][2].period => waiting[c][1].period = 0

Queued(b) ==
    \E c \in CPUs : \/ In(unassigned[c], b) \/ In(eligible[c], b) \/ In(batch[c], b)
                    \/ \E i \in 1..2 : In(waiting[c][i].callbacks, b)

QueueInv ==
    /\ QueueTypes /\ Segments
    /\ \A b \in Callbacks : Queued(b) => b \in Submitted

(* Grace periods. *)

(* The node that answers for a scope: the one its reader is enrolled in, or   *)
(* that of the CPU it is on.                                                  *)
Located(c, g) ==
    \/ g = c /\ irq[c] = "reading"
    \/ g \in Tasks /\ owner[g] = c
    \/ g \in Tasks /\ owner[g] = None /\ running[c] = g

Before(q, x, y) == \E i, j \in 1..Len(q) : i <= j /\ q[i] = x /\ q[j] = y

(* It holds the period back for an enrolled reader by the suffix of blockers, *)
(* for any other by the CPU's observation, which is yet to come.              *)
Covered(c, g) ==
    IF g \in Tasks /\ owner[g] = c
    THEN blocker[c] # None /\ Before(readers[c], blocker[c], g)
    ELSE cpuPending[c] /\ snapshot[c] \in {None, 0}

Held(b) ==
    \A g \in guards[b], c \in CPUs : Located(c, g) /\ period[c] # 0 => Covered(c, g)

InPeriod(b, p) ==
    \E c \in CPUs, i \in 1..2 : waiting[c][i].period = p /\ In(waiting[c][i].callbacks, b)

Free(b) == b \in invoked \/ \E c \in CPUs : In(eligible[c], b) \/ In(batch[c], b)

GraceInv ==
    \A b \in Submitted :
        /\ guards[b] \in SUBSET Scopes
        /\ phase \in {"Initializing", "Waiting"} /\ InPeriod(b, completed + 1) => Held(b)
        /\ phase = "Finalizing" /\ InPeriod(b, completed + 1) => guards[b] = {}
        /\ gp = "promote" /\ InPeriod(b, completed) => guards[b] = {}
        /\ Free(b) => guards[b] = {}

IInv == ReaderInv /\ DriverInv /\ QueueInv /\ GraceInv
=============================================================================
