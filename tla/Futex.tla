-------------------------------- MODULE Futex -------------------------------
(***************************************************************************)
(* The futex table of process/kfutex: permanent buckets, each a locked     *)
(* queue of waiters; wait, wake, wake_op and requeue; cancellation by      *)
(* timeout or signal; and the wakeups that drain_inactive delivers after   *)
(* the bucket lock is released.                                            *)
(*                                                                         *)
(* A waiter <<p, i>> belongs to the i-th wait of thread p: it may still be *)
(* in a queue when p already waits again.  A futex word is named by its    *)
(* key.  The latch of block_on stands for park_task and the run queues.    *)
(***************************************************************************)
EXTENDS Integers, FiniteSets, Sequences, SequencesExt

CONSTANTS
    Threads,    \* tasks that wait
    Signalled, Timed,   \* those that receive signals, those that have deadlines
    Callers,    \* contexts that wake or requeue
    Keys,       \* futex keys, each the key of one user word
    BucketOf,   \* bucket_id: the bucket a key hashes to, in lock order
    Values,     \* contents of a user word
    Masks,      \* sets of match bits
    Counts,     \* wake and requeue counts
    Ops,        \* the calls Callers make
    MaxWaits,   \* waits per thread
    MaxCalls,   \* calls per caller
    None

ASSUME FutexAssumption ==
    /\ Signalled \cup Timed \subseteq Threads
    /\ BucketOf \in [Keys -> Nat]
    /\ Counts \subseteq Nat /\ MaxWaits \in Nat /\ MaxCalls \in Nat
    /\ Ops \subseteq {"store_wake", "wake", "wake_op", "requeue"}
    /\ None \notin Callers \cup Values \cup Keys

VARIABLES
    word,       \* user memory
    queue,      \* FutexBucket.waiters
    lock,       \* who holds a bucket lock across a step (two-bucket calls)
    wstate,     \* FutexWaiter.state
    route,      \* FutexWaiter.route: key and generation
    waitNo,     \* the number of the wait a thread is in, or was last in
    args,       \* key, expected value and mask of that wait
    latch,      \* KWaker.woke
    signalled, expired,   \* a pending interrupt, an elapsed deadline
    seen,       \* the bucket and generation cancel() read before locking
    result,     \* what the last wait returned
    pc,
    op,         \* a caller's call
    drains,     \* buckets that call has still to drain
    batch,      \* waiters drained, to be woken without the lock
    calls       \* calls made

waiterVars == <<wstate, route, waitNo, args, seen, result>>
wakeVars == <<latch, signalled, expired>>
callVars == <<op, drains, batch, calls>>
vars == <<word, queue, lock, waiterVars, wakeVars, pc, callVars>>

Buckets == {BucketOf[k] : k \in Keys}
Waiters == Threads \X (1..MaxWaits)
Cur(p) == <<p, waitNo[p]>>
Calls == [kind : Ops, key : Keys, target : Keys \cup {None}, cmp : Values \cup {None}]

TypeOK ==
    /\ word \in [Keys -> Values]
    /\ queue \in [Buckets -> Seq(Waiters)]
    /\ lock \in [Buckets -> Callers \cup {None}]
    /\ wstate \in [Waiters -> {"Init", "Queued", "Woken", "Cancelled"}]
    /\ route \in [Waiters -> [key : Keys, gen : Nat] \cup {None}]
    /\ waitNo \in [Threads -> 0..MaxWaits]
    /\ args \in [Threads -> [key : Keys, expected : Values, mask : Masks] \cup {None}]
    /\ latch \in [Threads -> BOOLEAN]
    /\ signalled \in [Threads -> BOOLEAN] /\ expired \in [Threads -> BOOLEAN]
    /\ seen \in [Threads -> [bucket : Buckets, gen : Nat] \cup {None}]
    /\ result \in [Threads -> {"none", "woken", "mismatch", "error"}]
    /\ \A p \in Threads : pc[p] \in {"idle", "poll", "enqueue", "select", "park",
                                     "cancel", "locked"}
    /\ \A a \in Callers : pc[a] \in {"idle", "lock", "lock2", "mark", "drain", "notify"}
    /\ \A a \in Callers, b \in Buckets : lock[b] = a => pc[a] \in {"lock2", "mark"}
    /\ op \in [Callers -> Calls \cup {None}]
    /\ drains \in [Callers -> Seq(Buckets)]
    /\ batch \in [Callers -> Seq(Waiters)]
    /\ calls \in [Callers -> 0..MaxCalls]

Init ==
    /\ word \in [Keys -> Values]
    /\ queue = [b \in Buckets |-> <<>>]
    /\ lock = [b \in Buckets |-> None]
    /\ wstate = [w \in Waiters |-> "Init"]
    /\ route = [w \in Waiters |-> None]
    /\ waitNo = [p \in Threads |-> 0]
    /\ args = [p \in Threads |-> None]
    /\ latch = [p \in Threads |-> FALSE]
    /\ signalled = [p \in Threads |-> FALSE]
    /\ expired = [p \in Threads |-> FALSE]
    /\ seen = [p \in Threads |-> None]
    /\ result = [p \in Threads |-> "none"]
    /\ pc = [x \in Threads \cup Callers |-> "idle"]
    /\ op = [a \in Callers |-> None]
    /\ drains = [a \in Callers |-> <<>>]
    /\ batch = [a \in Callers |-> <<>>]
    /\ calls = [a \in Callers |-> 0]

-----------------------------------------------------------------------------
(* wait(): FutexWaitFuture under interruptible and timeout, in block_on.   *)

\* wait(), past its first comparison.  A mismatch there returns at once.
wait(p, k, v, mask) ==
    /\ pc[p] = "idle" /\ waitNo[p] < MaxWaits
    /\ word[k] = v
    /\ waitNo' = [waitNo EXCEPT ![p] = @ + 1]
    /\ args' = [args EXCEPT ![p] = [key |-> k, expected |-> v, mask |-> mask]]
    /\ result' = [result EXCEPT ![p] = "none"]
    /\ pc' = [pc EXCEPT ![p] = "poll"]
    /\ UNCHANGED <<word, queue, lock, wstate, route, seen, wakeVars, callVars>>

\* block_on returns r and drops its waker and its timer.
Return(p, r) ==
    /\ result' = [result EXCEPT ![p] = r]
    /\ args' = [args EXCEPT ![p] = None]
    /\ latch' = [latch EXCEPT ![p] = FALSE]
    /\ expired' = [expired EXCEPT ![p] = FALSE]
    /\ pc' = [pc EXCEPT ![p] = "idle"]

\* The wait goes on at step l.
Goto(p, l) == pc' = [pc EXCEPT ![p] = l] /\ UNCHANGED <<args, result, latch, expired>>

\* One poll of interruptible(timeout(wait)), up to the first lock: a pending
\* interrupt or one that cannot be registered for, a waiter that was woken, the
\* comparison outside the lock, whose read may fault.
poll(p) ==
    /\ pc[p] = "poll"
    /\ IF signalled[p]
       THEN /\ signalled' = [signalled EXCEPT ![p] = FALSE]
            /\ Goto(p, "cancel")
       ELSE /\ UNCHANGED signalled
            /\ \/ Goto(p, "cancel")
               \/ wstate[Cur(p)] = "Init" /\ Return(p, "error")
               \/ wstate[Cur(p)] = "Woken" /\ Return(p, "woken")
               \/ wstate[Cur(p)] = "Queued" /\ Goto(p, "select")
               \/ /\ wstate[Cur(p)] = "Init" /\ word[args[p].key] = args[p].expected
                  /\ Goto(p, "enqueue")
               \/ /\ wstate[Cur(p)] = "Init" /\ word[args[p].key] # args[p].expected
                  /\ Return(p, "mismatch")
    /\ UNCHANGED <<word, queue, lock, wstate, route, waitNo, seen, callVars>>

\* Variant: the word is not compared again under the bucket lock.
StillExpected_Unchecked(p) == TRUE

StillExpected(p) == word[args[p].key] = args[p].expected

\* The second half of the first poll, under the bucket lock: compare and queue.
\* The word may have been evicted; then the poll is repeated.
enqueue(p) ==
    LET b == BucketOf[args[p].key] IN
    /\ pc[p] = "enqueue" /\ lock[b] = None
    /\ \/ /\ StillExpected(p)
          /\ wstate' = [wstate EXCEPT ![Cur(p)] = "Queued"]
          /\ route' = [route EXCEPT ![Cur(p)] = [key |-> args[p].key, gen |-> 0]]
          /\ queue' = [queue EXCEPT ![b] = Append(@, Cur(p))]
          /\ Goto(p, "select")
       \/ /\ ~StillExpected(p)
          /\ Return(p, "mismatch")
          /\ UNCHANGED <<wstate, route, queue>>
       \/ /\ latch' = [latch EXCEPT ![p] = TRUE]
          /\ pc' = [pc EXCEPT ![p] = "select"]
          /\ UNCHANGED <<wstate, route, queue, args, result, expired>>
    /\ UNCHANGED <<word, lock, waitNo, seen, signalled, callVars>>

\* The wait future is pending: the deadline decides.
select(p) ==
    /\ pc[p] = "select"
    /\ pc' = [pc EXCEPT ![p] = IF expired[p] THEN "cancel" ELSE "park"]
    /\ UNCHANGED <<word, queue, lock, waiterVars, wakeVars, callVars>>

\* KWaker::park returns once the latch is set, and clears it.
park(p) ==
    /\ pc[p] = "park" /\ latch[p]
    /\ latch' = [latch EXCEPT ![p] = FALSE]
    /\ pc' = [pc EXCEPT ![p] = "poll"]
    /\ UNCHANGED <<word, queue, lock, waiterVars, signalled, expired, callVars>>

interrupt(p) ==
    /\ p \in Signalled
    /\ pc[p] # "idle" /\ ~signalled[p]
    /\ signalled' = [signalled EXCEPT ![p] = TRUE]
    /\ latch' = [latch EXCEPT ![p] = TRUE]
    /\ UNCHANGED <<word, queue, lock, waiterVars, expired, pc, callVars>>

timeout(p) ==
    /\ p \in Timed
    /\ pc[p] # "idle" /\ ~expired[p]
    /\ expired' = [expired EXCEPT ![p] = TRUE]
    /\ latch' = [latch EXCEPT ![p] = TRUE]
    /\ UNCHANGED <<word, queue, lock, waiterVars, signalled, pc, callVars>>

\* Variant: a wait ended by a signal or a deadline always returns the error.
Outcome_Error(w) == "error"

Outcome(w) == IF wstate[w] = "Woken" THEN "woken" ELSE "error"

\* cancel_before_return: a wake that came first turns the error into success.
\* Otherwise the route is read without the bucket lock.
cancel(p) ==
    LET w == Cur(p) IN
    /\ pc[p] = "cancel"
    /\ \/ wstate[w] # "Queued" /\ Return(p, Outcome(w)) /\ UNCHANGED seen
       \/ /\ wstate[w] = "Queued"
          /\ seen' = [seen EXCEPT ![p] = [bucket |-> BucketOf[route[w].key],
                                          gen |-> route[w].gen]]
          /\ Goto(p, "locked")
    /\ UNCHANGED <<word, queue, lock, wstate, route, waitNo, signalled, callVars>>

\* Variant: the route read before the lock is trusted.
SameRoute_Trusted(p) == TRUE

SameRoute(p) ==
    /\ seen[p].bucket = BucketOf[route[Cur(p)].key]
    /\ seen[p].gen = route[Cur(p)].gen

\* Variant: the cancellation does not ask whether a wake came first.
MayCancel_Blind(p) == SameRoute(p)

\* FutexWaiter::try_cancel
MayCancel(p) == SameRoute(p) /\ wstate[Cur(p)] = "Queued"

\* Under the lock of the bucket read before: cancel and unlink, or start over.
try_cancel(p) ==
    LET w == Cur(p)
        b == seen[p].bucket
    IN  /\ pc[p] = "locked" /\ lock[b] = None
        /\ IF MayCancel(p)
           THEN /\ wstate' = [wstate EXCEPT ![w] = "Cancelled"]
                /\ queue' = [queue EXCEPT ![b] = SelectSeq(@, LAMBDA x : x # w)]
                /\ Return(p, "error")
           ELSE Goto(p, "cancel") /\ UNCHANGED <<wstate, queue>>
        /\ seen' = [seen EXCEPT ![p] = None]
        /\ UNCHANGED <<word, lock, route, waitNo, signalled, callVars>>

-----------------------------------------------------------------------------
(* wake(), wake_op() and requeue(), on behalf of caller a.                 *)

Start(a, o, next) ==
    /\ pc[a] = "idle" /\ calls[a] < MaxCalls
    /\ o.kind \in Ops
    /\ calls' = [calls EXCEPT ![a] = @ + 1]
    /\ op' = [op EXCEPT ![a] = o]
    /\ pc' = [pc EXCEPT ![a] = next]
    /\ UNCHANGED <<queue, lock, waiterVars, wakeVars, drains, batch>>

Call(kind, k, t, cmp) == [kind |-> kind, key |-> k, target |-> t, cmp |-> cmp]

\* User code that stores to a word, to wake everybody waiting on it next.
StoreAndWake(a, k, v) ==
    /\ Start(a, Call("store_wake", k, None, None), "mark")
    /\ word' = [word EXCEPT ![k] = v]

StartWake(a, k) == Start(a, Call("wake", k, None, None), "mark") /\ UNCHANGED word

TwoBuckets(k, t) == IF BucketOf[k] = BucketOf[t] THEN "mark" ELSE "lock"

StartWakeOp(a, k, t) ==
    Start(a, Call("wake_op", k, t, None), TwoBuckets(k, t)) /\ UNCHANGED word

\* requeue(), past its comparison outside the locks.
StartRequeue(a, k, t, cmp) ==
    /\ cmp # None => word[k] = cmp
    /\ Start(a, Call("requeue", k, t, cmp), TwoBuckets(k, t))
    /\ UNCHANGED word

\* Variant: the source bucket is always locked first.
FirstLock_Source(o) == BucketOf[o.key]

\* Two buckets are locked in the order of their numbers.
FirstLock(o) ==
    IF BucketOf[o.key] < BucketOf[o.target] THEN BucketOf[o.key] ELSE BucketOf[o.target]

SecondLock(o) ==
    IF FirstLock(o) = BucketOf[o.key] THEN BucketOf[o.target] ELSE BucketOf[o.key]

LockBucket(a, at, b, next) ==
    /\ pc[a] = at
    /\ lock[b] = None
    /\ lock' = [lock EXCEPT ![b] = a]
    /\ pc' = [pc EXCEPT ![a] = next]
    /\ UNCHANGED <<word, queue, waiterVars, wakeVars, callVars>>

LockBuckets(a) ==
    \/ pc[a] = "lock" /\ LockBucket(a, "lock", FirstLock(op[a]), "lock2")
    \/ pc[a] = "lock2" /\ LockBucket(a, "lock2", SecondLock(op[a]), "mark")

\* Caller a may work on the bucket: it holds its lock, or takes and drops it.
HasBucket(a, b) == lock[b] \in {None, a}

\* Variant: only the source bucket is unlocked.
Unlock_Source(a) == lock' = [lock EXCEPT ![BucketOf[op[a].key]] = None]

Unlock(a) == lock' = [b \in Buckets |-> IF lock[b] = a THEN None ELSE lock[b]]

\* Variant: a waiter that was selected before is selected and counted again.
Selectable_Again(k, mask) ==
    SelectSeq(queue[BucketOf[k]],
              LAMBDA w : route[w].key = k /\ args[w[1]] # None /\ args[w[1]].mask \cap mask # {})

\* The waiters of a key in queue order that a wake may still select.
Selectable(k, mask) ==
    SelectSeq(queue[BucketOf[k]],
              LAMBDA w : /\ wstate[w] = "Queued" /\ route[w].key = k
                         /\ args[w[1]].mask \cap mask # {})

Least(m, n) == IF m < n THEN m ELSE n
FirstN(s, n) == SubSeq(s, 1, Least(n, Len(s)))
MarkWoken(S) == wstate' = [w \in Waiters |-> IF w \in S THEN "Woken" ELSE wstate[w]]

\* u32::MAX.
AllBits == UNION Masks

\* mark_wake_locked on one key.
MarkWake(k, n, mask) == ToSet(FirstN(Selectable(k, mask), n))

\* The waiters are marked; the locks are dropped and the buckets bs drained next.
Marked(a, bs) ==
    /\ drains' = [drains EXCEPT ![a] = bs]
    /\ op' = [op EXCEPT ![a] = None]
    /\ pc' = [pc EXCEPT ![a] = "drain"]
    /\ Unlock(a)

\* wake() of n waiters: mark them under the lock, then drain the bucket.
MarkForWake(a, n, mask) ==
    LET o == op[a] IN
    /\ pc[a] = "mark" /\ o.kind \in {"wake", "store_wake"} /\ n > 0
    /\ o.kind = "store_wake" => mask = AllBits /\ \A x \in Counts : x <= n
    /\ lock[BucketOf[o.key]] = None
    /\ MarkWoken(MarkWake(o.key, n, mask))
    /\ Marked(a, <<BucketOf[o.key]>>)
    /\ UNCHANGED <<word, queue, route, waitNo, args, seen, result, wakeVars, batch, calls>>

\* wake_op_attempt: change the target's word, mark the waiters of the source
\* and, if the old value compares, those of the target.
MarkForWakeOp(a, n, m, new, compares) ==
    LET o == op[a]
        s == BucketOf[o.key]
        t == BucketOf[o.target]
        S == MarkWake(o.key, n, AllBits)
        T == FirstN(SelectSeq(Selectable(o.target, AllBits), LAMBDA w : w \notin S), m)
    IN  /\ pc[a] = "mark" /\ o.kind = "wake_op"
        /\ HasBucket(a, s) /\ HasBucket(a, t)
        /\ word' = [word EXCEPT ![o.target] = new]
        /\ MarkWoken(S \cup (IF compares THEN ToSet(T) ELSE {}))
        /\ Marked(a, IF s = t THEN <<s>> ELSE <<s, t>>)
        /\ UNCHANGED <<queue, route, waitNo, args, seen, result, wakeVars, batch, calls>>

\* Variant: a waiter that moves to another bucket stays in its old queue.
MoveWaiters_Copy(s, t, moved) ==
    queue' = [queue EXCEPT ![t] = IF s = t THEN @ ELSE @ \o moved]

\* requeue_to: moved waiters go to the end of another bucket, and keep their
\* places in the same one.
MoveWaiters(s, t, moved) ==
    queue' = IF s = t THEN queue
             ELSE [queue EXCEPT ![s] = SelectSeq(@, LAMBDA w : w \notin ToSet(moved)),
                                ![t] = @ \o moved]

\* Variant: the drain that follows looks at the target's bucket.
RequeueDrains_Target(s, t) == <<t>>

RequeueDrains(s, t) == <<s>>

\* requeue_same_bucket / requeue_distinct_buckets, after compare_locked.
Requeue(a, n, m) ==
    LET o == op[a]
        s == BucketOf[o.key]
        t == BucketOf[o.target]
        Q == Selectable(o.key, AllBits)
        woken == FirstN(Q, n)
        moved == FirstN(SubSeq(Q, Len(woken) + 1, Len(Q)), m)
    IN  /\ pc[a] = "mark" /\ o.kind = "requeue"
        /\ HasBucket(a, s) /\ HasBucket(a, t)
        /\ o.cmp # None => word[o.key] = o.cmp
        /\ MarkWoken(ToSet(woken))
        /\ route' = [w \in Waiters |->
                        IF w \in ToSet(moved)
                        THEN [key |-> o.target, gen |-> route[w].gen + 1]
                        ELSE route[w]]
        /\ MoveWaiters(s, t, moved)
        /\ Marked(a, RequeueDrains(s, t))
        /\ UNCHANGED <<word, waitNo, args, seen, result, wakeVars, batch, calls>>

\* The word changed or is not resident: the locks are dropped, nothing was
\* marked and nothing is drained.
MarkFails(a) ==
    LET o == op[a] IN
    /\ pc[a] = "mark" /\ o.kind \in {"wake_op", "requeue"}
    /\ HasBucket(a, BucketOf[o.key]) /\ HasBucket(a, BucketOf[o.target])
    /\ o.kind = "requeue" => o.cmp # None
    /\ Unlock(a)
    /\ op' = [op EXCEPT ![a] = None]
    /\ pc' = [pc EXCEPT ![a] = "idle"]
    /\ UNCHANGED <<word, queue, waiterVars, wakeVars, drains, batch, calls>>

\* Where a caller goes on with nothing left to wake: its next bucket, or back.
NextDrain(bs) == IF bs = <<>> THEN "idle" ELSE "drain"

\* drain_inactive under the bucket lock: whoever is Woken leaves the queue ...
drain_inactive(a) ==
    LET b == Head(drains[a])
        woken == SelectSeq(queue[b], LAMBDA w : wstate[w] = "Woken")
    IN  /\ pc[a] = "drain" /\ lock[b] = None
        /\ batch' = [batch EXCEPT ![a] = woken]
        /\ queue' = [queue EXCEPT ![b] = SelectSeq(@, LAMBDA w : wstate[w] = "Queued")]
        /\ drains' = [drains EXCEPT ![a] = Tail(@)]
        /\ pc' = [pc EXCEPT ![a] = IF woken # <<>> THEN "notify" ELSE NextDrain(Tail(drains[a]))]
        /\ UNCHANGED <<word, lock, waiterVars, wakeVars, op, calls>>

\* Variant: a thread that has not parked yet is not told.
SetLatch_Parked(p) == latch' = [latch EXCEPT ![p] = @ \/ pc[p] = "park"]

\* KWaker::wake_by_ref
SetLatch(p) == latch' = [latch EXCEPT ![p] = pc[p] # "idle"]

\* ... and is woken without it, one wake_task at a time.  The waker of an earlier
\* wait unblocks its task without setting the latch of the present one.
wake_task(a) ==
    LET w == Head(batch[a])
        p == w[1]
        next == IF Len(batch[a]) > 1 THEN "notify" ELSE NextDrain(drains[a])
    IN  /\ pc[a] = "notify"
        /\ batch' = [batch EXCEPT ![a] = Tail(@)]
        /\ \/ /\ w = Cur(p)
              /\ SetLatch(p)
              /\ pc' = [pc EXCEPT ![a] = next]
           \/ /\ w # Cur(p) /\ UNCHANGED latch
              /\ \E l \in {pc[p]} \cup (IF pc[p] = "park" THEN {"poll"} ELSE {}) :
                    pc' = [pc EXCEPT ![a] = next, ![p] = l]
        /\ UNCHANGED <<word, queue, lock, waiterVars, signalled, expired, op, drains, calls>>

-----------------------------------------------------------------------------
Wait(p) ==
    \/ \E k \in Keys, v \in Values, mask \in Masks : wait(p, k, v, mask)
    \/ interrupt(p) \/ timeout(p)

WaitStep(p) ==
    poll(p) \/ enqueue(p) \/ select(p) \/ park(p) \/ cancel(p) \/ try_cancel(p)

CallStart(a) ==
    \E k, t \in Keys :
        \/ \E v \in Values : StoreAndWake(a, k, v)
        \/ StartWake(a, k)
        \/ StartWakeOp(a, k, t)
        \/ \E cmp \in Values \cup {None} : StartRequeue(a, k, t, cmp)

CallStep(a) ==
    \/ LockBuckets(a)
    \/ \E n \in Counts, mask \in Masks \cup {AllBits} : MarkForWake(a, n, mask)
    \/ \E n, m \in Counts : Requeue(a, n, m)
    \/ \E n, m \in Counts, new \in Values, compares \in BOOLEAN :
          MarkForWakeOp(a, n, m, new, compares)
    \/ MarkFails(a) \/ drain_inactive(a) \/ wake_task(a)

Next ==
    \/ \E p \in Threads : Wait(p) \/ WaitStep(p)
    \/ \E a \in Callers : CallStart(a) \/ CallStep(a)

Spec == Init /\ [][Next]_vars

(* Tasks and callers that are not parked or waiting for a lock go on.      *)
Fairness ==
    /\ \A p \in Threads : WF_vars(WaitStep(p))
    /\ \A a \in Callers : WF_vars(CallStep(a))

LiveSpec == Spec /\ Fairness

-----------------------------------------------------------------------------
Linked(w) == {<<b, i>> \in Buckets \X (1..Cardinality(Waiters)) :
                 i <= Len(queue[b]) /\ queue[b][i] = w}

(* requeue_to against cancel: a Queued waiter is linked exactly once, in   *)
(* the bucket its route names; a Woken one at most once; one that never    *)
(* queued or was cancelled is linked nowhere.                              *)
QueueMatchesRoute ==
    \A w \in Waiters :
        /\ wstate[w] = "Queued" =>
              \E i \in 1..Cardinality(Waiters) : Linked(w) = {<<BucketOf[route[w].key], i>>}
        /\ wstate[w] = "Woken" => Cardinality(Linked(w)) <= 1
        /\ wstate[w] \in {"Init", "Cancelled"} => Linked(w) = {}

\* Caller a will drain bucket b, or has w in its batch.
WillNotify(a, w) ==
    \/ w \in ToSet(batch[a])
    \/ \E x \in Linked(w) : x[1] \in ToSet(drains[a])

(* A thread parked on a waiter that a wake has selected has its latch set, *)
(* or a caller is still to drain the waiter and wake the thread            *)
(* (drain_inactive after mark_wake_locked).                                *)
WokenIsNotified ==
    \A p \in Threads :
        pc[p] = "park" /\ wstate[Cur(p)] = "Woken" =>
            latch[p] \/ \E a \in Callers : WillNotify(a, Cur(p))

(* "one wake cannot be consumed by an error return" (wait): a wait that    *)
(* returns an error was not selected by a wake, and one that returns       *)
(* success was.                                                            *)
WakeNotSwallowed ==
    \A p \in Threads : result[p] # "none" =>
        (result[p] = "woken" <=> wstate[Cur(p)] = "Woken")

(* FutexWaitFuture::poll compares under the bucket lock: when every store  *)
(* is followed by a wake of all, a thread is queued only while its word    *)
(* has the expected value or that wake is still to come.                   *)
NoMissedStore ==
    \A p \in Threads :
        waitNo[p] > 0 /\ wstate[Cur(p)] = "Queued" =>
            \/ word[args[p].key] = args[p].expected
            \/ \E a \in Callers : pc[a] = "mark" /\ op[a].key = args[p].key

(* A selected wait returns.                                                *)
WokenReturns ==
    \A w \in Waiters :
        wstate[w] = "Woken" ~> waitNo[w[1]] # w[2] \/ pc[w[1]] = "idle"

(* wake, wake_op and requeue return: two calls that lock two buckets each  *)
(* never wait for one another.                                             *)
CallsReturn == \A a \in Callers : pc[a] # "idle" ~> pc[a] = "idle"

-----------------------------------------------------------------------------
(* What wait, wake, wake_op and requeue promise, and how the table gives   *)
(* it: a thread sleeps while its waiter is Queued.                         *)
Abstract == INSTANCE FutexSpec WITH
    asked <- args,
    asleep <- [p \in Threads |->
                  IF waitNo[p] > 0 /\ wstate[Cur(p)] = "Queued" THEN route[Cur(p)].key ELSE None],
    woken <- {p \in Threads : waitNo[p] > 0 /\ wstate[Cur(p)] = "Woken" /\ pc[p] # "idle"}

(* Comparing and sleeping, waking at most n, and waking some while moving  *)
(* others each look atomic (FutexSpec).                                    *)
ImplementsFutex == Abstract!Spec

=============================================================================
