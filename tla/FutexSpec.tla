------------------------------ MODULE FutexSpec -----------------------------
(***************************************************************************)
(* What the futex calls promise, without buckets, locks or waiters: every  *)
(* call acts on the sleeping threads at once.                              *)
(***************************************************************************)
EXTENDS Integers, FiniteSets

CONSTANTS Threads, Keys, Values, Masks, Counts, None

VARIABLES
    word,     \* user memory
    asked,    \* what the wait a thread is in asks for, or None
    asleep,   \* the key a thread sleeps on, or None
    woken,    \* threads selected by a wake that have not returned yet
    result    \* what the last wait of a thread returned

absVars == <<word, asked, asleep, woken, result>>

AbsInit ==
    /\ word \in [Keys -> Values]
    /\ asked = [p \in Threads |-> None]
    /\ asleep = [p \in Threads |-> None]
    /\ woken = {}
    /\ result = [p \in Threads |-> "none"]

\* A wait begins.
Ask(p) ==
    /\ asked[p] = None
    /\ \E k \in Keys, v \in Values, mask \in Masks :
          asked' = [asked EXCEPT ![p] = [key |-> k, expected |-> v, mask |-> mask]]
    /\ result' = [result EXCEPT ![p] = "none"]
    /\ UNCHANGED <<word, asleep, woken>>

\* Compare and sleep, in one step.
Sleep(p) ==
    /\ asked[p] # None /\ asleep[p] = None /\ p \notin woken
    /\ word[asked[p].key] = asked[p].expected
    /\ asleep' = [asleep EXCEPT ![p] = asked[p].key]
    /\ UNCHANGED <<word, asked, woken, result>>

\* A mismatch, a timeout or a signal ends a wait that no wake has selected.
GiveUp(p) ==
    /\ asked[p] # None /\ p \notin woken
    /\ asked' = [asked EXCEPT ![p] = None]
    /\ asleep' = [asleep EXCEPT ![p] = None]
    /\ \E r \in {"mismatch", "error"} : result' = [result EXCEPT ![p] = r]
    /\ UNCHANGED <<word, woken>>

\* A selected wait returns success.
ReturnWoken(p) ==
    /\ p \in woken
    /\ woken' = woken \ {p}
    /\ asked' = [asked EXCEPT ![p] = None]
    /\ result' = [result EXCEPT ![p] = "woken"]
    /\ UNCHANGED <<word, asleep>>

Store(k) ==
    /\ \E v \in Values : word' = [word EXCEPT ![k] = v]
    /\ UNCHANGED <<asked, asleep, woken, result>>

Sleepers(k, mask) == {p \in Threads : asleep[p] = k /\ asked[p].mask \cap mask # {}}

\* As many of the threads in S as n allows.
UpTo(S, n) == {W \in SUBSET S : Cardinality(W) = n \/ (W = S /\ Cardinality(S) < n)}
AllBits == UNION Masks

WakeThreads(W) ==
    /\ woken' = woken \cup W
    /\ asleep' = [p \in Threads |-> IF p \in W THEN None ELSE asleep[p]]

Wake(k, n, mask) ==
    /\ \E W \in UpTo(Sleepers(k, mask), n) : WakeThreads(W)
    /\ UNCHANGED <<word, asked, result>>

\* Store to the word of t, wake n threads of k and perhaps m of t.
WakeOp(k, t, n, m) ==
    /\ \E v \in Values : word' = [word EXCEPT ![t] = v]
    /\ \E W \in UpTo(Sleepers(k, AllBits), n) :
          \E V \in {{}} \cup UpTo(Sleepers(t, AllBits) \ W, m) : WakeThreads(W \cup V)
    /\ UNCHANGED <<asked, result>>

\* Wake n threads of k and move m others to t.
Move(k, t, n, m) ==
    /\ \E W \in UpTo(Sleepers(k, AllBits), n) :
          \E M \in UpTo(Sleepers(k, AllBits) \ W, m) :
          /\ woken' = woken \cup W
          /\ asleep' = [p \in Threads |-> IF p \in W THEN None
                                          ELSE IF p \in M THEN t ELSE asleep[p]]
    /\ UNCHANGED <<word, asked, result>>

AbsNext ==
    /\ absVars # absVars'   \* a call that changes nothing is a stutter
    /\ \/ \E p \in Threads : Ask(p) \/ Sleep(p) \/ GiveUp(p) \/ ReturnWoken(p)
       \/ \E k \in Keys : Store(k)
       \/ \E k, t \in Keys, n, m \in Counts : WakeOp(k, t, n, m) \/ Move(k, t, n, m)
       \/ \E k \in Keys, n \in Counts, mask \in Masks \cup {AllBits} : Wake(k, n, mask)

Spec == AbsInit /\ [][AbsNext]_absVars

=============================================================================
