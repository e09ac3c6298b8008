-------------------------------- MODULE MCRcu --------------------------------
(* Small instances of RcuCallbacks for TLC. *)
EXTENDS RcuCallbacks, TLC

CONSTANTS r1, r2, b1, b2

Symmetry == Permutations(Tasks) \cup Permutations(Callbacks)

(* What happens together: two readers and one callback; one reader and one    *)
(* callback, of either CPU, with quiescent windows and interrupts; one reader *)
(* and two callbacks, hence two periods; no reader, a drain and two callbacks *)
(* on one queue or on both.                                                   *)
Alive == Cardinality(Tasks \ exited)
Quiet == \E c \in CPUs : mode[c] = "quiet"
Interrupted == \E c \in CPUs : irq[c] # "none"

Bound ==
    /\ Alive = 2 => Cardinality(Submitted) <= 1 /\ invoked = {}
    /\ Alive + Cardinality(Submitted) >= 3 => outstanding[2] = 0
    /\ Quiet \/ Interrupted => Alive = 1 /\ Cardinality(Submitted) <= 1
    /\ drains > 0 => Alive = 0
    /\ drain.at # 0 \/ invoked # Callbacks
=============================================================================
