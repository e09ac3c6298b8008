-------------------------------- MODULE Lists --------------------------------
(* The intrusive lists of wait nodes and of preempted readers. *)
EXTENDS Naturals, Sequences

In(q, t) == \E i \in 1..Len(q) : q[i] = t

Distinct(q) == \A i, j \in 1..Len(q) : q[i] = q[j] => i = j

Position(q, t) == CHOOSE i \in 1..Len(q) : q[i] = t

(* cursor_mut_from_ptr(node).remove(). *)
Without(q, t) ==
    [j \in 1..(Len(q) - 1) |-> IF j < Position(q, t) THEN q[j] ELSE q[j + 1]]
=============================================================================
