------------------------------- MODULE MCFutex ------------------------------
(* Two keys in two buckets or in one, one or two match bits. *)
EXTENDS Futex

CONSTANTS k1, k2

TwoBucketsOf == (k1 :> 1) @@ (k2 :> 2)
OneBucketOf == (k1 :> 1) @@ (k2 :> 1)
StoreBucketOf == (k1 :> 1)
OneMask == {{1}}
TwoMasks == {{1}, {2}}
Symmetry == Permutations(Threads) \cup Permutations(Callers)
CallerSymmetry == Permutations(Callers)

=============================================================================
