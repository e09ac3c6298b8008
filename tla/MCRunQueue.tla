----------------------------- MODULE MCRunQueue -----------------------------
(* Small instances of RunQueue for TLC.                                    *)
EXTENDS RunQueue, TLC

CONSTANTS c1, c2, t1, t2, h1, w1, w2, s1

OneMask == {CPUs}
CpuSymmetry == Permutations(CPUs)
Pins == {{c} : c \in CPUs}
AllMasks == (SUBSET CPUs) \ {{}}
=============================================================================
