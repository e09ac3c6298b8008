---------------------------- MODULE MCCompletion ----------------------------
(* Small instances of Completion for TLC.                                  *)
EXTENDS Completion, TLC

CONSTANTS t1, t2
=============================================================================
