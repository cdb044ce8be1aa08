---------------------------- MODULE MCTokenBucket ----------------------------
(* Instances of TokenBucket for TLC. *)
EXTENDS TokenBucket

(* The bounds on the moments and on the amounts of a run.                  *)
CONSTANTS MaxTime, MaxAmount

Moments == 0 .. MaxTime
Amounts == 0 .. MaxAmount
==============================================================================
