------------------------------- MODULE Bucket --------------------------------
(***************************************************************************)
(* The arithmetic of labs/primitives/token-bucket/bucket.go: what a bucket *)
(* makes of a moment and of an amount.  The modules that hold buckets      *)
(* (TokenBucket, RateLimiter) build their steps from these operators.      *)
(*                                                                         *)
(* Balances are unsigned words (Word stands for 2^64) and intervals signed *)
(* ones (MaxDuration stands for 2^63 - 1): sums and products wrap.         *)
(***************************************************************************)
EXTENDS Integers

CONSTANTS Capacity, RefillEvery, \* the configuration
          Word,                  \* one more than the largest balance a word holds
          MaxDuration            \* the largest time.Duration

ASSUME BucketAssumption ==
  /\ Capacity \in Nat \ {0} /\ Capacity < Word /\ Word \in Nat
  /\ MaxDuration \in Nat
  /\ RefillEvery \in 1 .. MaxDuration

Bucket == [available : 0 .. Capacity, refillAnchor : Nat, lastObserved : Nat]

(* time.Duration arithmetic wraps around like any int64.                   *)
Duration(n) == ((n + MaxDuration + 1) % (2 * (MaxDuration + 1))) - (MaxDuration + 1)

(* Time.Sub saturates.                                                     *)
Sub(t, u) == IF t - u > MaxDuration THEN MaxDuration ELSE t - u

New(now) == [available |-> Capacity, refillAnchor |-> now, lastObserved |-> now]

(* Mutant: the sum of the words is not capped.                             *)
Refilled_Uncapped(b, whole) == (b.available + whole) % Word

(* observeLocked: credit what the whole intervals since the anchor bring,  *)
(* and move the anchor by exactly these, also if the bucket was full.      *)
Refilled(b, whole) ==
  IF whole >= Capacity - b.available THEN Capacity ELSE (b.available + whole) % Word

(* Mutants: a full bucket keeps its anchor; the remainder is dropped.      *)
Credit_FullKeepsAnchor(b, now) ==
  LET elapsed == Sub(now, b.refillAnchor)
  IN [available |-> Refilled(b, elapsed \div RefillEvery),
      refillAnchor |-> IF b.available = Capacity THEN b.refillAnchor
                       ELSE b.refillAnchor + (elapsed - (elapsed % RefillEvery)),
      lastObserved |-> now]
Credit_DropsRemainder(b, now) ==
  [available |-> Refilled(b, Sub(now, b.refillAnchor) \div RefillEvery),
   refillAnchor |-> now, lastObserved |-> now]

Credit(b, now) ==
  LET elapsed == Sub(now, b.refillAnchor)
      remainder == elapsed % RefillEvery
  IN [available |-> Refilled(b, elapsed \div RefillEvery),
      refillAnchor |-> b.refillAnchor + (elapsed - remainder),
      lastObserved |-> now]

Remainder(b, now) == Sub(now, b.refillAnchor) % RefillEvery

(* Mutant: the clock is compared with the anchor only.                     *)
ObserveError_AnchorOnly(b, now) ==
  CASE now < b.refillAnchor -> "ErrTimeRollback"
    [] Sub(now, b.refillAnchor) = MaxDuration /\ b.refillAnchor + MaxDuration # now ->
         "ErrTimeOverflow"
    [] OTHER -> "nil"

ObserveError(b, now) ==
  CASE now < b.lastObserved -> "ErrTimeRollback"
    [] /\ now >= b.lastObserved
       /\ Sub(now, b.refillAnchor) = MaxDuration
       /\ b.refillAnchor + MaxDuration # now -> "ErrTimeOverflow"
    [] OTHER -> "nil"

(* Mutant: the product is not checked.                                     *)
RetryAfter_Unchecked(remainder, need) ==
  Duration((RefillEvery - remainder) + Duration((need - 1) * RefillEvery))

(* How long until `need` tokens have come: the rest of the running         *)
(* interval and need - 1 whole ones, or the longest duration there is.     *)
RetryAfter(remainder, need) ==
  LET first == RefillEvery - remainder
      extra == need - 1
  IN CASE need <= 1 -> first
       [] need > 1 /\ extra > (MaxDuration - first) \div RefillEvery -> MaxDuration
       [] OTHER -> Duration(first + Duration(extra * RefillEvery))

TakeError(b, now, amount) ==
  CASE amount = 0 -> "ErrInvalidAmount"
    [] amount > Capacity -> "ErrAmountExceedsCapacity"
    [] OTHER -> ObserveError(b, now)

(* Mutant: off by one.                                                     *)
Denied_OffByOne(b, now, amount) == Credit(b, now).available + 1 < amount

Denied(b, now, amount) == Credit(b, now).available < amount
==============================================================================
