----------------------------- MODULE TokenBucket -----------------------------
(***************************************************************************)
(* labs/primitives/token-bucket/bucket.go.  Every operation runs under the *)
(* bucket's mutex, so an operation is one step; the moment `now` is read   *)
(* by the caller before it has the mutex, so it is any moment at all.      *)
(***************************************************************************)
EXTENDS Bucket

CONSTANTS Epoch,  \* the moment of New
          Moment, \* the moments the callers read from their clocks
          Amount  \* the amounts that are asked for

ASSUME TokenBucketAssumption == Epoch \in Nat /\ Moment \subseteq Nat /\ Amount \subseteq Nat

VARIABLES bucket, \* the fields of Bucket
          window  \* a span of time that some observer watches (auxiliary)

vars == <<bucket, window>>

Window == [open : BOOLEAN, start : Nat, balance : Nat, passed : Nat]

TypeOK == bucket \in Bucket /\ window \in Window

Init ==
  /\ bucket = New(Epoch)
  /\ window = [open |-> FALSE, start |-> 0, balance |-> 0, passed |-> 0]

(* Take: an error leaves the bucket alone, a denial commits the look.      *)
Take(now, amount) ==
  \/ TakeError(bucket, now, amount) # "nil" /\ UNCHANGED vars
  \/ /\ TakeError(bucket, now, amount) = "nil"
     /\ Denied(bucket, now, amount)
     /\ bucket' = Credit(bucket, now)
     /\ UNCHANGED window
  \/ /\ TakeError(bucket, now, amount) = "nil"
     /\ ~Denied(bucket, now, amount)
     /\ bucket' = [Credit(bucket, now) EXCEPT !.available = @ - amount]
     /\ window' = IF window.open THEN [window EXCEPT !.passed = @ + amount] ELSE window

Available(now) ==
  /\ bucket' = IF ObserveError(bucket, now) = "nil" THEN Credit(bucket, now) ELSE bucket
  /\ UNCHANGED window

(* The observer starts to count what passes, any time but once.            *)
OpenWindow ==
  /\ ~window.open
  /\ window' = [open |-> TRUE, start |-> bucket.lastObserved,
                balance |-> bucket.available, passed |-> 0]
  /\ UNCHANGED bucket

Next ==
  \/ \E now \in Moment : Available(now) \/ \E amount \in Amount : Take(now, amount)
  \/ OpenWindow

Spec == Init /\ [][Next]_vars

------------------------------------------------------------------------------
(* Properties.                                                             *)

Boundary(t) == (t - Epoch) \div RefillEvery

(* principles/token-bucket: what passes within any span of time is no more *)
(* than the balance at its start and one token for every whole interval    *)
(* that ends in it; what is left in the bucket counts against the same     *)
(* limit, so nothing of it can be spent twice.                             *)
WindowIsBounded ==
  window.open =>
    window.passed + bucket.available
      <= window.balance + (Boundary(bucket.lastObserved) - Boundary(window.start))

(* The anchor stays on the grid that began with New, less than one interval *)
(* behind: neither reads nor denials nor a full bucket lose a remainder or  *)
(* keep a credit for later.                                                 *)
AnchorOnGrid ==
  /\ (bucket.refillAnchor - Epoch) % RefillEvery = 0
  /\ bucket.refillAnchor <= bucket.lastObserved
  /\ bucket.lastObserved < bucket.refillAnchor + RefillEvery

(* The inductive invariant behind the safety properties.                   *)
IInv ==
  /\ TypeOK /\ AnchorOnGrid /\ WindowIsBounded
  /\ bucket.refillAnchor >= Epoch
  /\ window.open => window.start \in Epoch .. bucket.lastObserved

Served(b, now, amount) == TakeError(b, now, amount) = "nil" /\ ~Denied(b, now, amount)

(* The wait that a denial reports is exact: whoever comes back then, and   *)
(* nobody came between, is served (unless the moment is farther from the   *)
(* anchor than a duration can say); a moment earlier he is not.  A wait    *)
(* that cannot be expressed is reported as the longest duration there is,  *)
(* never as a shorter one.                                                 *)
RetryIsExact ==
  \A now \in Moment, amount \in Amount :
    TakeError(bucket, now, amount) = "nil" /\ Denied(bucket, now, amount) =>
      LET after == Credit(bucket, now)
          wait == RetryAfter(Remainder(bucket, now), amount - after.available)
      IN /\ wait \in 1 .. MaxDuration
         /\ ~Served(after, now + wait - 1, amount)
         /\ wait < MaxDuration =>
              \/ Served(after, now + wait, amount)
              \/ ObserveError(after, now + wait) = "ErrTimeOverflow"

(* The bucket with its anchor and remainder does what the meter on the     *)
(* fixed grid does, errors being no step of the meter.                     *)
Meter == INSTANCE TokenMeter WITH tokens <- bucket.available, seen <- bucket.lastObserved
MeterSpec == Meter!Spec
==============================================================================
