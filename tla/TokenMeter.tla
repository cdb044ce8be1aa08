----------------------------- MODULE TokenMeter ------------------------------
(***************************************************************************)
(* What the token bucket of labs/primitives/token-bucket promises: a meter *)
(* that is credited one token at every boundary of a fixed grid of time    *)
(* and holds at most Capacity of them.  It keeps no anchor and no          *)
(* remainder: the boundaries between two moments can be counted.           *)
(***************************************************************************)
EXTENDS Integers

CONSTANTS Capacity,    \* the most tokens the meter holds
          RefillEvery, \* the distance between two boundaries
          Epoch,       \* the moment the meter starts full: a boundary
          Moment       \* the moments anybody may look at it

VARIABLES tokens, \* the balance
          seen    \* the latest moment anybody has looked at

vars == <<tokens, seen>>

Boundary(t) == (t - Epoch) \div RefillEvery

(* The balance at t of a meter that nobody has touched since it was seen.  *)
BalanceAt(t) ==
  LET credited == tokens + (Boundary(t) - Boundary(seen))
  IN IF credited < Capacity THEN credited ELSE Capacity

Init == tokens = Capacity /\ seen = Epoch

Spend(t, amount) ==
  /\ t >= seen /\ amount <= BalanceAt(t)
  /\ tokens' = BalanceAt(t) - amount /\ seen' = t

Look(t) ==
  /\ t >= seen
  /\ tokens' = BalanceAt(t) /\ seen' = t

Next == \E t \in Moment : Look(t) \/ \E amount \in 1 .. Capacity : Spend(t, amount)

Spec == Init /\ [][Next]_vars
==============================================================================
