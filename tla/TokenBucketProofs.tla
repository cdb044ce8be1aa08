-------------------------- MODULE TokenBucketProofs --------------------------
(***************************************************************************)
(* For every configuration, every sequence of moments and amounts: the     *)
(* bucket's invariant, the bound on what passes in a window, and that the  *)
(* bucket implements the meter on the fixed grid of boundaries.            *)
(***************************************************************************)
EXTENDS TokenBucket, TLAPS

(* Division with remainder: there is a quotient and a remainder.           *)
LEMMA Division ==
  ASSUME NEW x \in Nat, NEW r \in Nat \ {0}
  PROVE  /\ x \div r \in Nat /\ (x % r) \in 0 .. (r - 1)
         /\ x = r * (x \div r) + (x % r)
OBVIOUS

(* Division with remainder: there is only one.                             *)
LEMMA DivisionUnique ==
  ASSUME NEW r \in Nat \ {0}, NEW q \in Nat, NEW k \in 0 .. (r - 1)
  PROVE  (r * q + k) \div r = q /\ ((r * q + k) % r) = k
<1> DEFINE n == r * q + k
<1>1. n \in Nat OBVIOUS
<1>2. n = r * (n \div r) + (n % r) /\ (n % r) \in 0 .. (r - 1) /\ n \div r \in Nat
  BY <1>1, Division
<1> HIDE DEF n
<1>3. ASSUME NEW p \in Nat, NEW j \in 0 .. (r - 1), r * q + k = r * p + j, q < p PROVE FALSE
  <2>1. p >= q + 1 BY <1>3
  <2>2. r * p >= r * (q + 1) BY <2>1
  <2> QED BY <1>3, <2>2
<1>4. ASSUME NEW p \in Nat, NEW j \in 0 .. (r - 1), r * q + k = r * p + j, p < q PROVE FALSE
  <2>1. q >= p + 1 BY <1>4
  <2>2. r * q >= r * (p + 1) BY <2>1
  <2> QED BY <1>4, <2>2
<1>5. n \div r = q BY <1>2, <1>3, <1>4 DEF n
<1> QED BY <1>2, <1>5 DEF n

(* The boundaries that lie between the last look and now.                  *)
Crossed(now) == Boundary(now) - Boundary(bucket.lastObserved)

(* A look that the bucket accepts credits one token for every boundary     *)
(* crossed, up to the capacity, and leaves the anchor on the grid.         *)
LEMMA CreditIsExact ==
  ASSUME TypeOK, AnchorOnGrid, bucket.refillAnchor >= Epoch,
         NEW now \in Nat, ObserveError(bucket, now) = "nil"
  PROVE  LET c == Credit(bucket, now)
             credited == bucket.available + Crossed(now)
         IN /\ c \in Bucket
            /\ c.available = IF credited < Capacity THEN credited ELSE Capacity
            /\ c.lastObserved = now /\ now >= bucket.lastObserved
            /\ Crossed(now) \in Nat /\ Boundary(now) \in Nat /\ Boundary(bucket.lastObserved) \in Nat
            /\ (c.refillAnchor - Epoch) % RefillEvery = 0
            /\ c.refillAnchor >= Epoch
            /\ c.refillAnchor <= now /\ now < c.refillAnchor + RefillEvery
<1> USE BucketAssumption, TokenBucketAssumption
<1> DEFINE anchor == bucket.refillAnchor
           k == (anchor - Epoch) \div RefillEvery
           elapsed == Sub(now, anchor)
           whole == elapsed \div RefillEvery
           rem == elapsed % RefillEvery
<1>1. /\ anchor \in Nat /\ bucket.lastObserved \in Nat /\ bucket.available \in 0 .. Capacity
      /\ RefillEvery \in Nat \ {0}
      /\ anchor <= bucket.lastObserved /\ bucket.lastObserved < anchor + RefillEvery
      /\ anchor >= Epoch
  BY DEF TypeOK, Bucket, AnchorOnGrid
<1>2. now >= bucket.lastObserved /\ elapsed \in Nat /\ anchor + elapsed = now
  BY <1>1 DEF ObserveError, Sub
<1>3. k \in Nat /\ anchor - Epoch = RefillEvery * k
  <2>1. anchor - Epoch \in Nat BY <1>1
  <2>2. anchor - Epoch = RefillEvery * k + ((anchor - Epoch) % RefillEvery) /\ k \in Nat
    BY <1>1, <2>1, Division
  <2> QED BY <2>2, <1>1 DEF AnchorOnGrid
<1>c. Credit(bucket, now) = [available |-> Refilled(bucket, whole),
                             refillAnchor |-> anchor + (elapsed - rem),
                             lastObserved |-> now]
  BY DEF Credit
<1> HIDE DEF elapsed, k
<1>4. whole \in Nat /\ rem \in 0 .. (RefillEvery - 1) /\ elapsed = RefillEvery * whole + rem
  BY <1>1, <1>2, Division
<1> HIDE DEF whole, rem
<1>5. Boundary(bucket.lastObserved) = k
  <2>1. bucket.lastObserved - Epoch = RefillEvery * k + (bucket.lastObserved - anchor) BY <1>1, <1>3
  <2>2. bucket.lastObserved - anchor \in 0 .. (RefillEvery - 1) BY <1>1
  <2> QED BY <1>1, <1>3, <2>1, <2>2, DivisionUnique DEF Boundary
<1>6. now - Epoch = RefillEvery * (k + whole) + rem
  <2>1. RefillEvery * (k + whole) = RefillEvery * k + RefillEvery * whole BY <1>1, <1>3, <1>4
  <2> QED BY <1>1, <1>2, <1>3, <1>4, <2>1
<1>7. Boundary(now) = k + whole /\ k + whole \in Nat
  <2>1. k + whole \in Nat BY <1>3, <1>4
  <2>2. (RefillEvery * (k + whole) + rem) \div RefillEvery = k + whole
    BY <1>1, <1>4, <2>1, DivisionUnique
  <2> QED BY <1>6, <2>1, <2>2 DEF Boundary
<1>8. Crossed(now) = whole
  <2>1. (k + whole) - k = whole BY <1>3, <1>4
  <2> QED BY <1>5, <1>7, <2>1 DEF Crossed
<1>9. Refilled(bucket, whole) = IF bucket.available + whole < Capacity
                                THEN bucket.available + whole ELSE Capacity
  <2>1. CASE whole >= Capacity - bucket.available BY <1>1, <1>4, <2>1 DEF Refilled
  <2>2. CASE whole < Capacity - bucket.available
    <3>1. bucket.available + whole \in Nat /\ bucket.available + whole < Word BY <1>1, <1>4, <2>2
    <3>2. (bucket.available + whole) % Word = bucket.available + whole BY <3>1
    <3> QED BY <1>1, <1>4, <2>2, <3>2 DEF Refilled
  <2> QED BY <1>1, <1>4, <2>1, <2>2
<1>10. /\ anchor + (elapsed - rem) \in Nat /\ anchor + (elapsed - rem) >= Epoch
       /\ anchor + (elapsed - rem) <= now /\ now < anchor + (elapsed - rem) + RefillEvery
  <2>1. RefillEvery * whole \in Nat BY <1>1, <1>4
  <2>2. elapsed - rem = RefillEvery * whole BY <1>2, <1>4, <2>1
  <2> QED BY <1>1, <1>2, <1>4, <2>1, <2>2
<1>11. (anchor + (elapsed - rem) - Epoch) % RefillEvery = 0
  <2>1. RefillEvery * (k + whole) \in Nat BY <1>1, <1>7
  <2>2. anchor + (elapsed - rem) - Epoch = RefillEvery * (k + whole) + 0
    BY <1>1, <1>2, <1>4, <1>6, <2>1
  <2>3. (RefillEvery * (k + whole) + 0) % RefillEvery = 0 BY <1>1, <1>7, DivisionUnique
  <2> QED BY <2>2, <2>3
<1> DEFINE c == Credit(bucket, now)
<1>12. /\ c.available = Refilled(bucket, whole) /\ c.refillAnchor = anchor + (elapsed - rem)
       /\ c.lastObserved = now
  BY <1>c
<1>13. c \in Bucket
  <2>1. Refilled(bucket, whole) \in 0 .. Capacity BY <1>1, <1>4, <1>9
  <2> QED BY <1>c, <1>10, <2>1 DEF Bucket
<1>14. Crossed(now) \in Nat /\ Boundary(bucket.lastObserved) \in Nat BY <1>3, <1>4, <1>5, <1>8
<1>15. c.available = IF bucket.available + Crossed(now) < Capacity
                     THEN bucket.available + Crossed(now) ELSE Capacity
  BY <1>8, <1>9, <1>12
<1> HIDE DEF c
<1>16. /\ c.refillAnchor >= Epoch /\ c.refillAnchor <= now /\ now < c.refillAnchor + RefillEvery
       /\ (c.refillAnchor - Epoch) % RefillEvery = 0
  <2> DEFINE a == anchor + (elapsed - rem)
  <2>1. c.refillAnchor = a BY <1>12
  <2>2. a >= Epoch /\ a <= now /\ now < a + RefillEvery BY <1>1, <1>2, <1>4, <1>10
  <2>3. (a - Epoch) % RefillEvery = 0 BY <1>1, <1>2, <1>4, <1>11
  <2> HIDE DEF a
  <2> QED BY <2>1, <2>2, <2>3
<1>17. Boundary(now) \in Nat BY <1>7

<1> QED BY <1>2, <1>12, <1>13, <1>14, <1>15, <1>16, <1>17, Zenon DEF c

------------------------------------------------------------------------------
(* The steps, as the look they begin with sees them.                       *)

(* Take and Available commit a look, spend from what it credits, or do     *)
(* nothing at all.                                                         *)
Looks(now, spent) ==
  /\ now \in Nat /\ ObserveError(bucket, now) = "nil"
  /\ spent \in Nat /\ spent <= Credit(bucket, now).available
  /\ bucket' = [Credit(bucket, now) EXCEPT !.available = @ - spent]
  /\ window' = IF window.open THEN [window EXCEPT !.passed = @ + spent] ELSE window

(* A look, whatever it spends, preserves the invariant.                    *)
LEMMA LookKeeps ==
  ASSUME IInv, NEW now, NEW spent, Looks(now, spent)
  PROVE  IInv'
<1> USE BucketAssumption, TokenBucketAssumption
<1> DEFINE c == Credit(bucket, now)
           credited == bucket.available + Crossed(now)
<1>1. /\ now \in Nat /\ spent \in Nat /\ spent <= c.available
      /\ bucket' = [c EXCEPT !.available = @ - spent]
      /\ window' = IF window.open THEN [window EXCEPT !.passed = @ + spent] ELSE window
      /\ ObserveError(bucket, now) = "nil"
  BY DEF Looks
<1>2. TypeOK /\ AnchorOnGrid /\ bucket.refillAnchor >= Epoch BY DEF IInv
<1>3. /\ c \in Bucket
      /\ c.available = IF credited < Capacity THEN credited ELSE Capacity
      /\ c.lastObserved = now /\ now >= bucket.lastObserved
      /\ Crossed(now) \in Nat /\ Boundary(now) \in Nat /\ Boundary(bucket.lastObserved) \in Nat
      /\ (c.refillAnchor - Epoch) % RefillEvery = 0
      /\ c.refillAnchor >= Epoch /\ c.refillAnchor <= now /\ now < c.refillAnchor + RefillEvery
  BY <1>1, <1>2, CreditIsExact
<1> HIDE DEF c
<1>4. /\ bucket' \in Bucket /\ bucket'.available = c.available - spent
      /\ bucket'.refillAnchor = c.refillAnchor /\ bucket'.lastObserved = c.lastObserved
  BY <1>1, <1>3 DEF Bucket
<1>5. window' \in Window
  BY <1>1, <1>2 DEF TypeOK, Window
<1>6. AnchorOnGrid' BY <1>3, <1>4 DEF AnchorOnGrid
<1>7. window'.open = window.open /\ window'.start = window.start /\ window'.balance = window.balance
      /\ (window.open => window'.passed = window.passed + spent)
  BY <1>1, <1>2 DEF TypeOK, Window
<1>8. WindowIsBounded'
  <2>1. SUFFICES ASSUME window'.open
                 PROVE  window'.passed + bucket'.available
                          <= window'.balance + (Boundary(bucket'.lastObserved) - Boundary(window'.start))
    BY DEF WindowIsBounded, Boundary
  <2>2. window.passed + bucket.available
          <= window.balance + (Boundary(bucket.lastObserved) - Boundary(window.start))
    BY <1>7, <2>1 DEF IInv, WindowIsBounded
  <2>3. c.available <= bucket.available + (Boundary(now) - Boundary(bucket.lastObserved))
    BY <1>2, <1>3 DEF Crossed, TypeOK, Bucket
  <2>4. /\ window.passed \in Nat /\ window.balance \in Nat /\ bucket.available \in Nat
        /\ c.available \in Nat
    BY <1>2, <1>3 DEF TypeOK, Window, Bucket
  <2>5. Boundary(window.start) \in Int
    <3>1. window.start - Epoch \in Nat BY <1>2, <1>7, <2>1 DEF IInv, TypeOK, Window
    <3> QED BY <3>1, Division DEF Boundary
  <2>6. /\ bucket'.lastObserved = now /\ bucket'.available = c.available - spent
        /\ window'.passed = window.passed + spent
    BY <1>3, <1>4, <1>7, <2>1
  <2> QED BY <1>1, <1>3, <1>7, <2>2, <2>3, <2>4, <2>5, <2>6
<1>9. bucket'.refillAnchor >= Epoch BY <1>3, <1>4
<1>10. (window.open => window.start \in Epoch .. bucket.lastObserved)'
  BY <1>1, <1>2, <1>3, <1>4, <1>7 DEF IInv, TypeOK, Window, Bucket
<1> QED BY <1>4, <1>5, <1>6, <1>8, <1>9, <1>10 DEF IInv, TypeOK

(* Take fails without a trace, or looks, or looks and spends the amount.   *)
LEMMA TakeLooks ==
  ASSUME TypeOK, AnchorOnGrid, bucket.refillAnchor >= Epoch,
         NEW now \in Moment, NEW amount \in Amount, Take(now, amount)
  PROVE  \/ UNCHANGED vars
         \/ Looks(now, 0)
         \/ Looks(now, amount) /\ amount \in 1 .. Capacity
<1> USE BucketAssumption, TokenBucketAssumption
<1>0. now \in Nat /\ amount \in Nat OBVIOUS
<1>1. CASE UNCHANGED vars BY <1>1
<1>2. ASSUME TakeError(bucket, now, amount) = "nil"
      PROVE  /\ ObserveError(bucket, now) = "nil" /\ amount \in 1 .. Capacity
             /\ Credit(bucket, now) \in Bucket
  <2>1. ObserveError(bucket, now) = "nil" /\ amount # 0 /\ ~(amount > Capacity)
    BY <1>2 DEF TakeError
  <2> QED BY <1>0, <2>1, CreditIsExact
<1>3. CASE /\ TakeError(bucket, now, amount) = "nil"
           /\ bucket' = Credit(bucket, now) /\ UNCHANGED window
  <2> DEFINE c == Credit(bucket, now)
  <2>1. c \in Bucket /\ bucket' = c BY <1>2, <1>3
  <2> HIDE DEF c
  <2>2. bucket' = [c EXCEPT !.available = @ - 0] /\ 0 <= c.available BY <2>1 DEF Bucket
  <2>3. window' = IF window.open THEN [window EXCEPT !.passed = @ + 0] ELSE window
    BY <1>3 DEF TypeOK, Window
  <2> QED BY <1>0, <1>2, <1>3, <2>2, <2>3 DEF Looks, c
<1>4. CASE /\ TakeError(bucket, now, amount) = "nil" /\ ~Denied(bucket, now, amount)
           /\ bucket' = [Credit(bucket, now) EXCEPT !.available = @ - amount]
           /\ window' = IF window.open THEN [window EXCEPT !.passed = @ + amount] ELSE window
  <2>1. Credit(bucket, now).available \in 0 .. Capacity BY <1>2, <1>4 DEF Bucket
  <2>2. amount <= Credit(bucket, now).available BY <1>0, <1>4, <2>1 DEF Denied
  <2> QED BY <1>0, <1>2, <1>4, <2>2 DEF Looks
<1> QED BY <1>1, <1>3, <1>4 DEF Take

(* Available fails without a trace, or looks.                              *)
LEMMA AvailableLooks ==
  ASSUME TypeOK, AnchorOnGrid, bucket.refillAnchor >= Epoch, NEW now \in Moment, Available(now)
  PROVE  UNCHANGED vars \/ Looks(now, 0)
<1> USE BucketAssumption, TokenBucketAssumption
<1>0. now \in Nat OBVIOUS
<1>1. CASE ObserveError(bucket, now) # "nil" BY <1>1 DEF Available, vars
<1>2. CASE ObserveError(bucket, now) = "nil"
  <2> DEFINE c == Credit(bucket, now)
  <2>1. c \in Bucket /\ bucket' = c BY <1>0, <1>2, CreditIsExact DEF Available
  <2> HIDE DEF c
  <2>2. bucket' = [c EXCEPT !.available = @ - 0] /\ 0 <= c.available BY <2>1 DEF Bucket
  <2>3. window' = IF window.open THEN [window EXCEPT !.passed = @ + 0] ELSE window
    BY DEF Available, TypeOK, Window
  <2> QED BY <1>0, <1>2, <2>2, <2>3 DEF Looks, c
<1> QED BY <1>1, <1>2

(* A window begins with the present balance and nothing passed.            *)
LEMMA OpenWindowKeeps == ASSUME IInv, OpenWindow PROVE IInv'
<1> USE BucketAssumption, TokenBucketAssumption DEF OpenWindow
<1>1. bucket \in Bucket BY DEF IInv, TypeOK
<1>2. /\ window' \in Window /\ window'.start = bucket.lastObserved
      /\ window'.balance = bucket.available /\ window'.passed = 0
  BY <1>1 DEF Window, Bucket
<1>3. bucket.lastObserved >= Epoch /\ bucket.lastObserved \in Nat /\ bucket.available \in Nat
  BY <1>1 DEF IInv, AnchorOnGrid, Bucket
<1>4. Boundary(bucket.lastObserved) \in Int
  <2>1. bucket.lastObserved - Epoch \in Nat BY <1>3
  <2> QED BY <2>1, Division DEF Boundary
<1>5. WindowIsBounded'
  <2>1. bucket' = bucket OBVIOUS
  <2>2. 0 + bucket.available
          <= bucket.available + (Boundary(bucket.lastObserved) - Boundary(bucket.lastObserved))
    BY <1>3, <1>4
  <2> QED BY <1>2, <2>1, <2>2 DEF WindowIsBounded, Boundary
<1>6. (window.open => window.start \in Epoch .. bucket.lastObserved)' BY <1>2, <1>3
<1>7. TypeOK' BY <1>1, <1>2 DEF TypeOK
<1> QED BY <1>5, <1>6, <1>7 DEF IInv, AnchorOnGrid

------------------------------------------------------------------------------
(* The theorems.                                                           *)

(* A new bucket is full, on its own grid, and nobody watches.              *)
LEMMA InitIInv == Init => IInv
<1> SUFFICES ASSUME Init PROVE IInv OBVIOUS
<1> USE BucketAssumption, TokenBucketAssumption DEF Init, New
<1>1. TypeOK BY DEF TypeOK, Bucket, Window
<1>2. AnchorOnGrid
  <2>1. (Epoch - Epoch) % RefillEvery = 0 BY DivisionUnique
  <2> QED BY <2>1 DEF AnchorOnGrid
<1>3. WindowIsBounded BY DEF WindowIsBounded
<1> QED BY <1>1, <1>2, <1>3 DEF IInv

(* Every step preserves the invariant.                                     *)
LEMMA NextIInv == IInv /\ [Next]_vars => IInv'
<1> SUFFICES ASSUME IInv, [Next]_vars PROVE IInv' OBVIOUS
<1>0. TypeOK /\ AnchorOnGrid /\ bucket.refillAnchor >= Epoch BY DEF IInv
<1>1. CASE UNCHANGED vars
  BY <1>1 DEF vars, IInv, TypeOK, AnchorOnGrid, WindowIsBounded, Boundary
<1>2. ASSUME NEW now \in Moment, Available(now) PROVE IInv'
  BY <1>0, <1>1, <1>2, AvailableLooks, LookKeeps
<1>3. ASSUME NEW now \in Moment, NEW amount \in Amount, Take(now, amount) PROVE IInv'
  BY <1>0, <1>1, <1>3, TakeLooks, LookKeeps
<1>4. CASE OpenWindow BY <1>4, OpenWindowKeeps
<1> QED BY <1>1, <1>2, <1>3, <1>4 DEF Next

(* The invariant that carries the safety theorems.                         *)
THEOREM Invariance == Spec => []IInv
BY InitIInv, NextIInv, PTL DEF Spec

(* The balance stays between zero and the capacity.                        *)
THEOREM TypeCorrect == Spec => []TypeOK
<1>1. IInv => TypeOK BY DEF IInv
<1> QED BY <1>1, Invariance, PTL

(* The anchor is the last boundary of the grid before the last look.       *)
THEOREM AnchorStaysOnGrid == Spec => []AnchorOnGrid
<1>1. IInv => AnchorOnGrid BY DEF IInv
<1> QED BY <1>1, Invariance, PTL

(* In no span of time does more pass than its first balance and one token  *)
(* for every boundary in it.                                               *)
THEOREM WindowBound == Spec => []WindowIsBounded
<1>1. IInv => WindowIsBounded BY DEF IInv
<1> QED BY <1>1, Invariance, PTL

(* The meter takes the same look, or spends the same amount.               *)
LEMMA LooksIsMeterStep ==
  ASSUME TypeOK, AnchorOnGrid, bucket.refillAnchor >= Epoch,
         NEW now \in Moment, NEW spent \in 0 .. Capacity, Looks(now, spent)
  PROVE  Meter!Next
<1> USE BucketAssumption, TokenBucketAssumption
<1> DEFINE c == Credit(bucket, now)
<1>1. /\ now \in Nat /\ ObserveError(bucket, now) = "nil" /\ spent <= c.available
      /\ bucket' = [c EXCEPT !.available = @ - spent]
  BY DEF Looks
<1>2. /\ c \in Bucket
      /\ c.available = IF bucket.available + Crossed(now) < Capacity
                       THEN bucket.available + Crossed(now) ELSE Capacity
      /\ c.lastObserved = now /\ now >= bucket.lastObserved
  BY <1>1, CreditIsExact
<1> HIDE DEF c
<1>3. c.available = Meter!BalanceAt(now)
  BY <1>2 DEF Meter!BalanceAt, Meter!Boundary, Boundary, Crossed
<1>4. /\ bucket'.available = c.available - spent /\ bucket'.lastObserved = now
      /\ c.available \in Nat
  BY <1>1, <1>2 DEF Bucket
<1>5. CASE spent = 0
  BY <1>2, <1>3, <1>4, <1>5 DEF Meter!Next, Meter!Look
<1>6. CASE spent # 0
  <2>1. Meter!Spend(now, spent) BY <1>1, <1>2, <1>3, <1>4 DEF Meter!Spend
  <2>2. spent \in 1 .. Capacity BY <1>6
  <2> QED BY <2>1, <2>2 DEF Meter!Next
<1> QED BY <1>5, <1>6

(* The bucket, with its anchor, its remainder and its words that wrap,     *)
(* does what the meter on the fixed grid of boundaries does.               *)
THEOREM ImplementsMeter == Spec => MeterSpec
<1>1. Init => Meter!Init BY DEF Init, New, Meter!Init
<1>2. IInv /\ [Next]_vars => [Meter!Next]_(Meter!vars)
  <2> SUFFICES ASSUME IInv, [Next]_vars PROVE Meter!Next \/ UNCHANGED bucket
    BY DEF Meter!vars
  <2>0. TypeOK /\ AnchorOnGrid /\ bucket.refillAnchor >= Epoch /\ 0 \in 0 .. Capacity
    BY BucketAssumption DEF IInv
  <2>1. ASSUME NEW now \in Moment, Available(now) PROVE Meter!Next \/ UNCHANGED bucket
    BY <2>0, <2>1, AvailableLooks, LooksIsMeterStep DEF vars
  <2>2. ASSUME NEW now \in Moment, NEW amount \in Amount, Take(now, amount)
        PROVE  Meter!Next \/ UNCHANGED bucket
    <3>1. CASE UNCHANGED vars BY <3>1 DEF vars
    <3>2. CASE Looks(now, 0) BY <2>0, <3>2, LooksIsMeterStep
    <3>3. CASE Looks(now, amount) /\ amount \in 1 .. Capacity
      <4>1. amount \in 0 .. Capacity BY <3>3, BucketAssumption
      <4> QED BY <2>0, <3>3, <4>1, LooksIsMeterStep
    <3> QED BY <2>0, <2>2, <3>1, <3>2, <3>3, TakeLooks
  <2>3. CASE OpenWindow \/ UNCHANGED vars BY <2>3 DEF OpenWindow, vars
  <2> QED BY <2>1, <2>2, <2>3 DEF Next
<1> QED BY <1>1, <1>2, Invariance, PTL DEF Spec, MeterSpec, Meter!Spec
------------------------------------------------------------------------------
(* The wait.                                                               *)

(* A quotient is below n exactly if the number is below n times the divisor.*)
LEMMA DivisionBounds ==
  ASSUME NEW x \in Nat, NEW r \in Nat \ {0}, NEW n \in Nat
  PROVE  x \div r < n <=> x < r * n
<1> DEFINE q == x \div r
           k == x % r
<1>1. q \in Nat /\ k \in 0 .. (r - 1) /\ x = r * q + k BY Division
<1> HIDE DEF q, k
<1>2. CASE q < n
  <2>1. q + 1 <= n BY <1>1, <1>2
  <2>2. r * (q + 1) <= r * n BY <1>1, <2>1
  <2>3. x < r * (q + 1) BY <1>1
  <2>4. r * n \in Nat /\ r * (q + 1) \in Nat BY <1>1
  <2> QED BY <1>2, <2>2, <2>3, <2>4 DEF q
<1>3. CASE ~(q < n)
  <2>1. n <= q BY <1>1, <1>3
  <2>2. r * n <= r * q BY <1>1, <2>1
  <2>3. r * n \in Nat /\ r * q \in Nat BY <1>1
  <2> QED BY <1>1, <1>3, <2>2, <2>3 DEF q
<1> QED BY <1>2, <1>3

(* A duration that does not overflow is what it says.                      *)
LEMMA DurationFits ==
  ASSUME NEW n \in 0 .. MaxDuration
  PROVE  Duration(n) = n
<1> DEFINE m == 2 * (MaxDuration + 1)
           k == n + MaxDuration + 1
<1>1. MaxDuration \in Nat /\ m \in Nat \ {0} /\ k \in 0 .. (m - 1) BY BucketAssumption
<1>2. m * 0 + k = k BY <1>1
<1> HIDE DEF m, k
<1>3. k % m = k BY <1>1, <1>2, DivisionUnique
<1> QED BY <1>1, <1>3 DEF Duration, m, k

(* Whether an amount that is not there can be spent at a later moment is a *)
(* matter of the time since the anchor.                                    *)
LEMMA DeniedUntil ==
  ASSUME NEW b \in Bucket, NEW t \in Nat, ObserveError(b, t) = "nil", b.refillAnchor <= t,
         NEW amount \in 1 .. Capacity, b.available < amount
  PROVE  Denied(b, t, amount) <=> t - b.refillAnchor < RefillEvery * (amount - b.available)
<1> USE BucketAssumption
<1> DEFINE elapsed == t - b.refillAnchor
           whole == elapsed \div RefillEvery
           need == amount - b.available
<1>1. /\ b.available \in 0 .. Capacity /\ b.refillAnchor \in Nat /\ b.lastObserved \in Nat
      /\ Capacity \in Nat /\ RefillEvery \in Nat \ {0} /\ Word \in Nat
  BY DEF Bucket
<1>2. elapsed \in Nat /\ need \in Nat \ {0} BY <1>1
<1>3. Sub(t, b.refillAnchor) = elapsed BY <1>1 DEF ObserveError, Sub
<1>4. Credit(b, t).available = Refilled(b, whole) BY <1>3 DEF Credit
<1> HIDE DEF elapsed
<1>5. whole \in Nat BY <1>1, <1>2, Division
<1> HIDE DEF whole
<1>6. whole < need <=> elapsed < RefillEvery * need BY <1>1, <1>2, DivisionBounds DEF whole
<1>7. /\ whole >= Capacity - b.available => Refilled(b, whole) = Capacity
      /\ ~(whole >= Capacity - b.available) => Refilled(b, whole) = b.available + whole
  <2>1. CASE whole >= Capacity - b.available BY <2>1 DEF Refilled
  <2>2. CASE ~(whole >= Capacity - b.available)
    <3>1. PICK k \in 0 .. (Word - 1) : k = b.available + whole BY <1>1, <1>5, <2>2
    <3>2. Word \in Nat \ {0} /\ Word * 0 + k = k BY <1>1, <3>1
    <3>3. k % Word = k BY <3>2, DivisionUnique
    <3> QED BY <2>2, <3>1, <3>3 DEF Refilled
  <2> QED BY <2>1, <2>2
<1>8. Refilled(b, whole) < amount <=> whole < need BY <1>1, <1>5, <1>7
<1> QED BY <1>4, <1>6, <1>8 DEF Denied, elapsed

(* Whoever was denied is told to wait until his tokens have come, or as    *)
(* long as a duration can say.                                             *)
LEMMA WaitIsExact ==
  ASSUME NEW need \in 1 .. Capacity, NEW rem \in 0 .. (RefillEvery - 1)
  PROVE  LET wait == RetryAfter(rem, need)
         IN /\ wait \in 1 .. MaxDuration
            /\ rem + wait <= RefillEvery * need
            /\ wait < MaxDuration => rem + wait = RefillEvery * need
<1> USE BucketAssumption
<1> DEFINE first == RefillEvery - rem
           extra == need - 1
           room == MaxDuration - first
           q == room \div RefillEvery
           rest == extra * RefillEvery
<1>1. /\ first \in 1 .. RefillEvery /\ extra \in Nat /\ room \in Nat /\ RefillEvery \in Nat \ {0}
      /\ MaxDuration \in Nat /\ rest \in Nat
  OBVIOUS
<1>2. rem + first + rest = RefillEvery * need OBVIOUS
<1>3. extra > q <=> room < RefillEvery * extra
  <2>1. PICK x \in Nat : x = room BY <1>1
  <2>2. PICK n \in Nat : n = extra BY <1>1
  <2>3. x \div RefillEvery \in Nat BY <1>1, Division
  <2>4. x \div RefillEvery < n <=> x < RefillEvery * n BY <1>1, DivisionBounds
  <2>5. n > x \div RefillEvery <=> x \div RefillEvery < n BY <2>3
  <2>6. q = x \div RefillEvery BY <2>1
  <2> HIDE DEF room, extra, q
  <2> QED BY <2>1, <2>2, <2>4, <2>5, <2>6
<1>4. RefillEvery * extra = rest BY <1>1
<1>5. CASE need <= 1
  <2>1. RetryAfter(rem, need) = first BY <1>5 DEF RetryAfter
  <2>2. rest = 0 BY <1>5
  <2> QED BY <1>1, <1>2, <2>1, <2>2
<1>6. CASE need > 1 /\ extra > q
  <2>1. RetryAfter(rem, need) = MaxDuration BY <1>6 DEF RetryAfter
  <2>2. room < rest BY <1>3, <1>4, <1>6
  <2>3. rem + MaxDuration <= rem + first + rest BY <1>1, <2>2
  <2> QED BY <1>1, <1>2, <2>1, <2>3
<1>7. CASE need > 1 /\ ~(extra > q)
  <2>1. RetryAfter(rem, need) = Duration(first + Duration(rest)) BY <1>7 DEF RetryAfter
  <2>2. rest <= room BY <1>1, <1>3, <1>4, <1>7
  <2>3. rest \in 0 .. MaxDuration /\ first + rest \in 1 .. MaxDuration BY <1>1, <2>2
  <2>4. Duration(rest) = rest BY <2>3, DurationFits
  <2>5. Duration(first + rest) = first + rest BY <2>3, DurationFits
  <2> QED BY <1>1, <1>2, <2>1, <2>3, <2>4, <2>5
<1> QED BY <1>5, <1>6, <1>7

(* The wait that a denial reports is exact, and a wait that cannot be      *)
(* expressed is never reported as a shorter one.                           *)
THEOREM RetryExact == Spec => []RetryIsExact
<1> USE BucketAssumption, TokenBucketAssumption
<1>1. ASSUME IInv, NEW now \in Moment, NEW amount \in Amount,
             TakeError(bucket, now, amount) = "nil", Denied(bucket, now, amount)
      PROVE  LET after == Credit(bucket, now)
                 wait == RetryAfter(Remainder(bucket, now), amount - after.available)
             IN /\ wait \in 1 .. MaxDuration
                /\ ~Served(after, now + wait - 1, amount)
                /\ wait < MaxDuration =>
                     \/ Served(after, now + wait, amount)
                     \/ ObserveError(after, now + wait) = "ErrTimeOverflow"
  <2> DEFINE after == Credit(bucket, now)
             rem == Remainder(bucket, now)
             need == amount - after.available
             wait == RetryAfter(rem, need)
             first == now + wait - 1
             then == now + wait
  <2>1. /\ now \in Nat /\ amount \in 1 .. Capacity /\ ObserveError(bucket, now) = "nil"
    BY <1>1 DEF TakeError
  <2>2. TypeOK /\ AnchorOnGrid /\ bucket.refillAnchor >= Epoch BY <1>1 DEF IInv
  <2>3. /\ after \in Bucket /\ after.lastObserved = now /\ after.refillAnchor <= now
        /\ now >= bucket.lastObserved
    BY <2>1, <2>2, CreditIsExact
  <2>4. rem \in 0 .. (RefillEvery - 1) /\ after.refillAnchor = now - rem
    <3>1. /\ bucket.refillAnchor \in Nat /\ bucket.lastObserved \in Nat
          /\ bucket.refillAnchor <= bucket.lastObserved
      BY <2>2 DEF TypeOK, Bucket, AnchorOnGrid
    <3>2. PICK e \in Nat : e = Sub(now, bucket.refillAnchor) /\ bucket.refillAnchor + e = now
      BY <2>1, <2>3, <3>1 DEF ObserveError, Sub
    <3>3. rem = e % RefillEvery BY <3>2 DEF Remainder
    <3>4. e % RefillEvery \in 0 .. (RefillEvery - 1) BY <3>2, Division
    <3>5. after.refillAnchor = bucket.refillAnchor + (e - (e % RefillEvery)) BY <3>2 DEF Credit
    <3> HIDE DEF rem, after
    <3> QED BY <2>1, <3>1, <3>2, <3>3, <3>4, <3>5
  <2>5. after.available \in 0 .. Capacity /\ after.available < amount
    BY <1>1, <2>3 DEF Denied, Bucket
  <2> HIDE DEF after, rem
  <2>6. need \in 1 .. Capacity BY <2>1, <2>5
  <2>7. /\ wait \in 1 .. MaxDuration
        /\ rem + wait <= RefillEvery * need
        /\ wait < MaxDuration => rem + wait = RefillEvery * need
    BY <2>4, <2>6, WaitIsExact
  <2> HIDE DEF need, wait
  <2>8. /\ first \in Nat /\ then \in Nat /\ RefillEvery * need \in Nat
        /\ first - after.refillAnchor < RefillEvery * need
        /\ wait < MaxDuration => ~(then - after.refillAnchor < RefillEvery * need)
        /\ after.refillAnchor <= first /\ after.refillAnchor <= then
        /\ after.lastObserved <= then
    <3>1. RefillEvery * need \in Nat BY <2>6
    <3> QED BY <2>1, <2>3, <2>4, <2>7, <3>1
  <2> HIDE DEF first, then
  <2>9. ~Served(after, first, amount)
    <3>1. ASSUME Served(after, first, amount) PROVE FALSE
      <4>1. ObserveError(after, first) = "nil" /\ ~Denied(after, first, amount)
        BY <2>1, <3>1 DEF Served, TakeError
      <4> QED BY <2>1, <2>3, <2>5, <2>8, <4>1, DeniedUntil DEF need
    <3> QED BY <3>1
  <2>10. ASSUME wait < MaxDuration, ObserveError(after, then) # "ErrTimeOverflow"
         PROVE  Served(after, then, amount)
    <3>1. ObserveError(after, then) = "nil"
      BY <2>1, <2>3, <2>8, <2>10 DEF ObserveError
    <3>2. ~Denied(after, then, amount)
      BY <2>1, <2>3, <2>5, <2>8, <2>10, <3>1, DeniedUntil DEF need
    <3>3. TakeError(after, then, amount) = "nil" BY <2>1, <3>1 DEF TakeError
    <3> QED BY <3>2, <3>3 DEF Served
  <2> QED BY <2>7, <2>9, <2>10 DEF after, rem, need, wait, first, then
<1>2. IInv => RetryIsExact BY <1>1 DEF RetryIsExact
<1> QED BY <1>2, Invariance, PTL

==============================================================================
