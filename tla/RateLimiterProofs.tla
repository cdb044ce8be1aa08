-------------------------- MODULE RateLimiterProofs --------------------------
(***************************************************************************)
(* For any number of callers, tenants and nodes, any capacity and interval *)
(* and any bound of the clock: the inductive invariant of RateLimiter and  *)
(* the safety properties that follow from it.                              *)
(*                                                                         *)
(* The argument is that of a lock: between the mutex and the bucket there  *)
(* is one caller, so the moment it read is the latest its bucket sees, and *)
(* every refill is the one the account allows. First the arithmetic of one *)
(* bucket, then what a step of one caller leaves alone, then the actions.  *)
(***************************************************************************)
EXTENDS RateLimiter, TLAPS

(* Division with remainder: there is a quotient and a remainder.           *)
LEMMA Division ==
  ASSUME NEW x \in Nat, NEW r \in Nat \ {0}
  PROVE  /\ x \div r \in Nat /\ (x % r) \in 0 .. (r - 1)
         /\ x = r * (x \div r) + (x % r)
OBVIOUS

(* Division with remainder: there is only one.                             *)
LEMMA DivisionUnique ==
  ASSUME NEW r \in Nat \ {0}, NEW q \in Nat, NEW k \in 0 .. (r - 1)
  PROVE  (r * q + k) \div r = q /\ ((r * q + k) % r) = k
<1> DEFINE n == r * q + k
<1>1. n \in Nat OBVIOUS
<1>2. n = r * (n \div r) + (n % r) /\ (n % r) \in 0 .. (r - 1) /\ n \div r \in Nat
  BY <1>1, Division
<1> HIDE DEF n
<1>3. ASSUME NEW p \in Nat, NEW j \in 0 .. (r - 1), r * q + k = r * p + j, q < p PROVE FALSE
  <2>1. p >= q + 1 BY <1>3
  <2>2. r * p >= r * (q + 1) BY <2>1
  <2> QED BY <1>3, <2>2
<1>4. ASSUME NEW p \in Nat, NEW j \in 0 .. (r - 1), r * q + k = r * p + j, p < q PROVE FALSE
  <2>1. q >= p + 1 BY <1>4
  <2>2. r * q >= r * (p + 1) BY <2>1
  <2> QED BY <1>4, <2>2
<1>5. n \div r = q BY <1>2, <1>3, <1>4 DEF n
<1> QED BY <1>2, <1>5 DEF n

(* A look at a sound bucket leaves it sound: a token for every boundary    *)
(* crossed is what the account allows for the time that has passed.        *)
LEMMA CreditIsSound ==
  ASSUME NEW b \in Bucket, NEW since \in Nat, NEW passed \in Nat, NEW now \in Nat,
         Sound(b, since, passed), ObserveError(b, now) = "nil"
  PROVE  /\ Credit(b, now) \in Bucket /\ Credit(b, now).lastObserved = now
         /\ Sound(Credit(b, now), since, passed)
<1> USE BucketAssumption
<1> DEFINE anchor == b.refillAnchor
           k == (anchor - since) \div RefillEvery
           elapsed == Sub(now, anchor)
           whole == elapsed \div RefillEvery
           rem == elapsed % RefillEvery
<1>1. /\ anchor \in Nat /\ b.lastObserved \in Nat /\ b.available \in 0 .. Capacity
      /\ RefillEvery \in Nat \ {0} /\ Capacity \in Nat
      /\ since <= anchor /\ (anchor - since) % RefillEvery = 0
      /\ anchor <= b.lastObserved /\ b.lastObserved < anchor + RefillEvery
      /\ passed + b.available <= Capacity + (b.lastObserved - since) \div RefillEvery
  BY DEF Bucket, Sound
<1>2. now >= b.lastObserved /\ elapsed \in Nat /\ anchor + elapsed = now
  BY <1>1 DEF ObserveError, Sub
<1>3. k \in Nat /\ anchor - since = RefillEvery * k
  <2>1. anchor - since \in Nat BY <1>1
  <2>2. anchor - since = RefillEvery * k + ((anchor - since) % RefillEvery) /\ k \in Nat
    BY <1>1, <2>1, Division
  <2> QED BY <2>2, <1>1
<1>c. Credit(b, now) = [available |-> Refilled(b, whole),
                        refillAnchor |-> anchor + (elapsed - rem), lastObserved |-> now]
  BY DEF Credit
<1> HIDE DEF elapsed, k
<1>4. whole \in Nat /\ rem \in 0 .. (RefillEvery - 1) /\ elapsed = RefillEvery * whole + rem
  BY <1>1, <1>2, Division
<1> HIDE DEF whole, rem
<1>5. (b.lastObserved - since) \div RefillEvery = k
  <2> DEFINE offset == b.lastObserved - anchor
  <2>1. b.lastObserved - since = RefillEvery * k + offset BY <1>1, <1>3
  <2>2. offset \in 0 .. (RefillEvery - 1) BY <1>1
  <2> HIDE DEF offset
  <2>3. (RefillEvery * k + offset) \div RefillEvery = k BY <1>1, <1>3, <2>2, DivisionUnique
  <2> QED BY <2>1, <2>3
<1>6. k + whole \in Nat /\ RefillEvery * whole \in Nat
  BY <1>1, <1>3, <1>4
<1>7. (now - since) \div RefillEvery = k + whole
  <2>1. RefillEvery * (k + whole) = RefillEvery * k + RefillEvery * whole BY <1>1, <1>3, <1>4
  <2>2. now - since = RefillEvery * (k + whole) + rem BY <1>1, <1>2, <1>3, <1>4, <2>1
  <2> DEFINE q == k + whole
  <2>3. q \in Nat BY <1>6
  <2> HIDE DEF q
  <2>4. (RefillEvery * q + rem) \div RefillEvery = q BY <1>1, <1>4, <2>3, DivisionUnique
  <2> QED BY <2>2, <2>4 DEF q
<1>8. Refilled(b, whole) \in 0 .. Capacity /\ Refilled(b, whole) <= b.available + whole
  <2>1. CASE whole >= Capacity - b.available BY <1>1, <1>4, <2>1 DEF Refilled
  <2>2. CASE whole < Capacity - b.available
    <3>1. b.available + whole \in Nat /\ b.available + whole < Word BY <1>1, <1>4, <2>2
    <3>2. (b.available + whole) % Word = b.available + whole BY <3>1
    <3> QED BY <1>1, <1>4, <2>2, <3>2 DEF Refilled
  <2> QED BY <1>1, <1>4, <2>1, <2>2
<1> DEFINE a == anchor + (elapsed - rem)
           c == Credit(b, now)
<1>9. a = anchor + RefillEvery * whole /\ a \in Nat BY <1>1, <1>2, <1>4, <1>6
<1>10. since <= a /\ a <= now /\ now < a + RefillEvery
  BY <1>1, <1>2, <1>4, <1>6, <1>9
<1>11. (a - since) % RefillEvery = 0
  <2>1. RefillEvery * (k + whole) \in Nat BY <1>1, <1>6
  <2>2. a - since = RefillEvery * (k + whole) + 0 BY <1>1, <1>3, <1>4, <1>9, <2>1
  <2> DEFINE q == k + whole
  <2>3. q \in Nat BY <1>6
  <2> HIDE DEF q
  <2>4. 0 \in 0 .. (RefillEvery - 1) BY <1>1
  <2>5. ((RefillEvery * q + 0) % RefillEvery) = 0 BY <1>1, <2>3, <2>4, DivisionUnique
  <2> QED BY <2>2, <2>5 DEF q
<1>12. c.available = Refilled(b, whole) /\ c.refillAnchor = a /\ c.lastObserved = now /\ c \in Bucket
  BY <1>c, <1>8, <1>9 DEF Bucket
<1> HIDE DEF c, a
<1>13. passed + c.available <= Capacity + (now - since) \div RefillEvery
  BY <1>1, <1>3, <1>4, <1>5, <1>7, <1>8, <1>12
<1> QED BY <1>10, <1>11, <1>12, <1>13 DEF Sound, c

(* A new bucket is full, and sound from its first moment.                  *)
LEMMA NewIsSound ==
  ASSUME NEW now \in Nat
  PROVE  New(now) \in Bucket /\ New(now).lastObserved = now /\ Sound(New(now), now, 0)
<1>1. New(now) = [available |-> Capacity, refillAnchor |-> now, lastObserved |-> now] BY DEF New
<1>2. 0 % RefillEvery = 0 /\ 0 \div RefillEvery = 0 BY BucketAssumption
<1> QED BY <1>1, <1>2, BucketAssumption DEF Bucket, Sound

(* Whoever comes with a moment that is not older than the last one and an  *)
(* amount that fits takes no more than there is: whatever bucket.Take      *)
(* answers, the bucket is sound with what was let pass on its account.     *)
LEMMA TakeIsSound ==
  ASSUME NEW b \in Bucket, NEW since \in Nat, NEW passed \in Nat, NEW now \in Nat,
         NEW amount \in 1 .. Capacity, Sound(b, since, passed), b.lastObserved <= now,
         NEW spent, spent = IF TakeAnswer(b, now, amount) = "allowed" THEN amount ELSE 0
  PROVE  /\ TakeAnswer(b, now, amount) \in {"allowed", "denied", "ErrTimeOverflow"}
         /\ BucketAfter(b, now, amount) \in Bucket
         /\ BucketAfter(b, now, amount).lastObserved <= now
         /\ Sound(BucketAfter(b, now, amount), since, passed + spent)
<1>1. b.lastObserved \in Nat /\ Capacity \in Nat /\ amount \in Nat
  BY BucketAssumption DEF Bucket
<1>2. TakeError(b, now, amount) = ObserveError(b, now) BY <1>1 DEF TakeError
<1>3. ObserveError(b, now) \in {"nil", "ErrTimeOverflow"} BY <1>1 DEF ObserveError
<1>4. CASE ObserveError(b, now) # "nil"
  <2>1. TakeAnswer(b, now, amount) = "ErrTimeOverflow" BY <1>2, <1>3, <1>4 DEF TakeAnswer
  <2>2. BucketAfter(b, now, amount) = b /\ spent = 0 BY <2>1 DEF BucketAfter
  <2> QED BY <2>1, <2>2
<1>5. CASE ObserveError(b, now) = "nil"
  <2> DEFINE d == Credit(b, now)
  <2>1. d \in Bucket /\ d.lastObserved = now /\ Sound(d, since, passed) BY <1>5, CreditIsSound
  <2>2. CASE Denied(b, now, amount)
    <3>1. TakeAnswer(b, now, amount) = "denied" BY <1>2, <1>5, <2>2 DEF TakeAnswer
    <3>2. BucketAfter(b, now, amount) = d /\ spent = 0 BY <3>1 DEF BucketAfter
    <3> QED BY <2>1, <3>1, <3>2
  <2>3. CASE ~Denied(b, now, amount)
    <3> DEFINE e == [d EXCEPT !.available = @ - amount]
    <3>1. TakeAnswer(b, now, amount) = "allowed" BY <1>2, <1>5, <2>3 DEF TakeAnswer
    <3>2. BucketAfter(b, now, amount) = e /\ spent = amount BY <3>1 DEF BucketAfter
    <3>3. amount <= d.available BY <1>1, <2>1, <2>3 DEF Denied, Bucket
    <3> HIDE DEF d
    <3>4. /\ e \in Bucket /\ e.available = d.available - amount
          /\ e.refillAnchor = d.refillAnchor /\ e.lastObserved = d.lastObserved
      BY <1>1, <2>1, <3>3 DEF Bucket
    <3> HIDE DEF e
    <3>5. d.available \in Nat /\ d.refillAnchor \in Nat /\ d.lastObserved \in Nat
      BY <1>1, <2>1 DEF Bucket
    <3>6. Sound(e, since, passed + amount)
      BY <1>1, <2>1, <3>4, <3>5, BucketAssumption DEF Sound
    <3> QED BY <1>1, <2>1, <3>1, <3>2, <3>4, <3>6
  <2> QED BY <2>2, <2>3
<1> QED BY <1>4, <1>5

------------------------------------------------------------------------------
(* One step of one caller.                                                 *)

(* A call before it begins is a call.                                      *)
LEMMA BlankIsCall == Blank \in Call
<1>1. /\ (CHOOSE l \in Limiter : TRUE) \in Limiter /\ (CHOOSE t \in Tenant : TRUE) \in Tenant
      /\ (CHOOSE n \in Node : TRUE) \in Node /\ (CHOOSE a \in Amount : TRUE) \in Amount
  BY RateLimiterAssumption
<1> QED BY <1>1 DEF Blank, Call, Running, Outcome, Answer

(* A step of one caller is a step of nobody else.                          *)
LEMMA OneCall ==
  ASSUME TypeOK, NEW c \in Caller, NEW r \in Call, Update(c, r)
  PROVE  /\ call' \in [Caller -> Call] /\ call'[c] = r
         /\ \A d \in Caller \ {c} : call'[d] = call[d]
BY DEF TypeOK, Update

(* Requests for one bucket meet at one mutex.                              *)
LEMMA OneKeyOneHome ==
  ASSUME NEW r \in Call, NEW s \in Call, KeyOf(r) = KeyOf(s)
  PROVE  Home(r.limiter) = Home(s.limiter)
BY RateLimiterAssumption DEF KeyOf, Home, Call

(* The others keep their part of the invariant when a caller steps: it     *)
(* touches no mutex but a free one or its own, and no bucket but the one   *)
(* it holds the mutex for.                                                 *)
LEMMA OthersKeep ==
  ASSUME TypeOK, \A d \in Caller : CallInv(d), NEW c \in Caller, NEW d \in Caller \ {c},
         call'[d] = call[d], UNCHANGED <<clock, available>>,
         NEW home, home = Home(call[c].limiter),
         mutex[home] \in {None, c} \/ mutex' = mutex,
         \A h \in {"shared", "local"} \ {home} : mutex'[h] = mutex[h],
         mutex[home] = c \/ buckets' = buckets,
         \A k \in Key \ {KeyOf(call[c])} : buckets'[k] = buckets[k]
  PROVE  CallInv(d)'
<1>1. call[d] \in Call /\ call[c] \in Call BY DEF TypeOK
<1>2. CallInv(d) OBVIOUS
<1>3. Home(call[d].limiter) \in {"shared", "local"} /\ KeyOf(call[d]) \in Key
  BY <1>1 DEF Home, KeyOf, Key, Call
<1>4. call[d].pc \in {"locked", "take"} => mutex[Home(call[d].limiter)] = d
  BY <1>2 DEF CallInv, HasMutex
<1>5. HasMutex(d)'
  BY <1>3, <1>4, RateLimiterAssumption DEF HasMutex
<1>6. OnItsWay(d)' /\ SeesFlag(d)' /\ AnswerIsTrue(d)'
  BY <1>2 DEF CallInv, OnItsWay, SeesFlag, AnswerIsTrue, Is, At, Returned
<1>7. ASSUME call[d].pc = "take" PROVE buckets'[KeyOf(call[d])] = buckets[KeyOf(call[d])]
  <2>1. CASE buckets' = buckets BY <2>1
  <2>2. CASE mutex[home] = c
    <3>1. Home(call[d].limiter) # home BY <1>4, <1>7, <2>2
    <3>2. KeyOf(call[d]) # KeyOf(call[c]) BY <1>1, <3>1, OneKeyOneHome
    <3> QED BY <1>3, <3>2
  <2> QED BY <2>1, <2>2
<1>8. ReadsLatest(d)'
  BY <1>2, <1>7 DEF CallInv, ReadsLatest, At
<1> QED BY <1>5, <1>6, <1>8 DEF CallInv

(* What no step touches stays in order.                                    *)
LEMMA BucketsKeep ==
  ASSUME \A k \in Key : BucketInv(k), UNCHANGED <<clock, buckets, account>>
  PROVE  \A k \in Key : BucketInv(k)'
BY DEF BucketInv

(* A step that changes nothing but the call keeps the invariant if the     *)
(* call that it makes has a place in it.                                   *)
LEMMA CallStep ==
  ASSUME IInv, NEW c \in Caller, NEW r \in Call, Update(c, r),
         UNCHANGED <<clock, available, switch, mutex, buckets, account>>,
         call'[c] = r => CallInv(c)'
  PROVE  IInv'
<1>1. TypeOK' /\ call'[c] = r /\ \A d \in Caller \ {c} : call'[d] = call[d]
  BY OneCall DEF IInv, TypeOK
<1>2. \A d \in Caller \ {c} : CallInv(d)'
  BY <1>1, OthersKeep DEF IInv
<1>3. \A k \in Key : BucketInv(k)' BY BucketsKeep DEF IInv
<1> QED BY <1>1, <1>2, <1>3 DEF IInv

(* A call that is refused at the door has spent nothing; one that is let   *)
(* in could be served.                                                     *)
LEMMA BeginKeeps ==
  ASSUME IInv, NEW c \in Caller, NEW l \in Limiter, NEW t \in Tenant, NEW n \in Node,
         NEW a \in Amount, NEW x \in BOOLEAN, Begin(c, l, t, n, a, x)
  PROVE  IInv'
<1> DEFINE r == [Blank EXCEPT !.limiter = l, !.tenant = t, !.node = n, !.amount = a,
                              !.cancelled = x, !.outage = ~available]
<1>1. /\ r \in Call /\ r.limiter = l /\ r.amount = a /\ r.cancelled = x /\ r.spent = 0
      /\ r.outage = ~available
  BY BlankIsCall DEF Call, IInv, TypeOK, Blank
<1>2. UNCHANGED <<clock, available, switch, mutex, buckets, account>> /\ available \in BOOLEAN
  BY DEF Begin, IInv, TypeOK
<1>3. a \in Nat /\ Capacity \in Nat /\ l \in Limiters
  BY RateLimiterAssumption, BucketAssumption
<1>4. \/ \E o \in {"invalid", "cancelled"} : Update(c, [r EXCEPT !.pc = "returned", !.outcome = o])
      \/ l # "per-node" /\ Update(c, Answered(r, "invalid"))
      \/ /\ a \in 1 .. Capacity
         /\ Update(c, [r EXCEPT !.pc = IF l = "per-node" THEN "lock" ELSE "read-lock"])
  BY DEF Begin
<1> HIDE DEF r
<1>5. ASSUME NEW o \in {"invalid", "cancelled"},
             Update(c, [r EXCEPT !.pc = "returned", !.outcome = o])
      PROVE  IInv'
  <2> DEFINE s == [r EXCEPT !.pc = "returned", !.outcome = o]
  <2>1. s \in Call /\ s.pc = "returned" /\ s.outcome = o /\ s.spent = 0
    BY <1>1 DEF Call, Outcome, Answer, Error
  <2> HIDE DEF s
  <2>2. ASSUME call'[c] = s PROVE CallInv(c)'
    BY <2>1, <2>2 DEF CallInv, HasMutex, OnItsWay, SeesFlag, ReadsLatest, AnswerIsTrue,
                      At, Is, Returned, Running
  <2> QED BY <1>2, <1>5, <2>1, <2>2, CallStep DEF s
<1>6. ASSUME l # "per-node", Update(c, Answered(r, "invalid")) PROVE IInv'
  <2> DEFINE s == Answered(r, "invalid")
  <2>1. l \in Coordinated BY <1>3, <1>6 DEF Limiters, Coordinated
  <2>2. /\ s \in Call /\ s.pc = "answered" /\ s.outcome = "invalid" /\ s.spent = 0
        /\ s.limiter = l /\ s.outage = ~available
    BY <1>1, <2>1 DEF Answered, Call, Outcome, Answer, Error, Running
  <2> HIDE DEF s
  <2>3. ASSUME call'[c] = s PROVE CallInv(c)'
    BY <1>2, <2>1, <2>2, <2>3
    DEF CallInv, HasMutex, OnItsWay, SeesFlag, ReadsLatest, AnswerIsTrue,
        At, Is, Returned, Running, Answer, Error
  <2> QED BY <1>2, <1>6, <2>2, <2>3, CallStep DEF s
<1>7. ASSUME a \in 1 .. Capacity,
             Update(c, [r EXCEPT !.pc = IF l = "per-node" THEN "lock" ELSE "read-lock"])
      PROVE  IInv'
  <2> DEFINE s == [r EXCEPT !.pc = IF l = "per-node" THEN "lock" ELSE "read-lock"]
  <2>1. /\ s \in Call /\ s.pc = (IF l = "per-node" THEN "lock" ELSE "read-lock")
        /\ s.spent = 0 /\ s.limiter = l /\ s.amount = a /\ s.outage = ~available
        /\ s.outcome = r.outcome
    BY <1>1 DEF Call, Running
  <2>2. r.outcome = "none" BY DEF r, Blank
  <2> HIDE DEF s
  <2>3. ASSUME call'[c] = s PROVE CallInv(c)'
    BY <1>2, <1>3, <1>7, <2>1, <2>2, <2>3
    DEF CallInv, HasMutex, OnItsWay, SeesFlag, ReadsLatest, AnswerIsTrue,
        At, Is, Returned, Running, Coordinated, Limiters
  <2> QED BY <1>2, <1>7, <2>1, <2>3, CallStep DEF s
<1> QED BY <1>4, <1>5, <1>6, <1>7

(* Behind the read lock nothing is said yet.                               *)
LEMMA AcquireReadKeeps ==
  ASSUME IInv, NEW c \in Caller, AcquireRead(c)
  PROVE  IInv'
<1> DEFINE s == [call[c] EXCEPT !.pc = "reading"]
<1>1. call[c] \in Call /\ CallInv(c) /\ call[c].pc = "read-lock"
  BY DEF IInv, TypeOK, AcquireRead, At
<1>2. /\ s \in Call /\ s.pc = "reading" /\ s.limiter = call[c].limiter /\ s.amount = call[c].amount
      /\ s.spent = call[c].spent /\ s.outage = call[c].outage /\ s.outcome = call[c].outcome
  BY <1>1 DEF Call, Running
<1>3. Update(c, s) /\ UNCHANGED <<clock, available, switch, mutex, buckets, account>>
  BY DEF AcquireRead
<1> HIDE DEF s
<1>4. ASSUME call'[c] = s PROVE CallInv(c)'
  BY <1>1, <1>2, <1>3, <1>4
  DEF CallInv, HasMutex, OnItsWay, SeesFlag, ReadsLatest, AnswerIsTrue, At, Is, Returned, Running
<1> QED BY <1>2, <1>3, <1>4, CallStep

(* An answer without tokens is one the limiter may give: in an outage the  *)
(* call knows of, or because its context is over.                          *)
LEMMA AnswerKeeps ==
  ASSUME IInv, NEW c \in Caller, NEW answer \in {"cancelled", "unavailable"},
         call[c].pc \in {"reading", "locked", "take"},
         answer = "unavailable" => Is(c, Coordinated) /\ ~available,
         UNCHANGED <<available, clock>>, call'[c] = Answered(call[c], answer)
  PROVE  CallInv(c)' /\ Answered(call[c], answer) \in Call
<1> DEFINE s == Answered(call[c], answer)
<1>1. call[c] \in Call /\ CallInv(c) BY DEF IInv, TypeOK
<1>2. /\ s \in Call /\ s.limiter = call[c].limiter /\ s.amount = call[c].amount
      /\ s.pc = (IF call[c].limiter \in Coordinated THEN "answered" ELSE "returned")
      /\ s.spent = call[c].spent /\ s.outage = call[c].outage /\ s.outcome = answer
  BY <1>1 DEF Answered, Call, Outcome, Answer, Error, Running
<1> HIDE DEF s
<1>3. call'[c] = s BY DEF s
<1>4. call[c].spent = 0 /\ call[c].amount \in 1 .. Capacity /\ (~available => call[c].outage)
  BY <1>1 DEF CallInv, OnItsWay, SeesFlag, Running
<1>5. HasMutex(c)' /\ OnItsWay(c)' /\ SeesFlag(c)' /\ ReadsLatest(c)'
  BY <1>2, <1>3, <1>4 DEF HasMutex, OnItsWay, SeesFlag, ReadsLatest, At, Is, Running
<1>6. AnswerIsTrue(c)'
  BY <1>2, <1>3, <1>4 DEF AnswerIsTrue, At, Is, Returned, Answer, Error
<1> QED BY <1>2, <1>5, <1>6 DEF CallInv, s

(* Under the read lock the flag does not fall, so the delegate is asked    *)
(* while it is up.                                                         *)
LEMMA DelegateKeeps ==
  ASSUME IInv, NEW c \in Caller, Delegate(c)
  PROVE  IInv'
<1>1. call[c] \in Call /\ CallInv(c) /\ call[c].pc = "reading" /\ Is(c, Coordinated)
  BY DEF IInv, TypeOK, Delegate, At, CallInv, OnItsWay
<1>2. UNCHANGED <<clock, available, switch, mutex, buckets, account>> BY DEF Delegate
<1>3. \/ Update(c, Answered(call[c], "cancelled"))
      \/ ~available /\ Update(c, Answered(call[c], "unavailable"))
      \/ available /\ Update(c, [call[c] EXCEPT !.pc = "lock"])
  BY <1>1 DEF Delegate
<1>4. CASE Update(c, Answered(call[c], "cancelled"))
  <2>1. Answered(call[c], "cancelled") \in Call
    BY <1>1 DEF Answered, Call, Outcome, Answer, Error, Running
  <2>2. ASSUME call'[c] = Answered(call[c], "cancelled") PROVE CallInv(c)'
    BY <1>1, <1>2, <2>2, AnswerKeeps
  <2> QED BY <1>2, <1>4, <2>1, <2>2, CallStep
<1>5. CASE ~available /\ Update(c, Answered(call[c], "unavailable"))
  <2>1. Answered(call[c], "unavailable") \in Call
    BY <1>1 DEF Answered, Call, Outcome, Answer, Running
  <2>2. ASSUME call'[c] = Answered(call[c], "unavailable") PROVE CallInv(c)'
    BY <1>1, <1>2, <1>5, <2>2, AnswerKeeps
  <2> QED BY <1>2, <1>5, <2>1, <2>2, CallStep
<1>6. CASE available /\ Update(c, [call[c] EXCEPT !.pc = "lock"])
  <2> DEFINE s == [call[c] EXCEPT !.pc = "lock"]
  <2>1. /\ s \in Call /\ s.pc = "lock" /\ s.limiter = call[c].limiter /\ s.amount = call[c].amount
        /\ s.spent = call[c].spent /\ s.outage = call[c].outage /\ s.outcome = call[c].outcome
    BY <1>1 DEF Call, Running
  <2>2. Update(c, s) BY <1>6
  <2> HIDE DEF s
  <2>3. ASSUME call'[c] = s PROVE CallInv(c)'
    BY <1>1, <1>2, <1>6, <2>1, <2>3
    DEF CallInv, HasMutex, OnItsWay, SeesFlag, ReadsLatest, AnswerIsTrue, At, Is, Returned, Running
  <2> QED BY <1>2, <2>1, <2>2, <2>3, CallStep
<1> QED BY <1>3, <1>4, <1>5, <1>6

(* A mutex changes hands from nobody to one caller.                        *)
LEMMA AcquireMutexKeeps ==
  ASSUME IInv, NEW c \in Caller, AcquireMutex(c)
  PROVE  IInv'
<1> DEFINE s == [call[c] EXCEPT !.pc = "locked"]
           home == Home(call[c].limiter)
<1>1. call[c] \in Call /\ CallInv(c) /\ call[c].pc = "lock"
  BY DEF IInv, TypeOK, AcquireMutex, At
<1>2. /\ s \in Call /\ s.pc = "locked" /\ s.limiter = call[c].limiter /\ s.amount = call[c].amount
      /\ s.spent = call[c].spent /\ s.outage = call[c].outage /\ s.outcome = call[c].outcome
  BY <1>1 DEF Call, Running
<1>3. /\ Update(c, s) /\ UNCHANGED <<clock, available, switch, buckets, account>>
      /\ mutex[home] = None /\ mutex' = [mutex EXCEPT ![home] = c]
  BY DEF AcquireMutex
<1>4. home \in {"shared", "local"} /\ mutex \in [{"shared", "local"} -> Caller \cup {None}]
  BY DEF Home, IInv, TypeOK
<1> HIDE DEF s
<1>5. call'[c] = s /\ \A d \in Caller \ {c} : call'[d] = call[d]
  BY <1>2, <1>3, OneCall DEF IInv
<1>6. TypeOK' BY <1>2, <1>3, <1>4, OneCall DEF IInv, TypeOK
<1>7. mutex'[home] = c /\ \A h \in {"shared", "local"} \ {home} : mutex'[h] = mutex[h]
  BY <1>3, <1>4
<1> HIDE DEF home
<1>8. \A d \in Caller \ {c} : CallInv(d)'
  BY <1>3, <1>5, <1>7, OthersKeep DEF IInv, home
<1>9. CallInv(c)'
  <2>1. HasMutex(c)' BY <1>2, <1>5, <1>7 DEF HasMutex, home
  <2>2. OnItsWay(c)' /\ SeesFlag(c)' /\ ReadsLatest(c)' /\ AnswerIsTrue(c)'
    BY <1>1, <1>2, <1>3, <1>5
    DEF CallInv, OnItsWay, SeesFlag, ReadsLatest, AnswerIsTrue, At, Is, Returned, Running
  <2> QED BY <2>1, <2>2 DEF CallInv
<1>10. \A k \in Key : BucketInv(k)' BY <1>3, BucketsKeep DEF IInv
<1> QED BY <1>6, <1>8, <1>9, <1>10 DEF IInv

(* The moment is read by the holder of the mutex: every bucket behind it   *)
(* was last seen at a moment that has passed.                              *)
LEMMA ReadClockKeeps ==
  ASSUME IInv, NEW c \in Caller, ReadClock(c)
  PROVE  IInv'
<1> DEFINE home == Home(call[c].limiter)
<1>1. call[c] \in Call /\ CallInv(c) /\ call[c].pc = "locked"
  BY DEF IInv, TypeOK, ReadClock, At
<1>2. UNCHANGED <<clock, available, switch, buckets, account>> BY DEF ReadClock
<1>3. home \in {"shared", "local"} /\ mutex \in [{"shared", "local"} -> Caller \cup {None}]
  BY DEF Home, IInv, TypeOK
<1>4. mutex[home] = c BY <1>1 DEF CallInv, HasMutex
<1>5. CASE Update(c, Answered(call[c], "cancelled")) /\ Release(c)
  <2> DEFINE s == Answered(call[c], "cancelled")
  <2>1. s \in Call BY <1>1 DEF Answered, Call, Outcome, Answer, Error, Running
  <2>2. call'[c] = s /\ \A d \in Caller \ {c} : call'[d] = call[d]
    BY <1>5, <2>1, OneCall DEF IInv
  <2>3. mutex' = [mutex EXCEPT ![home] = None] BY <1>5 DEF Release
  <2>4. TypeOK' BY <1>2, <1>3, <1>5, <2>1, <2>3, OneCall DEF IInv, TypeOK
  <2>5. \A h \in {"shared", "local"} \ {home} : mutex'[h] = mutex[h] BY <1>3, <2>3
  <2> HIDE DEF home
  <2>6. \A d \in Caller \ {c} : CallInv(d)'
    BY <1>2, <1>4, <2>2, <2>5, OthersKeep DEF IInv, home
  <2>7. CallInv(c)' BY <1>1, <1>2, <2>2, AnswerKeeps
  <2>8. \A k \in Key : BucketInv(k)' BY <1>2, BucketsKeep DEF IInv
  <2> QED BY <2>4, <2>6, <2>7, <2>8 DEF IInv
<1>6. CASE Update(c, [call[c] EXCEPT !.pc = "take", !.now = clock]) /\ UNCHANGED mutex
  <2> DEFINE s == [call[c] EXCEPT !.pc = "take", !.now = clock]
  <2>1. clock \in Nat BY RateLimiterAssumption DEF IInv, TypeOK
  <2>2. /\ s \in Call /\ s.pc = "take" /\ s.limiter = call[c].limiter /\ s.amount = call[c].amount
        /\ s.spent = call[c].spent /\ s.outage = call[c].outage /\ s.outcome = call[c].outcome
        /\ s.now = clock /\ KeyOf(s) = KeyOf(call[c]) /\ KeyOf(s) \in Key
    BY <1>1, <2>1 DEF Call, Running, KeyOf, Key
  <2>3. Update(c, s) BY <1>6
  <2> HIDE DEF s
  <2>4. ASSUME call'[c] = s PROVE CallInv(c)'
    <3>1. HasMutex(c)' BY <1>1, <1>4, <1>6, <2>2, <2>4 DEF HasMutex
    <3>2. OnItsWay(c)' /\ SeesFlag(c)' /\ AnswerIsTrue(c)'
      BY <1>1, <1>2, <2>2, <2>4
      DEF CallInv, OnItsWay, SeesFlag, AnswerIsTrue, At, Is, Returned, Running
    <3>3. BucketInv(KeyOf(s)) BY <2>2 DEF IInv
    <3>4. ReadsLatest(c)'
      BY <1>2, <2>1, <2>2, <2>4, <3>3 DEF ReadsLatest, BucketInv
    <3> QED BY <3>1, <3>2, <3>4 DEF CallInv
  <2> QED BY <1>2, <1>6, <2>2, <2>3, <2>4, CallStep
<1> QED BY <1>5, <1>6 DEF ReadClock

(* The step at the bucket: the moment is the latest the bucket sees, so    *)
(* what is taken is on its account, and the answer says what was taken.    *)
LEMMA TakeKeeps ==
  ASSUME IInv, NEW c \in Caller, Take(c)
  PROVE  IInv'
<1> DEFINE r == call[c]
           home == Home(r.limiter)
           k == KeyOf(r)
           b == BucketAt(k, r.now)
           answer == TakeAnswer(b, r.now, r.amount)
           spent == IF answer = "allowed" THEN r.amount ELSE 0
           since == IF buckets[k] = None THEN r.now ELSE account[k].since
<1>1. /\ r \in Call /\ CallInv(c) /\ r.pc = "take" /\ UNCHANGED <<clock, available, switch>>
      /\ mutex' = [mutex EXCEPT ![home] = None]
  BY DEF IInv, TypeOK, Take, At, Release
<1>2. /\ home \in {"shared", "local"} /\ mutex \in [{"shared", "local"} -> Caller \cup {None}]
      /\ buckets \in [Key -> Bucket \cup {None}] /\ account \in [Key -> [since : Nat, passed : Nat]]
  BY DEF Home, IInv, TypeOK
<1>3. mutex[home] = c BY <1>1 DEF CallInv, HasMutex
<1>4. mutex' \in [{"shared", "local"} -> Caller \cup {None}]
  BY <1>1, <1>2
<1>5. \A h \in {"shared", "local"} \ {home} : mutex'[h] = mutex[h] BY <1>1, <1>2
<1>6. k \in Key BY <1>1 DEF KeyOf, Key, Call
<1>7. /\ r.now \in Nat /\ clock \in Nat /\ r.now <= clock /\ r.amount \in 1 .. Capacity
      /\ r.amount \in Nat /\ r.spent = 0
  BY <1>1, RateLimiterAssumption, BucketAssumption
  DEF Call, CallInv, OnItsWay, ReadsLatest, At, Running, IInv, TypeOK
<1> HIDE DEF home
<1>8. CASE r.cancelled /\ Update(c, Answered(r, "cancelled")) /\ UNCHANGED <<buckets, account>>
  <2> DEFINE s == Answered(r, "cancelled")
  <2>1. s \in Call BY <1>1 DEF Answered, Call, Outcome, Answer, Error, Running
  <2>2. call'[c] = s /\ \A d \in Caller \ {c} : call'[d] = call[d]
    BY <1>8, <2>1, OneCall DEF IInv
  <2>3. TypeOK' BY <1>1, <1>4, <1>8, <2>1, OneCall DEF IInv, TypeOK
  <2>4. \A d \in Caller \ {c} : CallInv(d)'
    BY <1>1, <1>3, <1>5, <1>8, <2>2, OthersKeep DEF IInv, home
  <2>5. CallInv(c)' BY <1>1, <2>2, AnswerKeeps
  <2>6. \A j \in Key : BucketInv(j)' BY <1>1, <1>8, BucketsKeep DEF IInv
  <2> QED BY <2>3, <2>4, <2>5, <2>6 DEF IInv
<1>9. CASE /\ ~r.cancelled
           /\ Update(c, [Answered(r, answer) EXCEPT !.spent = spent])
           /\ buckets' = [buckets EXCEPT ![k] = BucketAfter(b, r.now, r.amount)]
           /\ account' = [account EXCEPT ![k] = [since |-> since, passed |-> @.passed + spent]]
  <2>1. BucketInv(k) /\ account[k].since \in Nat /\ account[k].passed \in Nat
    BY <1>2, <1>6 DEF IInv
  <2>2. /\ b \in Bucket /\ b.lastObserved <= r.now /\ since \in Nat
        /\ Sound(b, since, account[k].passed)
    <3>1. CASE buckets[k] = None
      <4>1. b = New(r.now) /\ since = r.now /\ account[k].passed = 0
        BY <2>1, <3>1 DEF BucketAt, BucketInv
      <4> QED BY <1>7, <4>1, NewIsSound
    <3>2. CASE buckets[k] # None
      <4>1. b = buckets[k] /\ since = account[k].since /\ buckets[k] \in Bucket
        BY <1>2, <1>6, <3>2 DEF BucketAt
      <4>2. b.lastObserved <= r.now BY <1>1, <3>2, <4>1 DEF CallInv, ReadsLatest, At
      <4> QED BY <2>1, <3>2, <4>1, <4>2 DEF BucketInv
    <3> QED BY <3>1, <3>2
  <2> HIDE DEF k, b, since, answer, spent
  <2>3. /\ answer \in {"allowed", "denied", "ErrTimeOverflow"}
        /\ BucketAfter(b, r.now, r.amount) \in Bucket
        /\ BucketAfter(b, r.now, r.amount).lastObserved <= r.now
        /\ Sound(BucketAfter(b, r.now, r.amount), since, account[k].passed + spent)
    BY <1>7, <2>1, <2>2, TakeIsSound DEF answer, spent
  <2>4. spent \in Nat /\ (answer = "allowed" => spent = r.amount /\ spent # 0)
        /\ (spent # 0 => answer = "allowed")
    BY <1>7 DEF spent
  <2>5. /\ buckets'[k] = BucketAfter(b, r.now, r.amount)
        /\ account'[k] = [since |-> since, passed |-> account[k].passed + spent]
        /\ \A j \in Key \ {k} : buckets'[j] = buckets[j] /\ account'[j] = account[j]
        /\ buckets' \in [Key -> Bucket \cup {None}]
        /\ account' \in [Key -> [since : Nat, passed : Nat]]
    BY <1>2, <1>6, <1>9, <2>1, <2>2, <2>3, <2>4
  <2> DEFINE s == [Answered(r, answer) EXCEPT !.spent = spent]
  <2>6. /\ s \in Call /\ s.limiter = r.limiter /\ s.amount = r.amount /\ s.outage = r.outage
        /\ s.pc = (IF r.limiter \in Coordinated THEN "answered" ELSE "returned")
        /\ s.spent = spent /\ s.outcome = answer
    BY <1>1, <2>3, <2>4 DEF Answered, Call, Outcome, Answer, Error, Running
  <2>7. Update(c, s) BY <1>9
  <2> HIDE DEF s
  <2>8. call'[c] = s /\ \A d \in Caller \ {c} : call'[d] = call[d]
    BY <2>6, <2>7, OneCall DEF IInv
  <2>9. TypeOK' BY <1>1, <1>4, <2>5, <2>6, <2>7, OneCall DEF IInv, TypeOK
  <2>10. \A d \in Caller \ {c} : CallInv(d)'
    BY <1>1, <1>3, <1>5, <2>5, <2>8, OthersKeep DEF IInv, home, k
  <2>11. CallInv(c)'
    <3>1. ~available => r.outage BY <1>1 DEF CallInv, SeesFlag, Running
    <3>2. HasMutex(c)' /\ OnItsWay(c)' /\ SeesFlag(c)' /\ ReadsLatest(c)'
      BY <1>1, <2>6, <2>8, <3>1 DEF HasMutex, OnItsWay, SeesFlag, ReadsLatest, At, Is, Running
    <3>3. AnswerIsTrue(c)'
      BY <2>3, <2>4, <2>6, <2>8 DEF AnswerIsTrue, At, Is, Returned, Answer, Error
    <3> QED BY <3>2, <3>3 DEF CallInv
  <2>12. ASSUME NEW j \in Key, j = k PROVE BucketInv(j)'
    <3>1. /\ buckets'[j] \in Bucket /\ buckets'[j] # None /\ buckets'[j].lastObserved \in Nat
          /\ buckets'[j].lastObserved <= r.now
          /\ Sound(buckets'[j], account'[j].since, account'[j].passed)
      BY <2>3, <2>5, <2>12, RateLimiterAssumption DEF Bucket
    <3>2. buckets'[j].lastObserved <= clock' BY <1>1, <1>7, <3>1
    <3> QED BY <3>1, <3>2 DEF BucketInv
  <2>13. \A j \in Key \ {k} : BucketInv(j)' BY <1>1, <2>5 DEF IInv, BucketInv
  <2> QED BY <2>9, <2>10, <2>11, <2>12, <2>13 DEF IInv
<1> QED BY <1>8, <1>9 DEF Take

(* The result says what the answer said, but for a cancelled context and   *)
(* an outage.                                                              *)
LEMMA FinishKeeps ==
  ASSUME IInv, NEW c \in Caller, Finish(c)
  PROVE  IInv'
<1> DEFINE s == [call[c] EXCEPT !.pc = "returned", !.outcome = Verdict(call[c])]
<1>1. call[c] \in Call /\ CallInv(c) /\ call[c].pc = "answered"
  BY DEF IInv, TypeOK, Finish, At
<1>2. /\ call[c].limiter \in Coordinated /\ call[c].limiter \in {"fail-open", "fail-closed"}
      /\ call[c].outcome \in Answer
      /\ call[c].outcome # "ErrTimeRollback" /\ call[c].cancelled \in BOOLEAN
      /\ call[c].outcome = "allowed" => call[c].spent = call[c].amount /\ call[c].spent # 0
      /\ call[c].spent # 0 => call[c].outcome = "allowed"
      /\ call[c].outcome = "unavailable" => call[c].outage /\ call[c].amount \in 1 .. Capacity
  BY <1>1 DEF CallInv, OnItsWay, AnswerIsTrue, At, Is, Coordinated, Call
<1>3. \/ call[c].cancelled /\ Verdict(call[c]) = "cancelled"
      \/ /\ ~call[c].cancelled /\ call[c].outcome = "unavailable"
         /\ Verdict(call[c]) = (IF call[c].limiter = "fail-open" THEN "admitted" ELSE "refused")
      \/ /\ ~call[c].cancelled /\ call[c].outcome # "unavailable"
         /\ Verdict(call[c]) = call[c].outcome
  BY <1>2 DEF Verdict
<1>4. Verdict(call[c]) \in Outcome \ {"ErrTimeRollback"}
  BY <1>2, <1>3 DEF Outcome, Answer, Error
<1>5. /\ s \in Call /\ s.pc = "returned" /\ s.limiter = call[c].limiter /\ s.amount = call[c].amount
      /\ s.spent = call[c].spent /\ s.outage = call[c].outage /\ s.outcome = Verdict(call[c])
      /\ s.cancelled = call[c].cancelled
  BY <1>1, <1>4 DEF Call
<1>6. Update(c, s) /\ UNCHANGED <<clock, available, switch, mutex, buckets, account>>
  BY DEF Finish
<1> HIDE DEF s
<1>7. ASSUME call'[c] = s PROVE CallInv(c)'
  <2>1. HasMutex(c)' /\ OnItsWay(c)' /\ SeesFlag(c)' /\ ReadsLatest(c)'
    BY <1>5, <1>7 DEF HasMutex, OnItsWay, SeesFlag, ReadsLatest, At, Is, Running
  <2>2. AnswerIsTrue(c)'
    BY <1>2, <1>3, <1>4, <1>5, <1>7 DEF AnswerIsTrue, At, Is, Returned, Answer, Error
  <2> QED BY <2>1, <2>2 DEF CallInv
<1> QED BY <1>5, <1>6, <1>7, CallStep

(* A context that ends changes no answer that was given.                   *)
LEMMA CancelKeeps ==
  ASSUME IInv, NEW c \in Caller, Cancel(c)
  PROVE  IInv'
<1> DEFINE s == [call[c] EXCEPT !.cancelled = TRUE]
<1>1. call[c] \in Call /\ CallInv(c) /\ call[c].pc \in Running
  BY DEF IInv, TypeOK, Cancel
<1>2. /\ s \in Call /\ s.pc = call[c].pc /\ s.limiter = call[c].limiter
      /\ s.amount = call[c].amount /\ s.spent = call[c].spent /\ s.outage = call[c].outage
      /\ s.outcome = call[c].outcome /\ s.now = call[c].now /\ KeyOf(s) = KeyOf(call[c])
  BY <1>1 DEF Call, KeyOf
<1>3. Update(c, s) /\ UNCHANGED <<clock, available, switch, mutex, buckets, account>>
  BY DEF Cancel, Update
<1> HIDE DEF s
<1>4. ASSUME call'[c] = s PROVE CallInv(c)'
  <2>1. OnItsWay(c)' /\ SeesFlag(c)' /\ HasMutex(c)' /\ ReadsLatest(c)'
    BY <1>1, <1>2, <1>3, <1>4
    DEF CallInv, HasMutex, OnItsWay, SeesFlag, ReadsLatest, At, Is
  <2>2. AnswerIsTrue(c)'
    BY <1>1, <1>2, <1>4 DEF CallInv, AnswerIsTrue, At, Returned, Running
  <2> QED BY <2>1, <2>2 DEF CallInv
<1> QED BY <1>2, <1>3, <1>4, CallStep

(* Time that passes makes no moment that was read a later one.             *)
LEMMA TickKeeps ==
  ASSUME IInv, Tick
  PROVE  IInv'
<1>1. /\ clock \in Nat /\ clock' = clock + 1 /\ clock' \in 0 .. MaxTime
      /\ UNCHANGED <<available, switch, mutex, buckets, account, call>>
  BY RateLimiterAssumption DEF Tick, IInv, TypeOK
<1>2. TypeOK' BY <1>1 DEF IInv, TypeOK
<1>3. ASSUME NEW c \in Caller PROVE CallInv(c)'
  <2>1. CallInv(c) /\ call[c].now \in Nat BY DEF IInv, TypeOK, Call
  <2>2. HasMutex(c)' /\ OnItsWay(c)' /\ SeesFlag(c)' /\ AnswerIsTrue(c)'
    BY <1>1, <2>1 DEF CallInv, HasMutex, OnItsWay, SeesFlag, AnswerIsTrue, At, Is, Returned
  <2>3. ReadsLatest(c)' BY <1>1, <2>1 DEF CallInv, ReadsLatest, At
  <2> QED BY <2>2, <2>3 DEF CallInv
<1>4. ASSUME NEW k \in Key PROVE BucketInv(k)'
  <2>1. BucketInv(k) /\ buckets[k] \in Bucket \cup {None} BY DEF IInv, TypeOK
  <2>2. CASE buckets[k] = None BY <1>1, <2>1, <2>2 DEF BucketInv
  <2>3. CASE buckets[k] # None
    <3>1. buckets[k].lastObserved \in Nat /\ buckets[k].lastObserved <= clock
      BY <2>1, <2>3 DEF Bucket, BucketInv
    <3> QED BY <1>1, <2>1, <2>3, <3>1 DEF BucketInv
  <2> QED BY <2>2, <2>3
<1> QED BY <1>2, <1>3, <1>4 DEF IInv

(* Who asks for the write lock changes nothing else.                       *)
LEMMA AskSwitchKeeps ==
  ASSUME IInv, NEW direction \in {"up", "down"}, AskSwitch(direction)
  PROVE  IInv'
<1>1. /\ switch' = direction
      /\ UNCHANGED <<clock, available, mutex, buckets, account, call>>
  BY DEF AskSwitch
<1>2. TypeOK' BY <1>1 DEF IInv, TypeOK
<1>3. ASSUME NEW c \in Caller PROVE CallInv(c)'
  BY <1>1 DEF IInv, CallInv, HasMutex, OnItsWay, SeesFlag, ReadsLatest, AnswerIsTrue, At, Is, Returned
<1> QED BY <1>1, <1>2, <1>3, BucketsKeep DEF IInv

(* The flag falls when nobody is behind it, and every call that runs then  *)
(* has an outage in it.                                                    *)
LEMMA SetAvailableKeeps ==
  ASSUME IInv, SetAvailable
  PROVE  IInv'
<1>1. /\ switch \in {"up", "down"} /\ available' = (switch = "up") /\ switch' = "none"
      /\ UNCHANGED <<clock, mutex, buckets, account>>
      /\ call' = [c \in Caller |-> [call[c] EXCEPT !.outage = @ \/ switch = "down"]]
      /\ \A c \in Caller : ~Reader(c)
  BY DEF SetAvailable, IInv, TypeOK
<1>2. ASSUME NEW c \in Caller
      PROVE  LET s == call'[c] IN
               /\ s \in Call /\ s.pc = call[c].pc /\ s.limiter = call[c].limiter
               /\ s.amount = call[c].amount /\ s.spent = call[c].spent
               /\ s.outage = (call[c].outage \/ switch = "down")
               /\ s.outcome = call[c].outcome /\ s.now = call[c].now
               /\ s.cancelled = call[c].cancelled /\ KeyOf(s) = KeyOf(call[c])
  <2>1. call[c] \in Call /\ call[c].outage \in BOOLEAN BY DEF IInv, TypeOK, Call
  <2> DEFINE s == [call[c] EXCEPT !.outage = @ \/ switch = "down"]
  <2>2. /\ s \in Call /\ s.pc = call[c].pc /\ s.limiter = call[c].limiter
        /\ s.amount = call[c].amount /\ s.spent = call[c].spent
        /\ s.outage = (call[c].outage \/ switch = "down")
        /\ s.outcome = call[c].outcome /\ s.now = call[c].now
        /\ s.cancelled = call[c].cancelled /\ KeyOf(s) = KeyOf(call[c])
    BY <2>1 DEF Call, KeyOf
  <2>3. call'[c] = s BY <1>1
  <2> HIDE DEF s
  <2> QED BY <2>2, <2>3
<1>3. TypeOK'
  <2>1. call' \in [Caller -> Call] BY <1>1, <1>2
  <2> QED BY <1>1, <2>1 DEF IInv, TypeOK
<1>4. ASSUME NEW c \in Caller PROVE CallInv(c)'
  <2>1. CallInv(c) /\ ~Reader(c) /\ call[c].outage \in BOOLEAN
    BY <1>1 DEF IInv, TypeOK, Call
  <2> DEFINE s == call'[c]
  <2>2. /\ s.pc = call[c].pc /\ s.limiter = call[c].limiter
        /\ s.amount = call[c].amount /\ s.spent = call[c].spent
        /\ s.outage = (call[c].outage \/ switch = "down")
        /\ s.outcome = call[c].outcome /\ s.now = call[c].now
        /\ s.cancelled = call[c].cancelled /\ KeyOf(s) = KeyOf(call[c])
    BY <1>2
  <2>3. HasMutex(c)' /\ OnItsWay(c)' /\ ReadsLatest(c)'
    BY <1>1, <2>1, <2>2 DEF CallInv, HasMutex, OnItsWay, ReadsLatest, At, Is
  <2>4. SeesFlag(c)'
    BY <1>1, <2>1, <2>2 DEF SeesFlag, Reader, At, Is
  <2>5. AnswerIsTrue(c)'
    BY <2>1, <2>2 DEF CallInv, AnswerIsTrue, At, Is, Returned
  <2> QED BY <2>3, <2>4, <2>5 DEF CallInv
<1> QED BY <1>1, <1>3, <1>4, BucketsKeep DEF IInv

(* Before the first call there is no bucket and nobody at a lock.          *)
LEMMA InitHolds == Init => IInv
<1> SUFFICES ASSUME Init PROVE IInv OBVIOUS
<1>1. TypeOK
  <2>1. 0 \in 0 .. MaxTime BY RateLimiterAssumption
  <2> QED BY <2>1, BlankIsCall DEF Init, TypeOK
<1>2. ASSUME NEW c \in Caller PROVE CallInv(c)
  <2>1. call[c].pc = "idle" /\ call[c].outcome = "none" BY DEF Init, Blank
  <2> QED BY <2>1 DEF CallInv, HasMutex, OnItsWay, SeesFlag, ReadsLatest, AnswerIsTrue, At,
                      Returned, Running
<1>3. ASSUME NEW k \in Key PROVE BucketInv(k) BY DEF Init, BucketInv
<1> QED BY <1>1, <1>2, <1>3 DEF IInv

(* Every step keeps the invariant.                                         *)
LEMMA StepKeeps ==
  ASSUME IInv, [Next]_vars
  PROVE  IInv'
<1>1. CASE UNCHANGED vars
  BY <1>1 DEF vars, IInv, TypeOK, CallInv, HasMutex, OnItsWay, SeesFlag, ReadsLatest,
              AnswerIsTrue, At, Is, Returned, BucketInv
<1>2. ASSUME NEW c \in Caller, Advance(c) PROVE IInv'
  BY <1>2, AcquireReadKeeps, DelegateKeeps, AcquireMutexKeeps, ReadClockKeeps, TakeKeeps,
     FinishKeeps DEF Advance
<1> QED BY <1>1, <1>2, CancelKeeps, BeginKeeps, TickKeeps, SetAvailableKeeps, AskSwitchKeeps DEF Next

------------------------------------------------------------------------------
(* The theorems.                                                           *)

(* The inductive invariant holds in every reachable state.                 *)
THEOREM Invariance == Spec => []IInv
<1>1. Init => IInv BY InitHolds
<1>2. IInv /\ [Next]_vars => IInv' BY StepKeeps
<1> QED BY <1>1, <1>2, PTL DEF Spec

(* Every reachable state has its type: no balance is above the capacity,   *)
(* and every answer is one the limiters give.                              *)
THEOREM TypeCorrect == Spec => []TypeOK
<1>1. IInv => TypeOK BY DEF IInv
<1> QED BY <1>1, Invariance, PTL

(* No bucket lets more pass than its capacity and one token for every      *)
(* interval since it was made, whatever the callers do.                    *)
THEOREM BudgetKept == Spec => []BudgetIsKept
<1>1. IInv => BudgetIsKept BY DEF IInv, BudgetIsKept, BucketInv, Sound
<1> QED BY <1>1, Invariance, PTL

(* No caller brings a bucket a moment older than the one it saw before.    *)
THEOREM NoRollback == Spec => []NoTimeRollback
<1>1. IInv => NoTimeRollback BY DEF IInv, NoTimeRollback, CallInv, AnswerIsTrue
<1> QED BY <1>1, Invariance, PTL

(* Every result agrees with the tokens that were taken for it.             *)
THEOREM AnswersMatchTokens == Spec => []AnswerMatchesTokens
<1>1. IInv => AnswerMatchesTokens
  BY DEF IInv, AnswerMatchesTokens, CallInv, AnswerIsTrue
<1> QED BY <1>1, Invariance, PTL

(* A per-node call that returns a cancellation has spent nothing.          *)
THEOREM LocalCancel == Spec => []LocalCancelSpendsNothing
<1>1. IInv => LocalCancelSpendsNothing
  BY DEF IInv, LocalCancelSpendsNothing, CallInv, AnswerIsTrue, Is, Coordinated
<1> QED BY <1>1, Invariance, PTL

(* While the flag is down no shared bucket changes: whoever is at one has  *)
(* the read lock, and got it while the flag was up.                        *)
THEOREM OutageQuiet == Spec => OutageIsQuiet
<1> DEFINE Quiet == ~available => \A t \in Tenant : buckets'[<<t, "all">>] = buckets[<<t, "all">>]
<1>1. IInv /\ [Next]_vars => [Quiet]_vars
  <2> SUFFICES ASSUME IInv, Next, ~available, NEW t \in Tenant
               PROVE  buckets'[<<t, "all">>] = buckets[<<t, "all">>]
    BY DEF vars
  <2>1. ASSUME NEW c \in Caller, Take(c) PROVE buckets'[<<t, "all">>] = buckets[<<t, "all">>]
    <3>1. call[c] \in Call /\ CallInv(c) /\ call[c].pc = "take"
      BY <2>1 DEF IInv, TypeOK, Take, At
    <3>2. call[c].limiter \notin Coordinated BY <3>1 DEF CallInv, SeesFlag, Is
    <3>3. KeyOf(call[c]) # <<t, "all">>
      BY <3>1, <3>2, RateLimiterAssumption DEF KeyOf, Call
    <3>4. buckets \in [Key -> Bucket \cup {None}] /\ <<t, "all">> \in Key
      BY DEF IInv, TypeOK, Key
    <3>5. \/ buckets' = buckets
          \/ \E v : buckets' = [buckets EXCEPT ![KeyOf(call[c])] = v]
      BY <2>1 DEF Take
    <3> QED BY <3>3, <3>4, <3>5
  <2>2. ASSUME NEW c \in Caller, Advance(c) PROVE Take(c) \/ buckets' = buckets
    BY <2>2 DEF Advance, AcquireRead, Delegate, AcquireMutex, ReadClock, Finish
  <2>3. ASSUME NEW c \in Caller, NEW l \in Limiter, NEW u \in Tenant, NEW n \in Node,
               NEW a \in Amount, NEW x \in BOOLEAN, Begin(c, l, u, n, a, x)
        PROVE  buckets' = buckets
    BY <2>3 DEF Begin
  <2>4. ASSUME NEW c \in Caller, Cancel(c) PROVE buckets' = buckets BY <2>4 DEF Cancel
  <2>5. CASE Tick \/ SetAvailable \/ \E direction \in {"up", "down"} : AskSwitch(direction)
    BY <2>5 DEF Tick, SetAvailable, AskSwitch
  <2> QED BY <2>1, <2>2, <2>3, <2>4, <2>5 DEF Next
<1> QED BY <1>1, Invariance, PTL DEF Spec, OutageIsQuiet

=============================================================================
