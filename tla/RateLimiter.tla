----------------------------- MODULE RateLimiter -----------------------------
(***************************************************************************)
(* labs/scenarios/distributed-rate-limiter/limiter.go: concurrent calls of *)
(* Allow on the limiters of the scenario.  A coordinated limiter asks an   *)
(* AvailabilityCoordinator (an RWMutex around a flag an operator switches) *)
(* which asks a SharedCoordinator (a mutex around one bucket per tenant);  *)
(* a PerNodeLimiter has a mutex around one bucket per tenant and node.     *)
(*                                                                         *)
(* A step goes from one lock, look at the context or read of the clock to  *)
(* the next; a second look at the context with neither a wait nor a change *)
(* in between is part of the first one.                                    *)
(***************************************************************************)
EXTENDS Bucket

CONSTANTS Caller,  \* goroutines that call Allow, again and again
          Limiter, \* the limiters they call, a subset of Limiters
          Tenant, Node, Amount, \* what their requests name
          None,    \* no bucket, nobody
          MaxTime  \* bound of the model: the clock stops here

Limiters == {"fail-closed", "fail-open", "per-node"}

ASSUME RateLimiterAssumption ==
  /\ Limiter \subseteq Limiters /\ Amount \subseteq Nat /\ MaxTime \in Nat
  /\ {} \notin {Limiter, Tenant, Node, Amount}
  /\ None \notin Caller /\ None \notin Bucket /\ "all" \notin Node

VARIABLES clock,     \* the injected harness.Clock
          available, \* the flag of AvailabilityCoordinator
          switch,    \* the SetAvailable that waits for the write lock, if any
          mutex,     \* who holds the mutex of each kind of limiter
          buckets,   \* the buckets, by tenant and node
          account,   \* since when there is a bucket, and what it let pass (auxiliary)
          call       \* the control state of each caller and of its latest call

vars == <<clock, available, switch, mutex, buckets, account, call>>

(* A shared bucket stands for the tenant on all nodes.                     *)
Key == Tenant \X (Node \cup {"all"})

Coordinated == {"fail-closed", "fail-open"}
Home(limiter) == IF limiter \in Coordinated THEN "shared" ELSE "local"

Error   == {"cancelled", "invalid", "ErrTimeRollback", "ErrTimeOverflow"}
Answer  == {"none", "allowed", "denied", "unavailable"} \cup Error
Outcome == Answer \cup {"admitted", "refused"}

Running == {"read-lock", "reading", "lock", "locked", "take", "answered"}

Call == [pc : {"idle", "returned"} \cup Running, limiter : Limiter,
         tenant : Tenant, node : Node, amount : Amount,
         cancelled : BOOLEAN, \* the call's context
         now : Nat,           \* the moment read from the clock
         outcome : Outcome,
         spent : Nat,         \* the tokens the call took from a bucket (auxiliary)
         outage : BOOLEAN]    \* the flag was down during the call (auxiliary)

TypeOK ==
  /\ clock \in 0 .. MaxTime /\ available \in BOOLEAN /\ switch \in {"none", "up", "down"}
  /\ mutex \in [{"shared", "local"} -> Caller \cup {None}]
  /\ buckets \in [Key -> Bucket \cup {None}]
  /\ account \in [Key -> [since : Nat, passed : Nat]]
  /\ call \in [Caller -> Call]

At(c, l) == call[c].pc = l
Is(c, kinds) == call[c].limiter \in kinds
KeyOf(r) == <<r.tenant, IF r.limiter \in Coordinated THEN "all" ELSE r.node>>

(* Mutants: the read lock is given back before the delegate is asked, or   *)
(* not at all when the answer is known.                                    *)
Reader_UntilDelegation(c) == Is(c, Coordinated) /\ At(c, "reading")
Reader_Leaks(c) ==
  Is(c, Coordinated) /\ call[c].pc \in {"reading", "lock", "locked", "take", "answered", "returned"}

(* Who holds the read lock of the AvailabilityCoordinator: it is kept      *)
(* until the delegate has answered.                                        *)
Reader(c) == Is(c, Coordinated) /\ call[c].pc \in {"reading", "lock", "locked", "take"}

Blank == [pc |-> "idle", limiter |-> CHOOSE l \in Limiter : TRUE,
          tenant |-> CHOOSE t \in Tenant : TRUE, node |-> CHOOSE n \in Node : TRUE,
          amount |-> CHOOSE a \in Amount : TRUE, cancelled |-> FALSE,
          now |-> 0, outcome |-> "none", spent |-> 0, outage |-> FALSE]

Init ==
  /\ clock = 0 /\ available = TRUE /\ switch = "none"
  /\ mutex = [home \in {"shared", "local"} |-> None]
  /\ buckets = [k \in Key |-> None]
  /\ account = [k \in Key |-> [since |-> 0, passed |-> 0]]
  /\ call = [c \in Caller |-> Blank]

------------------------------------------------------------------------------
(* One call of Allow.                                                      *)

Update(c, r) == call' = [call EXCEPT ![c] = r]

(* Mutant: PerNodeLimiter looks at the context again, after the bucket.    *)
Answered_LooksAgain(r, answer) == [r EXCEPT !.outcome = answer, !.pc = "answered", !.now = 0]

(* The coordinator's answer goes back to coordinatedLimiter, which looks   *)
(* at it; PerNodeLimiter's is the result.  On the way out the deferred     *)
(* Unlock and RUnlock run.                                                 *)
Answered(r, answer) ==
  [r EXCEPT !.outcome = answer, !.now = 0,
            !.pc = IF r.limiter \in Coordinated THEN "answered" ELSE "returned"]

(* Look at the request and at the context.  A coordinated limiter leaves   *)
(* it to the coordinator to compare the amount with the capacity.          *)
Begin(c, limiter, tenant, node, amount, cancelled) ==
  LET r == [Blank EXCEPT !.limiter = limiter, !.tenant = tenant, !.node = node,
                         !.amount = amount, !.cancelled = cancelled, !.outage = ~available]
  IN /\ call[c].pc \in {"idle", "returned"}
     /\ \/ amount = 0 /\ Update(c, [r EXCEPT !.pc = "returned", !.outcome = "invalid"])
        \/ amount > Capacity /\ limiter = "per-node"
             /\ Update(c, [r EXCEPT !.pc = "returned", !.outcome = "invalid"])
        \/ amount > Capacity /\ limiter # "per-node" /\ ~cancelled
             /\ Update(c, Answered(r, "invalid"))
        \/ amount # 0 /\ cancelled /\ (amount <= Capacity \/ limiter # "per-node")
             /\ Update(c, [r EXCEPT !.pc = "returned", !.outcome = "cancelled"])
        \/ amount \in 1 .. Capacity /\ ~cancelled
             /\ Update(c, [r EXCEPT !.pc = IF limiter = "per-node" THEN "lock" ELSE "read-lock"])
     /\ UNCHANGED <<clock, available, switch, mutex, buckets, account>>

(* A writer that waits for the RWMutex keeps new readers out.              *)
AcquireRead(c) ==
  /\ At(c, "read-lock") /\ switch = "none"
  /\ Update(c, [call[c] EXCEPT !.pc = "reading"])
  /\ UNCHANGED <<clock, available, switch, mutex, buckets, account>>

(* Under the read lock: the context, the flag, then on to the delegate.    *)
Delegate(c) ==
  /\ At(c, "reading")
  /\ Update(c, CASE call[c].cancelled -> Answered(call[c], "cancelled")
                 [] ~call[c].cancelled /\ ~available -> Answered(call[c], "unavailable")
                 [] OTHER -> [call[c] EXCEPT !.pc = "lock"])
  /\ UNCHANGED <<clock, available, switch, mutex, buckets, account>>

AcquireMutex(c) ==
  /\ At(c, "lock") /\ mutex[Home(call[c].limiter)] = None
  /\ mutex' = [mutex EXCEPT ![Home(call[c].limiter)] = c]
  /\ Update(c, [call[c] EXCEPT !.pc = "locked"])
  /\ UNCHANGED <<clock, available, switch, buckets, account>>

Release(c) == mutex' = [mutex EXCEPT ![Home(call[c].limiter)] = None]

(* Mutants: a cancelled call keeps the mutex; the mutex guards no more     *)
(* than the clock.                                                         *)
ReadClock_KeepsMutex(c) ==
  /\ At(c, "locked")
  /\ Update(c, IF call[c].cancelled THEN Answered(call[c], "cancelled")
               ELSE [call[c] EXCEPT !.pc = "take", !.now = clock])
  /\ UNCHANGED <<clock, available, switch, mutex, buckets, account>>
ReadClock_GivesMutexBack(c) ==
  /\ At(c, "locked") /\ Release(c)
  /\ Update(c, IF call[c].cancelled THEN Answered(call[c], "cancelled")
               ELSE [call[c] EXCEPT !.pc = "take", !.now = clock])
  /\ UNCHANGED <<clock, available, switch, buckets, account>>

(* The first look at the context under the mutex, and the clock.           *)
ReadClock(c) ==
  /\ At(c, "locked")
  /\ \/ call[c].cancelled /\ Update(c, Answered(call[c], "cancelled")) /\ Release(c)
     \/ /\ ~call[c].cancelled
        /\ Update(c, [call[c] EXCEPT !.pc = "take", !.now = clock])
        /\ UNCHANGED mutex
  /\ UNCHANGED <<clock, available, switch, buckets, account>>

(* Mutant: the new bucket is not kept.                                     *)
BucketAt_Forgotten(k, now) == New(now)

(* The bucket of the request, a full one if this is the first.             *)
BucketAt(k, now) == IF buckets[k] = None THEN New(now) ELSE buckets[k]

(* bucket.Take: what it answers, and what it leaves of the bucket.         *)
TakeAnswer(b, now, amount) ==
  CASE TakeError(b, now, amount) # "nil" -> TakeError(b, now, amount)
    [] TakeError(b, now, amount) = "nil" /\ Denied(b, now, amount) -> "denied"
    [] OTHER -> "allowed"

BucketAfter(b, now, amount) ==
  CASE TakeAnswer(b, now, amount) = "allowed" ->
         [Credit(b, now) EXCEPT !.available = @ - amount]
    [] TakeAnswer(b, now, amount) = "denied" -> Credit(b, now)
    [] OTHER -> b

(* The second look at the context, and the bucket.                         *)
Take(c) ==
  LET r == call[c]
      k == KeyOf(r)
      b == BucketAt(k, r.now)
      answer == TakeAnswer(b, r.now, r.amount)
      spent == IF answer = "allowed" THEN r.amount ELSE 0
  IN /\ At(c, "take")
     /\ \/ /\ r.cancelled
           /\ Update(c, Answered(r, "cancelled"))
           /\ UNCHANGED <<buckets, account>>
        \/ /\ ~r.cancelled
           /\ Update(c, [Answered(r, answer) EXCEPT !.spent = spent])
           /\ buckets' = [buckets EXCEPT ![k] = BucketAfter(b, r.now, r.amount)]
           /\ account' = [account EXCEPT ![k] =
                 [since |-> IF buckets[k] = None THEN r.now ELSE @.since, passed |-> @.passed + spent]]
     /\ Release(c)
     /\ UNCHANGED <<clock, available, switch>>

(* Mutant: fail-open for every error.                                      *)
Verdict_OpenForAnyError(r) ==
  IF r.outcome \in {"allowed", "denied"} THEN r.outcome
  ELSE IF r.limiter = "fail-open" THEN "admitted" ELSE "refused"

(* What coordinatedLimiter makes of the coordinator's answer.  The context *)
(* comes first, whatever the answer; the policy is for an outage only.     *)
(* Take returns ErrCoordinatorUnavailable bare, so the walk that tells it  *)
(* from an error joined to others comes down to one comparison.            *)
Verdict(r) ==
  CASE r.cancelled -> "cancelled"
    [] ~r.cancelled /\ r.outcome = "unavailable" ->
         IF r.limiter = "fail-open" THEN "admitted" ELSE "refused"
    [] OTHER -> r.outcome

Finish(c) ==
  /\ At(c, "answered")
  /\ Update(c, [call[c] EXCEPT !.pc = "returned", !.outcome = Verdict(call[c])])
  /\ UNCHANGED <<clock, available, switch, mutex, buckets, account>>

Advance(c) ==
  AcquireRead(c) \/ Delegate(c) \/ AcquireMutex(c) \/ ReadClock(c) \/ Take(c) \/ Finish(c)

------------------------------------------------------------------------------
(* The rest of the world.                                                  *)

Cancel(c) ==
  /\ call[c].pc \in Running /\ ~call[c].cancelled
  /\ call' = [call EXCEPT ![c].cancelled = TRUE]
  /\ UNCHANGED <<clock, available, switch, mutex, buckets, account>>

Tick ==
  /\ clock < MaxTime /\ clock' = clock + 1
  /\ UNCHANGED <<available, switch, mutex, buckets, account, call>>

(* SetAvailable asks for the write lock, and has it when the last reader   *)
(* is gone.                                                                *)
AskSwitch(direction) ==
  /\ switch = "none" /\ switch' = direction
  /\ UNCHANGED <<clock, available, mutex, buckets, account, call>>

SetAvailable ==
  /\ switch # "none" /\ \A c \in Caller : ~Reader(c)
  /\ available' = (switch = "up") /\ switch' = "none"
  /\ call' = [c \in Caller |-> [call[c] EXCEPT !.outage = @ \/ switch = "down"]]
  /\ UNCHANGED <<clock, mutex, buckets, account>>

Next ==
  \/ \E c \in Caller : Advance(c) \/ Cancel(c)
  \/ \E c \in Caller, l \in Limiter, t \in Tenant, n \in Node, a \in Amount, x \in BOOLEAN :
       Begin(c, l, t, n, a, x)
  \/ Tick \/ SetAvailable \/ \E direction \in {"up", "down"} : AskSwitch(direction)

Spec == Init /\ [][Next]_vars

(* A call runs on when nothing blocks it; Go's Mutex hands itself to a     *)
(* goroutine that has starved, and an RWMutex lets the readers that waited *)
(* for a writer in before the next writer.                                 *)
FairSpec ==
  /\ Spec /\ WF_vars(SetAvailable)
  /\ \A c \in Caller : /\ WF_vars(Delegate(c) \/ ReadClock(c) \/ Take(c) \/ Finish(c))
                        /\ SF_vars(AcquireRead(c)) /\ SF_vars(AcquireMutex(c))

------------------------------------------------------------------------------
(* Properties.                                                             *)

Returned(c) == At(c, "returned")

(* cases/distributed-rate-limiter/README.md:19: all requests on one        *)
(* bucket, of a tenant on all nodes or of a tenant on one node, together   *)
(* pass no more than its capacity and one token for every interval since   *)
(* it was made, in whatever order the calls take the locks.                *)
BudgetIsKept ==
  \A k \in Key : buckets[k] # None =>
    account[k].passed + buckets[k].available
      <= Capacity + (buckets[k].lastObserved - account[k].since) \div RefillEvery

(* The clock is read under the mutex that guards the buckets, so no call   *)
(* brings a bucket a moment older than the one it saw before.              *)
NoTimeRollback == \A c \in Caller : call[c].outcome # "ErrTimeRollback"

(* Tokens and answers agree: who is told allowed has spent the amount, who *)
(* has spent is told so unless the context intervened; a request without   *)
(* tokens gets by only with fail-open, in an outage that fell into its     *)
(* call, for an amount the tenant could have, with its context intact.     *)
AnswerMatchesTokens ==
  \A c \in Caller : Returned(c) =>
    /\ call[c].outcome = "allowed" => call[c].spent = call[c].amount /\ call[c].spent # 0
    /\ call[c].spent # 0 => call[c].outcome \in {"allowed", "cancelled"}
    /\ call[c].outcome = "admitted" =>
         /\ Is(c, {"fail-open"}) /\ call[c].outage /\ ~call[c].cancelled
         /\ call[c].amount \in 1 .. Capacity

(* Once SetAvailable(false) has returned no token is taken and no bucket   *)
(* made by any coordinated call, not even by one that began before.        *)
OutageIsQuiet ==
  [][~available => \A t \in Tenant : buckets'[<<t, "all">>] = buckets[<<t, "all">>]]_vars

(* cases/distributed-rate-limiter/README.md:31: no token is spent by a     *)
(* call that returns a cancellation.                                       *)
CancelSpendsNothing ==
  \A c \in Caller : Returned(c) /\ call[c].outcome = "cancelled" => call[c].spent = 0

(* PerNodeLimiter keeps to this however its context ends: behind its bucket*)
(* it looks at the context no more.                                        *)
LocalCancelSpendsNothing ==
  \A c \in Caller :
    Returned(c) /\ Is(c, {"per-node"}) /\ call[c].outcome = "cancelled" => call[c].spent = 0

(* The inductive invariant behind the safety properties.                   *)

(* Whoever is between the mutex and the bucket has the mutex.              *)
HasMutex(c) ==
  call[c].pc \in {"locked", "take"} => mutex[Home(call[c].limiter)] = c

(* What is on its way to a bucket could be served, and has taken nothing;  *)
(* the locks and the answer of the coordinator are for its limiters.       *)
OnItsWay(c) ==
  /\ call[c].pc \in Running \ {"answered"} => call[c].amount \in 1 .. Capacity /\ call[c].spent = 0
  /\ call[c].pc \in {"read-lock", "reading", "answered"} => Is(c, Coordinated)

(* Behind the read lock the flag is up; a call that could see it down knows.*)
SeesFlag(c) ==
  /\ Is(c, Coordinated) /\ call[c].pc \in {"lock", "locked", "take"} => available
  /\ call[c].pc \in Running /\ ~available => call[c].outage

(* The moment that was read under the mutex is the latest its bucket sees. *)
ReadsLatest(c) ==
  At(c, "take") =>
    /\ call[c].now <= clock
    /\ buckets[KeyOf(call[c])] # None => buckets[KeyOf(call[c])].lastObserved <= call[c].now

(* What an answer and a result say of the tokens.                          *)
AnswerIsTrue(c) ==
  /\ call[c].outcome # "ErrTimeRollback"
  /\ At(c, "answered") =>
       /\ call[c].outcome \in Answer
       /\ call[c].outcome = "allowed" => call[c].spent = call[c].amount /\ call[c].spent # 0
       /\ call[c].spent # 0 => call[c].outcome = "allowed"
       /\ call[c].outcome = "unavailable" => call[c].outage /\ call[c].amount \in 1 .. Capacity
  /\ Returned(c) =>
       /\ call[c].outcome = "allowed" => call[c].spent = call[c].amount /\ call[c].spent # 0
       /\ call[c].spent # 0 => call[c].outcome \in {"allowed"} \cup (IF Is(c, Coordinated) THEN {"cancelled"} ELSE {})
       /\ call[c].outcome = "admitted" =>
            /\ Is(c, {"fail-open"}) /\ call[c].outage /\ ~call[c].cancelled
            /\ call[c].amount \in 1 .. Capacity

CallInv(c) == HasMutex(c) /\ OnItsWay(c) /\ SeesFlag(c) /\ ReadsLatest(c) /\ AnswerIsTrue(c)

(* A bucket that was made at the moment since and has let tokens pass: it  *)
(* is refilled at whole intervals since then, and its account is in order. *)
Sound(b, since, passed) ==
  /\ since <= b.refillAnchor /\ (b.refillAnchor - since) % RefillEvery = 0
  /\ b.refillAnchor <= b.lastObserved /\ b.lastObserved < b.refillAnchor + RefillEvery
  /\ passed + b.available <= Capacity + (b.lastObserved - since) \div RefillEvery

BucketInv(k) ==
  IF buckets[k] = None THEN account[k].passed = 0
  ELSE buckets[k].lastObserved <= clock /\ Sound(buckets[k], account[k].since, account[k].passed)

IInv == TypeOK /\ (\A c \in Caller : CallInv(c)) /\ (\A k \in Key : BucketInv(k))

(* Every call returns, through two locks and whatever its context does.    *)
EveryCallReturns == \A c \in Caller : call[c].pc \in Running ~> Returned(c)

(* The operator gets the write lock under any load.                        *)
SwitchGoesThrough == switch # "none" ~> switch = "none"
==============================================================================
