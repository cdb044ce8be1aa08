---------------------------- MODULE HarnessProofs ----------------------------
(***************************************************************************)
(* For every set of events, deadline, width of the integers and set of     *)
(* threats: the runner executes what was asked in logical order, metrics   *)
(* are exact, and a run passes only if it was whole and was judged by what *)
(* it reports. For every definition a record is the verdict on such a run. *)
(***************************************************************************)
EXTENDS CellRun, FiniteSetTheorems, TLAPS

------------------------------------------------------------------------------
(* The recorder.                                                           *)

(* A number below the modulus is its own remainder.                        *)
LEMMA SmallRemainder ==
  ASSUME NEW n \in Nat \ {0}, NEW k \in 0 .. n - 1
  PROVE  k % n = k
<1>1. k = n * (k \div n) + (k % n) /\ (k % n) \in 0 .. n - 1 /\ k \div n \in Nat
  OBVIOUS
<1>2. CASE k \div n >= 1
  <2>1. n * (k \div n) >= n BY <1>1, <1>2
  <2> QED BY <1>1, <2>1
<1>3. CASE k \div n = 0
  BY <1>1, <1>3
<1> QED BY <1>1, <1>2, <1>3

(* An addition that does not overflow does not wrap.                       *)
LEMMA AddDoesNotWrap ==
  ASSUME NEW value \in Int64, NEW delta \in Int64, ~Overflows(value, delta)
  PROVE  value + delta \in Int64 /\ Wrap(value + delta) = value + delta
<1> USE HarnessAssumption DEF Int64, MinInt
<1>1. value + delta \in Int64 BY DEF Overflows
<1> DEFINE n == 2 * (MaxInt + 1)
           k == value + delta - MinInt
<1>2. n \in Nat \ {0} /\ k \in 0 .. n - 1 BY <1>1
<1>3. k % n = k BY <1>2, SmallRemainder
<1>4. Wrap(value + delta) = k + MinInt BY <1>3 DEF Wrap
<1> QED BY <1>1, <1>4

(* The metrics are what the accepted writes add up to.                     *)
BookInv ==
  /\ metrics \in Metrics /\ sums \in [Metric -> Int]
  /\ \A m \in Metric : sums[m] = ValueOf(m)

LEMMA ValueOfType ==
  ASSUME BookInv, NEW m \in Metric
  PROVE  ValueOf(m) \in Int64 /\ (metrics[m] # None => metrics[m] \in [unit : Unit, value : Int64])
<1>1. metrics[m] \in [unit : Unit, value : Int64] \cup {None} BY DEF BookInv, Metrics
<1>2. 0 \in Int64 BY HarnessAssumption DEF Int64, MinInt
<1> QED BY <1>1, <1>2 DEF ValueOf

(* What any write keeps: the account, and the unit of a metric.            *)
LEMMA RecordKeeps ==
  ASSUME BookInv, Record
  PROVE  /\ BookInv'
         /\ \A m \in Metric : metrics[m] # None => /\ metrics'[m] # None
                                                   /\ metrics'[m].unit = metrics[m].unit
<1>1. PICK m \in Metric, unit \in Unit, n \in Delta : Add(m, unit, n) \/ Set(m, unit, n)
  BY DEF Record
<1>2. n \in Int64 BY HarnessAssumption
<1>3. PICK v \in Int64 : /\ metrics' = [metrics EXCEPT ![m] = [unit |-> unit, value |-> v]]
                         /\ sums' = [sums EXCEPT ![m] = v]
                         /\ ~UnitClash(m, unit)
  <2>1. CASE Set(m, unit, n) BY <2>1, <1>2 DEF Set, SetError
  <2>2. CASE Add(m, unit, n)
    <3>1. ValueOf(m) \in Int64 BY ValueOfType
    <3>2. ~Overflows(ValueOf(m), n) BY <2>2 DEF Add, AddError
    <3>3. /\ ValueOf(m) + n \in Int64
          /\ Wrap(ValueOf(m) + n) = ValueOf(m) + n BY <1>2, <3>1, <3>2, AddDoesNotWrap
    <3>4. sums[m] = ValueOf(m) BY DEF BookInv
    <3> QED BY <2>2, <3>3, <3>4 DEF Add, AddError, BookInv
  <2> QED BY <1>1, <2>1, <2>2
<1> DEFINE entry == [unit |-> unit, value |-> v]
<1>4. entry \in [unit : Unit, value : Int64] /\ entry # None
  BY HarnessAssumption
<1>5. metrics \in [Metric -> [unit : Unit, value : Int64] \cup {None}] BY DEF BookInv, Metrics
<1>6. metrics' \in Metrics BY <1>3, <1>4, <1>5 DEF Metrics
<1>7. sums' \in [Metric -> Int] BY <1>3, HarnessAssumption DEF BookInv, Int64, MinInt
<1>8. ASSUME NEW k \in Metric PROVE sums'[k] = ValueOf(k)'
  <2>1. CASE k = m
    <3>1. metrics'[k] = entry /\ sums'[k] = v BY <1>3, <1>5, <2>1 DEF BookInv
    <3> QED BY <3>1, <1>4 DEF ValueOf
  <2>2. CASE k # m
    <3>1. metrics'[k] = metrics[k] /\ sums'[k] = sums[k] BY <1>3, <1>5, <2>2 DEF BookInv
    <3> QED BY <3>1 DEF ValueOf, BookInv
  <2> QED BY <2>1, <2>2
<1>9. ASSUME NEW k \in Metric, metrics[k] # None
      PROVE  metrics'[k] # None /\ metrics'[k].unit = metrics[k].unit
  <2>1. CASE k = m
    <3>1. metrics'[k] = entry BY <1>3, <1>5, <2>1
    <3> QED BY <3>1, <1>3, <1>4, <1>9, <2>1 DEF UnitClash
  <2>2. CASE k # m BY <1>3, <1>5, <1>9, <2>2
  <2> QED BY <2>1, <2>2
<1> QED BY <1>6, <1>7, <1>8, <1>9 DEF BookInv

------------------------------------------------------------------------------
(* The order.                                                              *)

LEMMA BeforeIsOrder ==
  ASSUME NEW e \in Events, NEW f \in Events, NEW g \in Events
  PROVE  /\ ~Before(e, e)
         /\ Before(e, f) /\ Before(f, g) => Before(e, g)
         /\ KeyOf(e) # KeyOf(f) => Before(e, f) \/ Before(f, e)
         /\ Before(e, f) => Precedes(KeyOf(e), KeyOf(f))
         /\ Before(e, f) => e.at <= f.at
<1>1. /\ e.at \in Int /\ e.phase \in Nat /\ e.sequence \in Nat
      /\ f.at \in Int /\ f.phase \in Nat /\ f.sequence \in Nat
      /\ g.at \in Int /\ g.phase \in Nat /\ g.sequence \in Nat
  BY DEF Events
<1>2. ~Before(e, e) BY <1>1 DEF Before
<1>3. Before(e, f) /\ Before(f, g) => Before(e, g) BY <1>1 DEF Before
<1>4. KeyOf(e) # KeyOf(f) => Before(e, f) \/ Before(f, e) BY <1>1 DEF Before, KeyOf
<1>5. Before(e, f) => e.at <= f.at BY <1>1 DEF Before
<1>6. ASSUME Before(e, f) PROVE Precedes(KeyOf(e), KeyOf(f))
  <2>1. CASE e.at < f.at
    <3>1. 1 \in 1 .. 3 /\ KeyOf(e)[1] < KeyOf(f)[1] BY <2>1 DEF KeyOf
    <3> QED BY <3>1 DEF Precedes
  <2>2. CASE e.at = f.at /\ e.phase < f.phase
    <3>1. 2 \in 1 .. 3 /\ KeyOf(e)[2] < KeyOf(f)[2] BY <2>2 DEF KeyOf
    <3>2. \A m \in 1 .. 2 - 1 : KeyOf(e)[m] = KeyOf(f)[m] BY <2>2 DEF KeyOf
    <3> QED BY <3>1, <3>2 DEF Precedes
  <2>3. CASE e.at = f.at /\ e.phase = f.phase /\ e.sequence < f.sequence
    <3>1. 3 \in 1 .. 3 /\ KeyOf(e)[3] < KeyOf(f)[3] BY <2>3 DEF KeyOf
    <3>2. \A m \in 1 .. 3 - 1 : KeyOf(e)[m] = KeyOf(f)[m] BY <2>3 DEF KeyOf
    <3> QED BY <3>1, <3>2 DEF Precedes
  <2> QED BY <1>6, <2>1, <2>2, <2>3 DEF Before
<1> QED BY <1>2, <1>3, <1>4, <1>5, <1>6

(* Counting from one and counting from zero.                               *)
LEMMA Intervals ==
  ASSUME NEW n \in Nat
  PROVE  /\ IsFiniteSet(1 .. n) /\ Cardinality(1 .. n) = n
         /\ IsFiniteSet(0 .. n - 1) /\ Cardinality(0 .. n - 1) = n
<1>1. IsFiniteSet(1 .. n) /\ Cardinality(1 .. n) = IF 1 > n THEN 0 ELSE n - 1 + 1
  BY FS_Interval
<1>2. /\ IsFiniteSet(0 .. n - 1)
      /\ Cardinality(0 .. n - 1) = IF 0 > n - 1 THEN 0 ELSE n - 1 - 0 + 1
  <2>1. 0 \in Int /\ n - 1 \in Int OBVIOUS
  <2> QED BY <2>1, FS_Interval
<1> QED BY <1>1, <1>2

(* The events that come before one are fewer than all of them.             *)
LEMMA RankType ==
  ASSUME NEW events \in Seq(Event), NEW k \in DOMAIN events
  PROVE  /\ IsFiniteSet({j \in DOMAIN events : Before(events[j], events[k])})
         /\ Rank(events, k) \in 0 .. Len(events) - 1
<1> DEFINE D == DOMAIN events
           B == {j \in D : Before(events[j], events[k])}
<1>1. D = 1 .. Len(events) /\ Len(events) \in Nat OBVIOUS
<1>2. IsFiniteSet(D) /\ Cardinality(D) = Len(events) BY <1>1, Intervals
<1>3. B \in SUBSET D OBVIOUS
<1>4. IsFiniteSet(B) /\ Cardinality(B) <= Len(events) /\ (Cardinality(B) = Len(events) => B = D)
  <2> HIDE DEF B, D
  <2> QED BY <1>2, <1>3, FS_Subset
<1>5. Cardinality(B) \in Nat
  <2> HIDE DEF B, D
  <2> QED BY <1>4, FS_CardinalityType
<1>6. events[k] \in Events BY HarnessAssumption
<1>7. k \notin B BY <1>6, BeforeIsOrder
<1>8. Cardinality(B) # Len(events) BY <1>4, <1>7
<1> QED BY <1>1, <1>4, <1>5, <1>8 DEF Rank

(* An event that comes before another has fewer before it.                 *)
LEMMA RankGrows ==
  ASSUME NEW events \in Seq(Event), NEW j \in DOMAIN events, NEW k \in DOMAIN events,
         Before(events[j], events[k])
  PROVE  Rank(events, j) < Rank(events, k)
<1> DEFINE BJ == {i \in DOMAIN events : Before(events[i], events[j])}
           BK == {i \in DOMAIN events : Before(events[i], events[k])}
<1>1. \A i \in DOMAIN events : events[i] \in Events BY HarnessAssumption
<1>2. BJ \in SUBSET BK BY <1>1, BeforeIsOrder
<1>3. j \in BK /\ j \notin BJ BY <1>1, BeforeIsOrder
<1>4. IsFiniteSet(BJ) /\ IsFiniteSet(BK) BY RankType
<1>5. Cardinality(BJ) \in Nat /\ Cardinality(BK) \in Nat
  <2> HIDE DEF BJ, BK
  <2> QED BY <1>4, FS_CardinalityType
<1>6. Cardinality(BJ) <= Cardinality(BK) /\ (Cardinality(BK) = Cardinality(BJ) => BK = BJ)
  <2> HIDE DEF BJ, BK
  <2> QED BY <1>2, <1>4, FS_Subset
<1> QED BY <1>3, <1>5, <1>6 DEF Rank

(* Among events with different keys, every rank is taken.                  *)
LEMMA RankIsTaken ==
  ASSUME NEW events \in Seq(Event), Valid(events), NEW i \in DOMAIN events
  PROVE  \E k \in DOMAIN events : Rank(events, k) = i - 1
<1> DEFINE D == DOMAIN events
           n == Len(events)
           R == [k \in D |-> Rank(events, k)]
           T == (0 .. n - 1) \ {i - 1}
<1>1. D = 1 .. n /\ n \in Nat /\ i \in 1 .. n OBVIOUS
<1>2. SUFFICES ASSUME \A k \in D : Rank(events, k) # i - 1 PROVE FALSE
  OBVIOUS
<1>3. R \in [D -> T] BY <1>1, <1>2, RankType
<1>4. IsFiniteSet(D) /\ Cardinality(D) = n BY <1>1, Intervals
<1>5. IsFiniteSet(0 .. n - 1) /\ Cardinality(0 .. n - 1) = n BY <1>1, Intervals
<1>6. IsFiniteSet(T) /\ Cardinality(T) = n - 1
  <2>1. i - 1 \in 0 .. n - 1 BY <1>1
  <2> QED BY <1>5, <2>1, FS_RemoveElement
<1>7. PICK j, k \in D : j # k /\ R[j] = R[k]
  <2>1. Cardinality(T) < Cardinality(D) BY <1>1, <1>4, <1>6
  <2> HIDE DEF D, T, R
  <2> QED BY <1>3, <1>4, <1>6, <2>1, FS_PigeonHole
<1>8. KeyOf(events[j]) # KeyOf(events[k]) BY <1>7 DEF Valid
<1>9. events[j] \in Events /\ events[k] \in Events BY <1>7, HarnessAssumption
<1>10. Before(events[j], events[k]) \/ Before(events[k], events[j])
  BY <1>8, <1>9, BeforeIsOrder
<1>11. Rank(events, j) \in Int /\ Rank(events, k) \in Int
  <2>1. \A h \in D : Rank(events, h) \in 0 .. n - 1 BY RankType
  <2> QED BY <1>1, <1>7, <2>1
<1>12. Rank(events, j) = Rank(events, k)
  BY <1>7
<1> QED BY <1>7, <1>10, <1>11, <1>12, RankGrows

(* A list that passed the preflight is sorted by the logical order, and    *)
(* nothing comes in that was not in the list.                              *)
LEMMA SortedIsSorted ==
  ASSUME NEW events \in Seq(Event), Valid(events)
  PROVE  /\ Sorted(events) \in Seq(Event) /\ Len(Sorted(events)) = Len(events)
         /\ \A i \in DOMAIN events : \E k \in DOMAIN events : Sorted(events)[i] = events[k]
         /\ \A i, j \in DOMAIN events : i < j => Before(Sorted(events)[i], Sorted(events)[j])
<1> DEFINE D == DOMAIN events
           at(i) == CHOOSE k \in D : Rank(events, k) = i - 1
<1>1. D = 1 .. Len(events) /\ Len(events) \in Nat OBVIOUS
<1>2. ASSUME NEW i \in D PROVE at(i) \in D /\ Rank(events, at(i)) = i - 1
  BY RankIsTaken
<1> DEFINE S == Sorted(events)
<1>3. DOMAIN S = D /\ \A i \in D : S[i] = events[at(i)] BY DEF Sorted
<1> HIDE DEF at
<1>4. \A i \in D : S[i] \in Event BY <1>2, <1>3
<1>5. S \in Seq(Event) /\ Len(S) = Len(events)
  <2>1. S = [i \in 1 .. Len(events) |-> S[i]] BY <1>1, <1>3 DEF Sorted
  <2> HIDE DEF S
  <2>2. S \in [1 .. Len(events) -> Event] BY <1>1, <1>4, <2>1
  <2> QED BY <1>1, <2>2
<1>6. ASSUME NEW i \in D, NEW j \in D, i < j PROVE Before(S[i], S[j])
  <2>1. events[at(i)] \in Events /\ events[at(j)] \in Events BY <1>2, HarnessAssumption
  <2>2. Rank(events, at(i)) = i - 1 /\ Rank(events, at(j)) = j - 1 BY <1>2
  <2>3. at(i) # at(j) BY <1>1, <1>6, <2>2
  <2>4. KeyOf(events[at(i)]) # KeyOf(events[at(j)]) BY <1>2, <2>3 DEF Valid
  <2>5. ~Before(events[at(j)], events[at(i)]) BY <1>1, <1>2, <1>6, <2>2, RankGrows
  <2> QED BY <1>3, <2>1, <2>4, <2>5, BeforeIsOrder
<1> QED BY <1>2, <1>3, <1>5, <1>6
------------------------------------------------------------------------------
(* The inductive invariant.                                                *)

(* What the runner has to execute is what it was asked to, in order, and   *)
(* every time in it can be reached.                                        *)
ScheduleInv ==
  /\ asked \in Seq(Event) /\ Len(asked) <= MaxEvents
  /\ source \in Seq(Event) /\ (pc = "start" => source = asked)
  /\ schedule \in Seq(Event) /\ Len(schedule) <= Len(asked)
  /\ pc \notin {"start", "returned"} => Len(schedule) = Len(asked)
  /\ \A i \in DOMAIN schedule : /\ schedule[i].at \in 0 .. Deadline
                                /\ \E k \in DOMAIN asked : schedule[i] = asked[k]
  /\ \A i, j \in DOMAIN schedule : i < j => Before(schedule[i], schedule[j])

(* How far the runner has come: what it executed are the first events of   *)
(* its schedule, and the clock has not passed any of the others.           *)
ProgressInv ==
  /\ result.executed \in 0 .. Len(schedule)
  /\ history \in Seq(Event) /\ Len(history) = result.executed
  /\ \A i \in DOMAIN history : history[i] = schedule[i]
  /\ pc = "start" => schedule = << >> /\ clock = 0
  /\ pc = "apply" => EventsLeft
  /\ pc = "assert" => ~EventsLeft
  /\ clock \in 0 .. Deadline
  /\ \A i \in DOMAIN schedule : i > result.executed => clock <= schedule[i].at

(* What is known of the verdict before it is there, and after.             *)
VerdictInv ==
  /\ result \in Result /\ asserts \in 0 .. MaxAsserts /\ cancelled \in BOOLEAN
  /\ pc \in {"start", "event", "apply", "applied", "assert", "returned"}
  /\ pc # "returned" => result.status = "failed" /\ result.error = "none"
  /\ pc \in {"start", "event", "apply", "applied"} => result.assertions = << >>
  /\ result.error # "clock"
  /\ result.assertions # << >> => Whole
  /\ Len(result.assertions) <= asserts
  /\ \A i \in DOMAIN result.assertions : result.assertions[i] = Check(i, result.metrics)
  /\ result.status = "passed" =>
       /\ Whole /\ result.error = "none" /\ JudgedAll
       /\ \A i \in DOMAIN result.assertions : result.assertions[i]
  /\ pc = "returned" /\ result.assertions # << >> =>
       ((\A i \in DOMAIN result.assertions : result.assertions[i]) => result.status = "passed")

IInv == BookInv /\ ScheduleInv /\ ProgressInv /\ VerdictInv

LEMMA InitHolds ==
  ASSUME Init
  PROVE  IInv
<1> USE HarnessAssumption DEF Init
<1>1. BookInv BY DEF BookInv, Metrics, Nothing, ValueOf
<1>2. ScheduleInv
  <2>1. PICK n \in 0 .. MaxEvents : asked \in [1 .. n -> Event] BY DEF Specs
  <2>2. asked \in Seq(Event) /\ Len(asked) = n BY <2>1
  <2> QED BY <2>1, <2>2 DEF ScheduleInv
<1>3. ProgressInv BY DEF ProgressInv, EventsLeft
<1>4. VerdictInv
  <2>1. Nothing \in Metrics BY DEF Metrics, Nothing
  <2>2. result \in Result BY <2>1 DEF Result, Failure
  <2>3. /\ result.assertions = << >> /\ result.status = "failed" /\ result.error = "none"
        /\ asserts \in 0 .. MaxAsserts /\ MaxAsserts \in Nat /\ cancelled \in BOOLEAN
        /\ pc = "start"
    OBVIOUS
  <2> HIDE DEF Init
  <2> QED BY <2>2, <2>3 DEF VerdictInv
<1> QED BY <1>1, <1>2, <1>3, <1>4 DEF IInv

(* The result of a run that is broken off: nothing judges it.              *)
LEMMA BrokenOff ==
  ASSUME VerdictInv, pc \in {"start", "event", "apply", "applied"}, UNCHANGED spec,
         UNCHANGED cancelled,
         pc' = "returned",
         NEW error \in Failure \ {"clock"}, NEW finished \in 0 .. Deadline,
         NEW book1 \in Metrics, NEW executed \in 0 .. MaxEvents,
         result' = [result EXCEPT !.error = error, !.finished = finished,
                                  !.metrics = book1, !.executed = executed]
  PROVE  VerdictInv' /\ result'.executed = executed
<1> USE DEF VerdictInv
<1>1. result \in Result /\ result.assertions = << >> /\ result.status = "failed" OBVIOUS
<1>2. result' \in Result BY <1>1 DEF Result
<1>3. /\ result'.assertions = << >> /\ result'.status = "failed" /\ result'.error = error
      /\ result'.executed = executed
  BY <1>1 DEF Result
<1>4. asserts' = asserts /\ asserts \in Nat BY DEF spec
<1> QED BY <1>2, <1>3, <1>4

(* The runner's steps that leave the recorder alone.                       *)
LEMMA BookUnchanged ==
  ASSUME BookInv, UNCHANGED book
  PROVE  BookInv'
BY DEF BookInv, book, ValueOf

LEMMA StartKeeps ==
  ASSUME IInv, Start
  PROVE  IInv'
<1> USE DEF IInv
<1>1. BookInv' BY BookUnchanged DEF Start
<1>2. /\ pc = "start" /\ UNCHANGED <<source, asked, asserts, cancelled, clock, metrics, history>>
      /\ source = asked /\ Len(schedule) \in Nat
      /\ result \in Result /\ result.assertions = << >>
  BY DEF Start, spec, book, ScheduleInv, VerdictInv
<1>3. CASE /\ pc' = "returned" /\ UNCHANGED schedule
           /\ \E error \in {"preflight", "context"} : result' = [result EXCEPT !.error = error]
  <2>1. PICK error \in {"preflight", "context"} : result' = [result EXCEPT !.error = error]
    BY <1>3
  <2>2. ScheduleInv' BY <1>2, <1>3 DEF ScheduleInv
  <2>3. result'.executed = result.executed BY <1>2, <2>1 DEF Result
  <2>4. ProgressInv' BY <1>2, <1>3, <2>3 DEF ProgressInv
  <2>5. VerdictInv' BY <1>2, <1>3, <2>1 DEF VerdictInv, Result, Failure
  <2> QED BY <1>1, <2>2, <2>4, <2>5
<1>4. CASE /\ Valid(source) /\ schedule' = Sorted(source)
           /\ pc' = "event" /\ UNCHANGED result
  <2>1. /\ schedule' \in Seq(Event) /\ Len(schedule') = Len(asked)
        /\ \A i \in DOMAIN asked : \E k \in DOMAIN asked : schedule'[i] = asked[k]
        /\ \A i, j \in DOMAIN asked : i < j => Before(schedule'[i], schedule'[j])
    BY <1>2, <1>4, SortedIsSorted DEF ScheduleInv
  <2>2. DOMAIN schedule' = DOMAIN asked BY <2>1 DEF ScheduleInv
  <2>3. ScheduleInv'
    <3>1. \A i \in DOMAIN schedule' : schedule'[i].at \in 0 .. Deadline
      BY <1>2, <1>4, <2>1, <2>2 DEF Valid
    <3> QED BY <1>2, <1>4, <2>1, <2>2, <3>1 DEF ScheduleInv
  <2>4. history = << >> /\ result.executed = 0 /\ clock = 0
    BY <1>2 DEF ProgressInv
  <2>5. ProgressInv' 
    BY <1>2, <1>4, <2>1, <2>3, <2>4 DEF ProgressInv, ScheduleInv
  <2>6. VerdictInv' BY <1>2, <1>4 DEF VerdictInv, Whole, JudgedAll
  <2> QED BY <1>1, <2>3, <2>5, <2>6
<1> QED BY <1>3, <1>4 DEF Start, Return

LEMMA NextEventKeeps ==
  ASSUME IInv, NextEvent
  PROVE  IInv'
<1> USE DEF IInv
<1> DEFINE event == schedule[result.executed + 1]
<1>1. BookInv' BY BookUnchanged DEF NextEvent
<1>2. /\ pc = "event" /\ EventsLeft
      /\ UNCHANGED <<source, schedule, asked, asserts, cancelled, metrics, history>>
  BY DEF NextEvent, spec, book
<1>3. result.executed + 1 \in DOMAIN schedule /\ result.executed \in Nat
  BY <1>2 DEF EventsLeft, ProgressInv, ScheduleInv
<1>4. event.at >= clock /\ event.at \in 0 .. Deadline
  BY <1>3 DEF ProgressInv, ScheduleInv
<1>5. CASE cancelled
  <2>1. /\ clock' = clock /\ pc' = "returned"
        /\ result' = [result EXCEPT !.error = "context", !.finished = clock, !.metrics = metrics,
                                    !.executed = result.executed]
    BY <1>2, <1>5 DEF NextEvent, Abort, Return
  <2>2. ScheduleInv' BY <1>2, <2>1 DEF ScheduleInv
  <2>3. result.executed \in 0 .. MaxEvents BY DEF VerdictInv, Result
  <2>4. clock \in 0 .. Deadline /\ metrics \in Metrics BY DEF ProgressInv, BookInv
  <2>5. VerdictInv' /\ result'.executed = result.executed
    BY <1>2, <2>1, <2>3, <2>4, BrokenOff DEF spec, Failure
  <2>6. ProgressInv' BY <1>2, <2>1, <2>5 DEF ProgressInv
  <2> QED BY <1>1, <2>2, <2>5, <2>6
<1>6. CASE ~cancelled
  <2>1. clock' = event.at /\ pc' = "apply" /\ UNCHANGED result
    <3>1. ~(event.at < clock) BY <1>4 DEF ProgressInv
    <3> QED BY <1>6, <3>1 DEF NextEvent
  <2>2. ScheduleInv' BY <1>2, <2>1 DEF ScheduleInv
  <2>3. VerdictInv' BY <1>2, <2>1 DEF VerdictInv, Whole, JudgedAll
  <2>4. \A i \in DOMAIN schedule : i > result.executed => event.at <= schedule[i].at
    <3> TAKE i \in DOMAIN schedule
    <3> HAVE i > result.executed
    <3>1. CASE i = result.executed + 1 BY <1>4, <3>1
    <3>2. CASE i > result.executed + 1
      <4>1. Before(event, schedule[i]) BY <1>3, <3>2 DEF ScheduleInv
      <4>2. event \in Events /\ schedule[i] \in Events
        BY <1>3, HarnessAssumption DEF ScheduleInv
      <4> QED BY <4>1, <4>2, BeforeIsOrder
    <3>3. i \in Nat BY DEF ScheduleInv
    <3> QED BY <1>3, <3>1, <3>2, <3>3
  <2>5. ProgressInv' BY <1>2, <1>4, <2>1, <2>4 DEF ProgressInv, EventsLeft
  <2> QED BY <1>1, <2>2, <2>3, <2>5
<1> QED BY <1>5, <1>6

LEMMA ApplyKeeps ==
  ASSUME IInv, Apply
  PROVE  IInv'
<1> USE DEF IInv
<1> DEFINE event == schedule[result.executed + 1]
<1>1. BookInv' BY BookUnchanged, RecordKeeps DEF Apply
<1>2. /\ pc = "apply" /\ EventsLeft
      /\ UNCHANGED <<schedule, asked, asserts, cancelled, clock>>
      /\ history' = Append(history, event)
  BY DEF Apply, spec, Scribble, ProgressInv
<1>3. /\ result.executed + 1 \in DOMAIN schedule /\ result.executed \in Nat
      /\ result.executed + 1 <= Len(schedule) /\ Len(schedule) \in Nat
  BY <1>2 DEF EventsLeft, ProgressInv, ScheduleInv
<1>4. source' \in Seq(Event)
  <2>1. CASE UNCHANGED <<source, schedule>> BY <2>1 DEF ScheduleInv
  <2>2. CASE Scribble
    <3>1. source' = [i \in 1 .. Len(source) |-> source[1]] /\ source \in Seq(Event)
      BY <2>2 DEF Scribble, ScheduleInv
    <3>2. source' \in [1 .. Len(source) -> Event] BY <3>1
    <3> QED BY <3>1, <3>2
  <2> QED BY <2>1, <2>2 DEF Apply
<1>5. pc' \in {"applied", "returned"} BY DEF Apply, Abort, Return
<1>6. ScheduleInv' BY <1>2, <1>4, <1>5 DEF ScheduleInv
<1>7. result.executed + 1 \in 0 .. MaxEvents
  BY <1>3, HarnessAssumption DEF ScheduleInv
<1>8. VerdictInv' /\ result'.executed = result.executed + 1
  <2>1. CASE pc' = "applied" /\ result' = [result EXCEPT !.executed = @ + 1]
    <3>1. result \in Result BY DEF VerdictInv
    <3>2. /\ result' \in Result /\ result'.executed = result.executed + 1
          /\ result'.assertions = result.assertions /\ result'.status = result.status
          /\ result'.error = result.error
      BY <2>1, <3>1, <1>7 DEF Result
    <3>3. result.assertions = << >> /\ result.status = "failed" /\ result.error = "none"
      BY <1>2 DEF VerdictInv
    <3>4. asserts \in Nat BY DEF VerdictInv
    <3> QED BY <1>2, <2>1, <3>2, <3>3, <3>4 DEF VerdictInv
  <2>2. CASE Abort("event", result.executed + 1)
    <3>1. clock' \in 0 .. Deadline /\ metrics' \in Metrics
      BY <1>1, <1>2 DEF ProgressInv, BookInv
    <3> QED BY <1>2, <1>7, <2>2, <3>1, BrokenOff DEF Abort, Return, spec, Failure
  <2> QED BY <2>1, <2>2 DEF Apply
<1>9. ProgressInv'
  <2>1. /\ history \in Seq(Event) /\ Len(history) = result.executed
        /\ \A i \in DOMAIN history : history[i] = schedule[i]
    BY DEF ProgressInv
  <2>2. event \in Event BY <1>3 DEF ScheduleInv
  <2>3. history' \in Seq(Event) /\ Len(history') = result.executed + 1
    BY <1>2, <2>1, <2>2
  <2>4. \A i \in DOMAIN history' : history'[i] = schedule[i]
    BY <1>2, <1>3, <2>1, <2>2
  <2>5. result'.executed \in 0 .. Len(schedule) BY <1>3, <1>8
  <2>6. \A i \in DOMAIN schedule : i > result.executed + 1 => clock <= schedule[i].at
    BY <1>3 DEF ProgressInv, ScheduleInv
  <2> QED BY <1>2, <1>5, <1>8, <2>3, <2>4, <2>5, <2>6 DEF ProgressInv
<1> QED BY <1>1, <1>6, <1>8, <1>9

LEMMA AfterEventKeeps ==
  ASSUME IInv, AfterEvent
  PROVE  IInv'
<1> USE DEF IInv
<1>1. BookInv' BY BookUnchanged DEF AfterEvent
<1>2. /\ pc = "applied"
      /\ UNCHANGED <<source, schedule, asked, asserts, cancelled, clock, metrics, history>>
  BY DEF AfterEvent, spec, book
<1>3. CASE pc' = "event" /\ UNCHANGED result
  <2>1. ScheduleInv' BY <1>2, <1>3 DEF ScheduleInv
  <2>2. ProgressInv' BY <1>2, <1>3 DEF ProgressInv
  <2>3. VerdictInv' BY <1>2, <1>3 DEF VerdictInv, Whole, JudgedAll
  <2> QED BY <1>1, <2>1, <2>2, <2>3
<1>4. CASE Abort("context", result.executed)
  <2>1. ScheduleInv' BY <1>2, <1>4 DEF ScheduleInv, Abort, Return
  <2>2. result.executed \in 0 .. MaxEvents BY DEF VerdictInv, Result
  <2>3. clock' \in 0 .. Deadline /\ metrics' \in Metrics
    BY <1>1, <1>2 DEF ProgressInv, BookInv
  <2>4. VerdictInv' /\ result'.executed = result.executed
    <3>1. /\ pc' = "returned"
          /\ result' = [result EXCEPT !.error = "context", !.finished = clock',
                                      !.metrics = metrics', !.executed = result.executed]
      BY <1>4 DEF Abort, Return
    <3>2. "context" \in Failure \ {"clock"} BY DEF Failure
    <3> QED BY <1>2, <2>2, <2>3, <3>1, <3>2, BrokenOff DEF spec
  <2>5. ProgressInv' BY <1>2, <1>4, <2>4 DEF ProgressInv, Abort, Return
  <2> QED BY <1>1, <2>1, <2>4, <2>5
<1> QED BY <1>3, <1>4 DEF AfterEvent

LEMMA TakeSnapshotKeeps ==
  ASSUME IInv, TakeSnapshot
  PROVE  IInv'
<1> USE DEF IInv
<1>1. BookInv' BY BookUnchanged DEF TakeSnapshot
<1>2. /\ pc = "event" /\ ~EventsLeft /\ pc' = "assert"
      /\ result' = [result EXCEPT !.finished = clock, !.metrics = metrics]
      /\ UNCHANGED <<source, schedule, asked, asserts, cancelled, clock, metrics, history>>
  BY DEF TakeSnapshot, spec, book
<1>3. result \in Result /\ clock \in 0 .. Deadline /\ metrics \in Metrics
  BY DEF VerdictInv, ProgressInv, BookInv
<1>4. /\ result' \in Result /\ result'.executed = result.executed
      /\ result'.assertions = result.assertions /\ result'.status = result.status
      /\ result'.error = result.error
  BY <1>2, <1>3 DEF Result
<1>5. result.assertions = << >> /\ asserts \in Nat BY <1>2 DEF VerdictInv
<1>6. ScheduleInv' BY <1>2 DEF ScheduleInv
<1>7. ProgressInv' BY <1>2, <1>4 DEF ProgressInv, EventsLeft
<1>8. VerdictInv' BY <1>2, <1>4, <1>5 DEF VerdictInv
<1> QED BY <1>1, <1>6, <1>7, <1>8

(* One more verdict, on the snapshot that is reported.                     *)
LEMMA AssertKeeps ==
  ASSUME IInv, Assert
  PROVE  IInv'
<1> USE DEF IInv
<1> DEFINE n == Len(result.assertions)
           verdict == Check(n + 1, result.metrics)
<1>1. BookInv' BY BookUnchanged DEF Assert
<1>2. /\ pc = "assert" /\ pc' = "assert" /\ ~JudgedAll
      /\ result' = [result EXCEPT !.assertions = Append(@, verdict)]
      /\ UNCHANGED <<source, schedule, asked, asserts, cancelled, clock, metrics, history>>
  BY DEF Assert, Judged, spec, book
<1>3. result \in Result BY DEF VerdictInv
<1>4. verdict \in BOOLEAN BY DEF Check
<1> HIDE DEF verdict
<1>5. /\ result' \in Result /\ result'.assertions = Append(result.assertions, verdict)
      /\ result'.executed = result.executed /\ result'.metrics = result.metrics
      /\ result'.status = result.status /\ result'.error = result.error
  <2> DEFINE verdicts == Append(result.assertions, verdict)
  <2>1. result.assertions \in Seq(BOOLEAN) BY <1>3 DEF Result
  <2>2. verdicts \in Seq(BOOLEAN) BY <1>4, <2>1
  <2>3. result' = [result EXCEPT !.assertions = verdicts] BY <1>2
  <2> HIDE DEF verdicts
  <2>4. /\ result' \in Result /\ result'.assertions = verdicts
        /\ result'.executed = result.executed /\ result'.metrics = result.metrics
        /\ result'.status = result.status /\ result'.error = result.error
    BY <1>3, <2>2, <2>3 DEF Result
  <2> QED BY <2>4 DEF verdicts
<1>6. ScheduleInv' BY <1>2 DEF ScheduleInv
<1>7. ProgressInv' BY <1>2, <1>5 DEF ProgressInv, EventsLeft
<1>8. result.assertions \in Seq(BOOLEAN) BY <1>3 DEF Result
<1>9. Len(result'.assertions) = n + 1 /\ n + 1 <= asserts /\ n \in Nat
  BY <1>2, <1>4, <1>5, <1>8 DEF VerdictInv, JudgedAll
<1>10. \A i \in DOMAIN result'.assertions : result'.assertions[i] = Check(i, result'.metrics)
  <2> TAKE i \in DOMAIN result'.assertions
  <2>1. i \in 1 .. n + 1 BY <1>4, <1>5, <1>8, <1>9
  <2>2. CASE i = n + 1
    <3>1. result'.assertions[i] = verdict BY <1>4, <1>5, <1>8, <2>2
    <3> QED BY <1>5, <2>2, <3>1 DEF verdict
  <2>3. CASE i \in 1 .. n
    <3>1. result'.assertions[i] = result.assertions[i] BY <1>4, <1>5, <1>8, <2>3
    <3>2. result.assertions[i] = Check(i, result.metrics) BY <1>8, <2>3 DEF VerdictInv
    <3> QED BY <1>5, <3>1, <3>2
  <2> QED BY <1>9, <2>1, <2>2, <2>3
<1>11. Whole' 
  BY <1>2 DEF Whole, EventsLeft, ProgressInv, ScheduleInv
<1>12. result'.status = "failed" /\ result'.error = "none" BY <1>2, <1>5 DEF VerdictInv
<1>13. VerdictInv'
  BY <1>2, <1>5, <1>9, <1>10, <1>11, <1>12 DEF VerdictInv
<1> QED BY <1>1, <1>6, <1>7, <1>13

LEMMA ConcludeKeeps ==
  ASSUME IInv, Conclude
  PROVE  IInv'
<1> USE DEF IInv
<1>1. BookInv' BY BookUnchanged DEF Conclude
<1>2. /\ pc = "assert" /\ pc' = "returned" /\ JudgedAll
      /\ UNCHANGED <<source, schedule, asked, asserts, cancelled, clock, metrics, history>>
  BY DEF Conclude, Return, spec, book
<1>3. result \in Result /\ result.status = "failed" /\ result.error = "none"
  BY <1>2 DEF VerdictInv
<1>4. Whole BY <1>2 DEF Whole, EventsLeft, ProgressInv, ScheduleInv
<1>5. ScheduleInv' BY <1>2 DEF ScheduleInv
<1>6. CASE /\ \A i \in DOMAIN result.assertions : result.assertions[i]
           /\ result' = [result EXCEPT !.status = "passed"]
  <2>1. /\ result' \in Result /\ result'.status = "passed" /\ result'.error = "none"
        /\ result'.assertions = result.assertions /\ result'.metrics = result.metrics
        /\ result'.executed = result.executed
    BY <1>3, <1>6 DEF Result
  <2>2. ProgressInv' BY <1>2, <2>1 DEF ProgressInv
  <2>3. Whole' /\ JudgedAll' BY <1>2, <1>4, <2>1 DEF Whole, JudgedAll
  <2>4. VerdictInv' BY <1>2, <1>6, <2>1, <2>3 DEF VerdictInv
  <2> QED BY <1>1, <1>5, <2>2, <2>4
<1>7. CASE /\ ~(\A i \in DOMAIN result.assertions : result.assertions[i])
           /\ result' = [result EXCEPT !.error = "assertion"]
  <2>1. /\ result' \in Result /\ result'.status = "failed" /\ result'.error = "assertion"
        /\ result'.assertions = result.assertions /\ result'.metrics = result.metrics
        /\ result'.executed = result.executed
    BY <1>3, <1>7 DEF Result, Failure
  <2>2. ProgressInv' BY <1>2, <2>1 DEF ProgressInv
  <2>3. Whole' BY <1>2, <1>4 DEF Whole
  <2>4. VerdictInv' BY <1>2, <1>7, <2>1, <2>3 DEF VerdictInv
  <2> QED BY <1>1, <1>5, <2>2, <2>4
<1> QED BY <1>6, <1>7 DEF Conclude, Return

(* Cancellation and writes from outside touch neither schedule nor result. *)
LEMMA WorldKeeps ==
  ASSUME IInv, Cancel \/ Leak \/ UNCHANGED vars
  PROVE  IInv'
<1> USE DEF IInv
<1>1. /\ UNCHANGED <<source, schedule, asked, asserts, clock, pc, result, history>>
      /\ cancelled' \in BOOLEAN
  BY DEF Cancel, Leak, vars, run, spec, VerdictInv
<1>2. BookInv'
  <2>1. CASE Leak BY <2>1, RecordKeeps DEF Leak
  <2>2. CASE Cancel \/ UNCHANGED vars BY <2>2, BookUnchanged DEF Cancel, vars, book
  <2> QED BY <2>1, <2>2
<1>3. ScheduleInv' BY <1>1 DEF ScheduleInv
<1>4. ProgressInv' BY <1>1 DEF ProgressInv, EventsLeft
<1>5. VerdictInv' BY <1>1 DEF VerdictInv, Whole, JudgedAll
<1> QED BY <1>2, <1>3, <1>4, <1>5

LEMMA StepKeeps ==
  ASSUME IInv, [Next]_vars
  PROVE  IInv'
BY StartKeeps, NextEventKeeps, ApplyKeeps, AfterEventKeeps, TakeSnapshotKeeps, AssertKeeps,
   ConcludeKeeps, WorldKeeps DEF Next, Runner

------------------------------------------------------------------------------
(* The theorems.                                                           *)

(* The inductive invariant holds in every reachable state.                 *)
THEOREM Invariance == Spec => []IInv
<1>1. Init => IInv BY InitHolds
<1>2. IInv /\ [Next]_vars => IInv' BY StepKeeps
<1> QED BY <1>1, <1>2, PTL DEF Spec

(* Every reachable state has its type: the clock stays within the          *)
(* deadline, and no metric leaves the integers.                            *)
THEOREM TypeCorrect == Spec => []TypeOK
<1>1. IInv => TypeOK
  BY DEF IInv, BookInv, ScheduleInv, ProgressInv, VerdictInv, TypeOK
<1> QED BY <1>1, Invariance, PTL

(* Whatever callbacks do to the list of events, what is executed is in     *)
(* logical order, was asked for, and is never refused by the clock.        *)
THEOREM OrderKept == Spec => []ExecutedInOrder
<1>1. ASSUME IInv PROVE ExecutedInOrder
  <2>1. DOMAIN history \subseteq DOMAIN schedule
    BY <1>1 DEF IInv, ProgressInv, ScheduleInv
  <2>2. \A i \in DOMAIN schedule : schedule[i] \in Events
    BY <1>1, HarnessAssumption DEF IInv, ScheduleInv
  <2>3. \A i, j \in DOMAIN history : i < j => Precedes(KeyOf(history[i]), KeyOf(history[j]))
    BY <1>1, <2>1, <2>2, BeforeIsOrder DEF IInv, ProgressInv, ScheduleInv
  <2>4. \A i \in DOMAIN history : \E k \in DOMAIN asked : history[i] = asked[k]
    BY <1>1, <2>1 DEF IInv, ProgressInv, ScheduleInv
  <2> QED BY <1>1, <2>3, <2>4 DEF ExecutedInOrder, IInv, VerdictInv
<1> QED BY <1>1, Invariance, PTL

(* No metric wraps round or loses an accepted write.                       *)
THEOREM MetricsExact == Spec => []MetricsAreExact
<1>1. IInv => MetricsAreExact BY DEF IInv, BookInv, ValueOf, MetricsAreExact
<1> QED BY <1>1, Invariance, PTL

(* A run that passed was whole, and what it reports satisfies every        *)
(* assertion, although goroutines may still write.                         *)
THEOREM PassedEarned == Spec => []PassedIsEarned
<1>1. ASSUME IInv, result.status = "passed"
      PROVE  Whole /\ result.error = "none" /\ \A i \in 1 .. asserts : Check(i, result.metrics)
  <2>1. /\ Whole /\ result.error = "none" /\ JudgedAll
        /\ \A i \in DOMAIN result.assertions : result.assertions[i]
        /\ \A i \in DOMAIN result.assertions : result.assertions[i] = Check(i, result.metrics)
    BY <1>1 DEF IInv, VerdictInv
  <2>2. DOMAIN result.assertions = 1 .. asserts
    BY <1>1, <2>1 DEF IInv, VerdictInv, Result, JudgedAll
  <2> QED BY <2>1, <2>2
<1>2. IInv => PassedIsEarned BY <1>1 DEF PassedIsEarned
<1> QED BY <1>2, Invariance, PTL

(* A metric keeps its unit and never goes away.                            *)
THEOREM UnitKept == Spec => UnitIsKept
<1> DEFINE Kept == \A m \in Metric : metrics[m] # None => /\ metrics'[m] # None
                                                          /\ metrics'[m].unit = metrics[m].unit
<1>1. IInv /\ [Next]_vars => [Kept]_vars
  <2> SUFFICES ASSUME IInv, Next PROVE Kept BY DEF vars
  <2>1. CASE Record BY <2>1, RecordKeeps DEF IInv
  <2>2. CASE UNCHANGED metrics BY <2>2
  <2> QED BY <2>1, <2>2 DEF Next, Runner, Start, NextEvent, Apply, AfterEvent, TakeSnapshot,
                            Assert, Conclude, Cancel, Leak, book
<1> QED BY <1>1, Invariance, PTL DEF Spec, UnitIsKept

(* A run whose context ended before its last event was looked after fails. *)
THEOREM CancelRespected == Spec => CancelEndsTheRun
<1> DEFINE Ends == cancelled /\ Unfinished =>
                     Unfinished' \/ (pc' = "returned" /\ result'.status = "failed")
<1>1. IInv /\ [Next]_vars => [Ends]_vars
  <2> SUFFICES ASSUME IInv, Next, cancelled, Unfinished
               PROVE  Unfinished' \/ (pc' = "returned" /\ result'.status = "failed")
    BY DEF vars
  <2>1. result \in Result /\ result.status = "failed"
    BY DEF IInv, VerdictInv, Unfinished
  <2>2. VerdictInv' BY StepKeeps DEF IInv
  <2>3. CASE Start BY <2>1, <2>3 DEF Start, Return, Result
  <2>4. CASE NextEvent BY <2>1, <2>4 DEF NextEvent, Abort, Return, Result
  <2>5. CASE Apply BY <2>1, <2>5 DEF Apply, Abort, Return, Result, Unfinished
  <2>6. CASE AfterEvent BY <2>1, <2>6 DEF AfterEvent, Abort, Return, Result
  <2>7. CASE TakeSnapshot \/ Assert \/ Conclude
    BY <2>7 DEF TakeSnapshot, Assert, Conclude, Unfinished
  <2>8. CASE Cancel \/ Leak BY <2>8 DEF Cancel, Leak, run, Unfinished, EventsLeft
  <2> QED BY <2>3, <2>4, <2>5, <2>6, <2>7, <2>8 DEF Next, Runner
<1> QED BY <1>1, Invariance, PTL DEF Spec, CancelEndsTheRun

------------------------------------------------------------------------------
(* A cell.                                                                 *)

(* A record is made of the result of a run that has ended.                 *)
RecordInv ==
  record # None =>
    /\ pc = "returned" /\ AssertionsComplete
    /\ record = [status |-> result.status, metrics |-> result.metrics,
                 executed |-> result.executed]

CellInv == IInv /\ RecordInv /\ converted \in BOOLEAN

(* A run that has returned returns no second time.                         *)
LEMMA ResultStays ==
  ASSUME pc = "returned", [Next]_vars
  PROVE  UNCHANGED <<pc, result, asserts, asked>>
BY DEF Next, Runner, Start, NextEvent, Apply, AfterEvent, TakeSnapshot, Assert, Conclude,
       Cancel, Leak, vars, run, spec

LEMMA CellStepKeeps ==
  ASSUME CellInv, [CellNext]_cellVars
  PROVE  CellInv'
<1> USE DEF CellInv
<1>1. CASE Run
  <2>1. IInv' BY <1>1, StepKeeps DEF Run
  <2>2. UNCHANGED <<converted, record>> BY <1>1 DEF Run, cell
  <2>3. RecordInv' BY <1>1, <2>2, ResultStays DEF Run, RecordInv, AssertionsComplete
  <2> QED BY <2>1, <2>2, <2>3
<1>2. CASE Convert
  <2>1. IInv' BY <1>2, WorldKeeps, StepKeeps DEF Convert
  <2>2. UNCHANGED <<pc, result, asserts>> BY <1>2 DEF Convert, vars
  <2>3. RecordInv' BY <1>2, <2>2 DEF Convert, Projectable, RecordInv, AssertionsComplete
  <2> QED BY <1>2, <2>1, <2>3 DEF Convert
<1>3. CASE UNCHANGED cellVars
  <2>1. UNCHANGED vars /\ UNCHANGED <<converted, record>> BY <1>3 DEF cellVars
  <2>2. IInv' BY <2>1, StepKeeps
  <2>3. RecordInv' BY <2>1 DEF RecordInv, AssertionsComplete, vars
  <2> QED BY <2>1, <2>2, <2>3
<1> QED BY <1>1, <1>2, <1>3 DEF CellNext

(* The inductive invariant holds in every reachable state of a cell.       *)
THEOREM CellInvariance == CellSpec => []CellInv
<1>1. CellInit => CellInv BY InitHolds DEF CellInit, CellInv, RecordInv
<1>2. CellInv /\ [CellNext]_cellVars => CellInv' BY CellStepKeeps
<1> QED BY <1>1, <1>2, PTL DEF CellSpec

(* Every reachable state of a cell has its type.                           *)
THEOREM CellTypeCorrect == CellSpec => []CellTypeOK
<1>1. ASSUME CellInv PROVE CellTypeOK
  <2>1. TypeOK
    BY <1>1 DEF CellInv, IInv, BookInv, ScheduleInv, ProgressInv, VerdictInv, TypeOK
  <2>2. result \in Result BY <2>1 DEF TypeOK
  <2>3. record \in Records \cup {None}
    BY <1>1, <2>2 DEF CellInv, RecordInv, Result, Records
  <2> QED BY <1>1, <2>1, <2>3 DEF CellTypeOK, CellInv
<1> QED BY <1>1, CellInvariance, PTL

(* A record of a run that was broken off is never made, and passed and     *)
(* failed are what the recorded metrics say.                               *)
THEOREM RecordJudged == CellSpec => []RecordIsJudged
<1>1. ASSUME CellInv, record # None, asserts > 0
      PROVE  /\ Whole /\ record.executed = Len(asked)
             /\ (record.status = "passed") = (\A i \in 1 .. asserts : Check(i, record.metrics))
  <2>1. /\ pc = "returned" /\ AssertionsComplete
        /\ record.status = result.status /\ record.metrics = result.metrics
        /\ record.executed = result.executed
    BY <1>1 DEF CellInv, RecordInv
  <2>2. result \in Result /\ asserts \in Nat BY <1>1 DEF CellInv, IInv, VerdictInv
  <2>3. /\ Len(result.assertions) = asserts /\ DOMAIN result.assertions = 1 .. asserts
        /\ result.assertions # << >>
    BY <1>1, <2>1, <2>2 DEF AssertionsComplete, Result
  <2>4. Whole BY <1>1, <2>3 DEF CellInv, IInv, VerdictInv
  <2>5. record.executed = Len(asked)
    BY <1>1, <2>1, <2>4 DEF CellInv, IInv, ProgressInv, Whole
  <2>6. \A i \in 1 .. asserts : result.assertions[i] = Check(i, result.metrics)
    BY <1>1, <2>3 DEF CellInv, IInv, VerdictInv
  <2>7. result.status = "passed" => \A i \in 1 .. asserts : result.assertions[i]
    BY <2>1, <2>3 DEF AssertionsComplete
  <2>8. (\A i \in 1 .. asserts : result.assertions[i]) => result.status = "passed"
    BY <1>1, <2>1, <2>3 DEF CellInv, IInv, VerdictInv
  <2> QED BY <2>1, <2>4, <2>5, <2>6, <2>7, <2>8
<1>2. CellInv => RecordIsJudged BY <1>1 DEF RecordIsJudged
<1> QED BY <1>2, CellInvariance, PTL
==============================================================================
