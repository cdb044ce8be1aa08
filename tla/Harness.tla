------------------------------- MODULE Harness -------------------------------
(***************************************************************************)
(* labs/harness: Runner.Run executes the events of an experiment in the    *)
(* order of the logical clock, lets them write into a Recorder, and judges *)
(* a snapshot of it by the experiment's assertions.                        *)
(*                                                                         *)
(* A step goes from one look at the context or callback to the next.  What *)
(* a callback does is any choice: it may fail, write into the recorder and *)
(* into the slice of events it was made from, and leave a goroutine behind *)
(* that goes on writing.                                                   *)
(***************************************************************************)
EXTENDS Integers, Sequences, FiniteSets

CONSTANTS Event,      \* the events a specification may list
          MaxEvents,  \* bound of the model: how many it lists
          MaxAsserts, \* bound of the model: how many assertions it has
          Deadline,   \* RunSpec.Deadline
          Metric, Unit, \* names
          Delta,      \* what callbacks add or set
          MaxInt,     \* the largest int64
          None,       \* a metric that is not recorded
          Threat      \* what may happen besides, a subset of Threats

Threats == {"cancel", \* the context may end
            "leak",   \* a goroutine of a callback may outlive it
            "scribble"} \* a callback may overwrite the caller's events

Phases == 0 .. 2 \* PhaseFault, PhaseRequest, PhaseObserve
MinInt == -MaxInt - 1
Int64  == MinInt .. MaxInt

(* A sound event has a name, an action and a time that can be represented. *)
Events == [at : Int, phase : Nat, sequence : Nat, sound : BOOLEAN]

ASSUME HarnessAssumption ==
  /\ Event \subseteq Events /\ MaxEvents \in Nat /\ MaxAsserts \in Nat
  /\ Deadline \in Nat \ {0} /\ MaxInt \in Nat /\ Delta \subseteq Int64
  /\ Threat \subseteq Threats /\ None \notin [unit : Unit, value : Int64]

VARIABLES source,    \* the caller's slice of events
          schedule,  \* the runner's own
          asserts,   \* the number of assertions of the specification
          cancelled, \* the context
          clock,     \* the logical clock, from the start
          metrics,   \* the Recorder
          pc, result, \* the runner, and what it returns
          asked,     \* the events the specification listed (auxiliary)
          history,   \* the events executed (auxiliary)
          sums       \* the metrics as mathematical integers (auxiliary)

run  == <<schedule, clock, pc, result, history>>
spec == <<asserts, asked>>
book == <<metrics, sums>>
vars == <<source, schedule, asserts, cancelled, clock, metrics, pc, result, asked, history, sums>>

Metrics == [Metric -> [unit : Unit, value : Int64] \cup {None}]
Nothing == [m \in Metric |-> None]

Failure == {"none", "preflight", "context", "clock", "event", "assertion"}

Result == [status : {"failed", "passed"}, error : Failure, finished : 0 .. Deadline,
           executed : 0 .. MaxEvents, metrics : Metrics, assertions : Seq(BOOLEAN)]

Specs == UNION {[1 .. n -> Event] : n \in 0 .. MaxEvents}

TypeOK ==
  /\ {source, schedule, asked, history} \subseteq Seq(Event)
  /\ asserts \in 0 .. MaxAsserts /\ cancelled \in BOOLEAN
  /\ clock \in 0 .. Deadline
  /\ metrics \in Metrics /\ sums \in [Metric -> Int]
  /\ pc \in {"start", "event", "apply", "applied", "assert", "returned"}
  /\ result \in Result

Init ==
  /\ asked \in Specs /\ source = asked /\ schedule = << >>
  /\ asserts \in 0 .. MaxAsserts
  /\ cancelled = FALSE /\ clock = 0
  /\ metrics = Nothing /\ sums = [m \in Metric |-> 0]
  /\ pc = "start" /\ history = << >>
  /\ result = [status |-> "failed", error |-> "none", finished |-> 0, executed |-> 0,
               metrics |-> Nothing, assertions |-> << >>]

------------------------------------------------------------------------------
(* Recorder.                                                               *)

Wrap(n) == ((n - MinInt) % (2 * (MaxInt + 1))) + MinInt

UnitClash(m, unit) == metrics[m] # None /\ metrics[m].unit # unit

ValueOf(m) == IF metrics[m] = None THEN 0 ELSE metrics[m].value

(* Mutant: a look at the sum, not at the distance from the limit.          *)
Overflows_SumTooLarge(value, delta) == Wrap(value + delta) > MaxInt

Overflows(value, delta) ==
  \/ delta > 0 /\ value > MaxInt - delta
  \/ delta < 0 /\ value < MinInt - delta

AddError(m, unit, delta) == UnitClash(m, unit) \/ Overflows(ValueOf(m), delta)

Add(m, unit, delta) ==
  /\ ~AddError(m, unit, delta)
  /\ metrics' = [metrics EXCEPT ![m] = [unit |-> unit, value |-> Wrap(ValueOf(m) + delta)]]
  /\ sums' = [sums EXCEPT ![m] = @ + delta]

(* Mutant: the unit is not compared.                                       *)
SetError_AnyUnit(m, unit) == FALSE
SetError(m, unit) == UnitClash(m, unit)

Set(m, unit, value) ==
  /\ ~SetError(m, unit)
  /\ metrics' = [metrics EXCEPT ![m] = [unit |-> unit, value |-> value]]
  /\ sums' = [sums EXCEPT ![m] = value]

Record == \E m \in Metric, unit \in Unit, n \in Delta : Add(m, unit, n) \/ Set(m, unit, n)

------------------------------------------------------------------------------
(* Runner.Run.                                                             *)

KeyOf(e) == <<e.at, e.phase, e.sequence>>

(* Mutant: an event may lie beyond the deadline.                           *)
Valid_NoDeadline(events) ==
  /\ \A i \in DOMAIN events :
       events[i].at >= 0 /\ events[i].phase \in Phases /\ events[i].sound
  /\ \A i, j \in DOMAIN events : KeyOf(events[i]) = KeyOf(events[j]) => i = j

(* validateRunSpec, of what the rest of the run depends on.                *)
Valid(events) ==
  /\ \A i \in DOMAIN events :
       events[i].at \in 0 .. Deadline /\ events[i].phase \in Phases /\ events[i].sound
  /\ \A i, j \in DOMAIN events : KeyOf(events[i]) = KeyOf(events[j]) => i = j

(* Mutant: the sequence number before the phase.                           *)
Before_SequenceFirst(e, f) ==
  \/ e.at < f.at
  \/ e.at = f.at /\ e.sequence < f.sequence
  \/ e.at = f.at /\ e.sequence = f.sequence /\ e.phase < f.phase

Before(e, f) ==
  \/ e.at < f.at
  \/ e.at = f.at /\ e.phase < f.phase
  \/ e.at = f.at /\ e.phase = f.phase /\ e.sequence < f.sequence

Rank(events, k) == Cardinality({j \in DOMAIN events : Before(events[j], events[k])})

(* The i-th event is the one with i - 1 events before it: no two are equal. *)
Sorted(events) ==
  [i \in DOMAIN events |-> events[CHOOSE k \in DOMAIN events : Rank(events, k) = i - 1]]

Return(r) == pc' = "returned" /\ result' = r

(* Every failure of an event or the context takes the clock and the        *)
(* metrics as they are.                                                    *)
Abort(error, executed) ==
  Return([result EXCEPT !.error = error, !.finished = clock', !.metrics = metrics',
                        !.executed = executed])

(* Preflight; the copy of the events is sorted only if all is well.        *)
Start ==
  /\ pc = "start"
  /\ \/ ~Valid(source) /\ Return([result EXCEPT !.error = "preflight"]) /\ UNCHANGED schedule
     \/ /\ Valid(source) /\ cancelled
        /\ Return([result EXCEPT !.error = "context"])
        /\ UNCHANGED schedule
     \/ /\ Valid(source) /\ ~cancelled
        /\ schedule' = Sorted(source)
        /\ pc' = "event" /\ UNCHANGED result
  /\ UNCHANGED <<source, spec, cancelled, clock, book, history>>

EventsLeft == result.executed < Len(schedule)

(* The look before an event, and the clock, which never goes back.         *)
NextEvent ==
  LET event == schedule[result.executed + 1] IN
  /\ pc = "event" /\ EventsLeft
  /\ UNCHANGED <<source, schedule, spec, cancelled, book, history>>
  /\ IF cancelled
     THEN UNCHANGED clock /\ Abort("context", result.executed)
     ELSE IF event.at < clock
     THEN UNCHANGED clock /\ Abort("clock", result.executed)
     ELSE clock' = event.at /\ pc' = "apply" /\ UNCHANGED result

(* Mutant: the runner works on the caller's own slice.                     *)
Scribble_Shared ==
  /\ source' = [i \in DOMAIN source |-> source[1]]
  /\ schedule' = [i \in DOMAIN schedule |-> schedule[1]]

(* What a callback may do to the events it knows.                          *)
Scribble == source' = [i \in DOMAIN source |-> source[1]] /\ UNCHANGED schedule

(* The callback.  Whether it returns the error of a refused write or keeps *)
(* it to itself is up to it.                                               *)
Apply ==
  LET event == schedule[result.executed + 1] IN
  /\ pc = "apply"
  /\ Record \/ UNCHANGED book
  /\ ("scribble" \in Threat /\ Scribble) \/ UNCHANGED <<source, schedule>>
  /\ history' = Append(history, event)
  /\ UNCHANGED <<spec, cancelled, clock>>
  /\ \/ pc' = "applied" /\ result' = [result EXCEPT !.executed = @ + 1]
     \/ Abort("event", result.executed + 1)

(* Mutant: no look at the context after an event.                          *)
AfterEvent_NoLook ==
  /\ pc = "applied" /\ pc' = "event" /\ UNCHANGED result
  /\ UNCHANGED <<source, spec, cancelled, schedule, clock, book, history>>

AfterEvent ==
  /\ pc = "applied"
  /\ UNCHANGED <<source, spec, cancelled, schedule, clock, book, history>>
  /\ IF cancelled THEN Abort("context", result.executed)
     ELSE pc' = "event" /\ UNCHANGED result

(* The one snapshot that is judged and reported.                           *)
TakeSnapshot ==
  /\ pc = "event" /\ ~EventsLeft
  /\ pc' = "assert"
  /\ result' = [result EXCEPT !.finished = clock, !.metrics = metrics]
  /\ UNCHANGED <<source, spec, cancelled, schedule, clock, book, history>>

(* An assertion of the experiment: any fixed predicate of a snapshot.      *)
Check(i, snapshot) == \E m \in Metric : snapshot[m] # None /\ snapshot[m].value >= i - 1

(* Mutant: each assertion takes a snapshot of its own.                     *)
Judged_Live == metrics
Judged == result.metrics

JudgedAll == Len(result.assertions) = asserts

Assert ==
  /\ pc = "assert" /\ ~JudgedAll
  /\ result' = [result EXCEPT !.assertions = Append(@, Check(Len(@) + 1, Judged))]
  /\ UNCHANGED <<source, spec, cancelled, schedule, clock, book, history, pc>>

Conclude ==
  /\ pc = "assert" /\ JudgedAll
  /\ IF \A i \in DOMAIN result.assertions : result.assertions[i]
     THEN Return([result EXCEPT !.status = "passed"])
     ELSE Return([result EXCEPT !.error = "assertion"])
  /\ UNCHANGED <<source, spec, cancelled, schedule, clock, book, history>>

Runner == Start \/ NextEvent \/ Apply \/ AfterEvent \/ TakeSnapshot \/ Assert \/ Conclude

------------------------------------------------------------------------------
(* The rest of the world.                                                  *)

Cancel ==
  /\ "cancel" \in Threat /\ ~cancelled /\ pc # "returned"
  /\ cancelled' = TRUE
  /\ UNCHANGED <<source, spec, run, book>>

(* A goroutine that an earlier callback left behind.                       *)
Leak ==
  /\ "leak" \in Threat /\ history # << >>
  /\ Record
  /\ UNCHANGED <<source, spec, run, cancelled>>

Next == Runner \/ Cancel \/ Leak

Spec == Init /\ [][Next]_vars

------------------------------------------------------------------------------
(* Properties.                                                             *)

(* The logical order: time, then faults before requests before             *)
(* observations, then the sequence number.                                 *)
Precedes(key, other) ==
  \E n \in 1 .. 3 : key[n] < other[n] /\ \A m \in 1 .. n - 1 : key[m] = other[m]

(* However a specification lists its events, and whatever callbacks do to  *)
(* that list, each one is executed at its place in the order, none twice,  *)
(* and the clock never refuses to go on.                                   *)
ExecutedInOrder ==
  /\ \A i, j \in DOMAIN history : i < j => Precedes(KeyOf(history[i]), KeyOf(history[j]))
  /\ \A i \in DOMAIN history : \E k \in DOMAIN asked : history[i] = asked[k]
  /\ result.error # "clock"

(* No write is half done or wraps round, in whatever order the writers     *)
(* come: a metric is what the accepted writes add up to.                   *)
MetricsAreExact == \A m \in Metric : metrics[m] # None => metrics[m].value = sums[m]

(* A metric that was measured in one unit stays in it.                     *)
UnitIsKept ==
  [][\A m \in Metric : metrics[m] # None => /\ metrics'[m] # None
                                            /\ metrics'[m].unit = metrics[m].unit]_vars

Whole == Len(history) = Len(asked)

(* A passed run has executed every event it was asked for, and the very    *)
(* metrics it reports satisfy every assertion, also if a goroutine goes on *)
(* writing meanwhile.                                                      *)
PassedIsEarned ==
  result.status = "passed" =>
    Whole /\ result.error = "none" /\ \A i \in 1 .. asserts : Check(i, result.metrics)

Unfinished == pc \in {"start", "apply", "applied"} \/ (pc = "event" /\ EventsLeft)

(* A context that ends is an error of the run (see also                    *)
(* docs/superpowers/plans/2026-07-14-w0-foundation.md:712): if it ends     *)
(* before the last event has been looked after, the run stays short of its *)
(* end until it fails; it never comes to the assertions.                   *)
CancelEndsTheRun ==
  [][cancelled /\ Unfinished => Unfinished' \/ (pc' = "returned" /\ result'.status = "failed")]_vars
==============================================================================
