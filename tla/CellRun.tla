------------------------------- MODULE CellRun -------------------------------
(***************************************************************************)
(* internal/cli/run.go and definitions.go: one cell of the matrix, from    *)
(* its experiment to the evidence record.  The result of the runner (see   *)
(* Harness) is compared with the definition that was frozen before the     *)
(* run, and turned into a record only if nothing is missing.               *)
(***************************************************************************)
EXTENDS Harness

CONSTANT Measured \* the metrics of the definition, with their units

ASSUME CellRunAssumption == Measured \in [Metric -> Unit]

VARIABLES converted, \* the result has been looked at
          record     \* the record of the cell, None if there is none

cell     == <<converted, record>>
cellVars == <<vars, converted, record>>

Records == [status : {"failed", "passed"}, metrics : Metrics, executed : 0 .. MaxEvents]

CellTypeOK == TypeOK /\ converted \in BOOLEAN /\ record \in Records \cup {None}

CellInit == Init /\ converted = FALSE /\ record = None

Run == Next /\ UNCHANGED cell

(* Every metric of the definition in its unit, and no other.               *)
MetricsComplete ==
  \A m \in Metric : result.metrics[m] # None /\ result.metrics[m].unit = Measured[m]

(* Mutant: the assertions that are there are taken, however many.          *)
AssertionsComplete_Any ==
  result.status = "passed" => \A i \in DOMAIN result.assertions : result.assertions[i]

(* One verdict for every assertion of the definition.                      *)
AssertionsComplete ==
  /\ Len(result.assertions) = asserts
  /\ result.status = "passed" => \A i \in DOMAIN result.assertions : result.assertions[i]

(* projectRunResult: status and error agree, and a result that passed has  *)
(* executed every event.                                                   *)
Projectable ==
  /\ (result.status = "passed") = (result.error = "none")
  /\ result.status = "passed" => result.executed = Len(asked)
  /\ result.executed <= Len(asked)
  /\ MetricsComplete /\ AssertionsComplete

(* prepareRunResult and convertPreparedRunResult; the conclusion that the  *)
(* experiment draws may be of no use.                                      *)
Convert ==
  /\ pc = "returned" /\ ~converted
  /\ converted' = TRUE
  /\ \/ UNCHANGED record
     \/ /\ Projectable
        /\ record' = [status |-> result.status, metrics |-> result.metrics,
                      executed |-> result.executed]
  /\ UNCHANGED vars

CellNext == Run \/ Convert

CellSpec == CellInit /\ [][CellNext]_cellVars

------------------------------------------------------------------------------

(* A record is the verdict on a whole run, never on one that was broken    *)
(* off: all events were executed, and the recorded metrics themselves tell *)
(* passed from failed.  (A definition without assertions has no verdict.)  *)
RecordIsJudged ==
  record # None /\ asserts > 0 =>
    /\ Whole /\ record.executed = Len(asked)
    /\ (record.status = "passed") = (\A i \in 1 .. asserts : Check(i, record.metrics))
==============================================================================
