------------------------------ MODULE MCCellRun ------------------------------
(* Instances of CellRun for TLC. *)
EXTENDS CellRun

(* Lists of them disagree with the logical order in each of its parts.     *)
Sound == {e \in [at : 0 .. 1, phase : {0, 2}, sequence : 1 .. 2, sound : {TRUE}] :
            e.at = 1 => e.sequence = 1}

(* One event for every way in which an event can be unfit.                 *)
Unfit == {[at |-> -1, phase |-> 0, sequence |-> 1, sound |-> TRUE],
          [at |-> 2, phase |-> 0, sequence |-> 1, sound |-> TRUE],
          [at |-> 0, phase |-> 3, sequence |-> 1, sound |-> TRUE],
          [at |-> 0, phase |-> 0, sequence |-> 1, sound |-> FALSE]}

AnyEvent == Sound \cup Unfit
Values   == {-1, 1}
Counts   == [m \in Metric |-> "count"]
==============================================================================
