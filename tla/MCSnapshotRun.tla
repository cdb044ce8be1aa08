---------------------------- MODULE MCSnapshotRun ----------------------------
(* Instances of SnapshotRun for TLC. *)
EXTENDS SnapshotRun, TLC

(* Two invocations that publish, with all that may happen; and any three,  *)
(* one after the other, of which experiments may fail.                     *)
Rough  == [root : Roots, threat : {Threats}, option : {{o \in Options : o.snapshot}}, most : {2}]
Calm   == [root : Roots, threat : {{"fail"}}, option : {Options}, most : {3}]
Either == Rough \cup Calm

(* The invocations of `make evidence` on a machine that may stop.          *)
Stopping == [root : {"repository"}, threat : {{"crash"}},
             option : {{[snapshot |-> TRUE, profile |-> "deep"]}}, most : {2}]

(* The invocations are interchangeable.                                    *)
Symmetry == Permutations(Run)
==============================================================================
