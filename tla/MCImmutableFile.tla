--------------------------- MODULE MCImmutableFile ---------------------------
(* The instances of ImmutableFile and ManifestWriter for TLC.              *)
EXTENDS ManifestWriter, TLC

(* All calls race for the same name.                                       *)
OneName == [w \in Writer |-> CHOOSE n \in Name : TRUE]

(* The calls are interchangeable where they all write the same name.       *)
Symmetry == Permutations(Writer)
==============================================================================
