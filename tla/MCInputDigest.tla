---------------------------- MODULE MCInputDigest ----------------------------
(* The instance of InputDigest for TLC: two commits with different sources,*)
(* and one that only adds evidence to the first.                           *)
EXTENDS InputDigest

MCTree == [c \in {"first", "second", "evidence"} |->
             [source |-> IF c = "second" THEN "b2" ELSE "b1", artifact |-> c = "evidence"]]

(* Anybody, three times; or somebody who moves HEAD alone.                 *)
MCMeddler == {[kinds |-> Kinds, most |-> 3], [kinds |-> {"head"}, most |-> 4]}
=============================================================================
