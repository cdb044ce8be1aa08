---------------------------- MODULE ReleaseLedger ----------------------------
(***************************************************************************)
(* What `whiteboard run --snapshot` promises, with no files in sight: for  *)
(* every input digest there is at most one release.  A release is either   *)
(* whole or not there; it can be lost in a crash until somebody has been   *)
(* told of it, and is there for good from then on.                         *)
(***************************************************************************)
CONSTANTS Run,    \* the invocations
          Digest, \* the input digests
          Profile, \* the profiles a release may have
          None    \* no release

VARIABLES release, \* the release of each digest: whose records it is made of, its profile
          told     \* the digests and profiles that somebody was told of

vars == <<release, told>>

Init ==
  /\ release = [d \in Digest |-> None]
  /\ told = {}

Publish(r, d, p) ==
  /\ release[d] = None
  /\ release' = [release EXCEPT ![d] = <<r, p>>]
  /\ UNCHANGED told

(* Whoever asked for this digest and this profile may be told, be the      *)
(* release his own or an earlier one.                                      *)
Tell(d, p) ==
  /\ release[d] # None /\ release[d][2] = p
  /\ told' = told \cup {<<d, p>>}
  /\ UNCHANGED release

Lose(lost) ==
  /\ \A p \in told : p[1] \notin lost
  /\ release' = [d \in Digest |-> IF d \in lost THEN None ELSE release[d]]
  /\ UNCHANGED told

Next ==
  \/ \E d \in Digest, p \in Profile : Tell(d, p) \/ \E r \in Run : Publish(r, d, p)
  \/ \E lost \in SUBSET Digest : Lose(lost)

Spec == Init /\ [][Next]_vars
==============================================================================
