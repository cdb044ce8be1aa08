------------------------------ MODULE WriteOnce ------------------------------
(***************************************************************************)
(* What internal/immutablefile promises to its callers, with no directory, *)
(* temporary file or fsync in sight: every name is a register that is      *)
(* written at most once.  A write shows up in one step.  It may be lost in *)
(* a crash until its writer has been told of the success; from then on it  *)
(* is there for good.                                                      *)
(***************************************************************************)
CONSTANTS Writer,   \* the calls of WriteNoReplace, each with its own content
          Name,     \* the destinations
          None,     \* no file
          Dest      \* the destination of each call

VARIABLES file,     \* the call whose content stands at each name, or None
          confirmed \* the calls that have returned without an error

vars == <<file, confirmed>>

Init ==
  /\ file = [n \in Name |-> None]
  /\ confirmed = {}

(* The content of w appears at a name that held nothing.                   *)
Appear(w) ==
  /\ file[Dest[w]] = None
  /\ file' = [file EXCEPT ![Dest[w]] = w]
  /\ UNCHANGED confirmed

(* The writer of the file that stands at its name learns that it does.     *)
Confirm(w) ==
  /\ file[Dest[w]] = w
  /\ confirmed' = confirmed \cup {w}
  /\ UNCHANGED file

(* A crash takes away any of the files nobody was told of, no other file.  *)
Lose(lost) ==
  /\ \A w \in confirmed : Dest[w] \notin lost
  /\ file' = [n \in Name |-> IF n \in lost THEN None ELSE file[n]]
  /\ UNCHANGED confirmed

Next ==
  \/ \E w \in Writer : Appear(w) \/ Confirm(w)
  \/ \E lost \in SUBSET Name : Lose(lost)

Spec == Init /\ [][Next]_vars
==============================================================================
