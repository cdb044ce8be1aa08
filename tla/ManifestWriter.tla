--------------------------- MODULE ManifestWriter ---------------------------
(***************************************************************************)
(* What internal/release makes of the error of a call of WriteNoReplace,   *)
(* and what run does about it. The error is a tree of joined and wrapped   *)
(* causes around one immutablefile.Error; the walk over it visits every    *)
(* node, so the sets of causes of ImmutableFile are what it can find (the  *)
(* writer's trees stay far below the walk's limits of depth and size).     *)
(***************************************************************************)
EXTENDS ImmutableFile

(* inspectImmutableWriterErrorTree: what the leaves and the error in it say.*)
Analysis(c) ==
  [hasUnsafe      |-> "unsafe" \in c.causes,
   hasExists      |-> "exists" \in c.causes,
   hasOperational |-> c.causes \cap {"io", "cancelled"} # {},
   pureExists     |-> ~c.installed /\ c.stage \in {"validate-path", "install"}]

(* classifyManifestWriterError: the classes errors.Is finds in the result. *)
Classified(c) ==
  LET a == Analysis(c) IN
  CASE c.causes = {} -> {}
    [] a.hasUnsafe -> {"ErrSnapshotUnsafePath"} \cup IF a.hasOperational THEN {"ErrSnapshotIO"} ELSE {}
    [] ~a.hasUnsafe /\ a.hasExists ->
         IF a.pureExists /\ ~a.hasOperational THEN {"pureSnapshotExists"}
         ELSE {"ErrSnapshotExists", "ErrSnapshotIO"}
    [] c.causes # {} /\ ~a.hasUnsafe /\ ~a.hasExists ->
         IF "cancelled" \in c.causes THEN {"context.Canceled"} ELSE {"ErrSnapshotIO"}

(* Mutant: the class of the error is enough to turn to the winner.         *)
Outcome_AnyConflict(c) ==
  CASE Classified(c) = {} -> "published"
    [] Classified(c) \cap {"pureSnapshotExists", "ErrSnapshotExists"} # {} -> "audit the winner"
    [] Classified(c) = {"ErrSnapshotUnsafePath"} -> "release failure"
    [] OTHER -> "failure"

(* runEvidence: only a certified conflict turns to the release that won.   *)
Outcome(c) ==
  CASE Classified(c) = {} -> "published"
    [] Classified(c) = {"pureSnapshotExists"} -> "audit the winner"
    [] Classified(c) = {"ErrSnapshotUnsafePath"} -> "release failure"
    [] OTHER -> "failure"

(* An invocation turns to the winner exactly when its own write met nothing*)
(* but the winner: then it has left nothing behind, on the disk or under   *)
(* the name, that it would answer for with the winner's exit code, and no  *)
(* failure or cancellation anywhere in the tree is passed over.            *)
ConflictIsClean ==
  \A w \in Writer : Returned(w) =>
    /\ Outcome(call[w]) = "audit the winner" <=> call[w].causes = {"exists"}
    /\ Outcome(call[w]) = "audit the winner" =>
         ~call[w].installed /\ ~temp[w] /\ ~tempDisk[w] /\ target[Dest[w]] # w
=============================================================================
