------------------------- MODULE InputDigestProofs -------------------------
(***************************************************************************)
(* Proofs about InputDigest: the invariant IInv is inductive, and with it  *)
(* StateWasClean and RefusalIsEarned hold for all contents, commits and    *)
(* trees, and any number of deeds of others.                               *)
(***************************************************************************)
EXTENDS InputDigest, TLAPS

------------------------------------------------------------------------------
(* The beginning.                                                          *)

(* Git finds nothing but the three paths.                                  *)
LEMMA FoundPaths ==
  ASSUME NEW h, NEW i, NEW w
  PROVE  Staged(h, i) \subseteq Paths /\ Untracked(i, w) \subseteq Paths /\ Unstaged(i, w) \subseteq SUBSET Paths
  BY DEF Staged, Untracked, Unstaged, Differing, Only, Paths

(* What a commit has is an index.                                          *)
LEMMA IndexOfType ==
  ASSUME NEW c \in Commit
  PROVE  IndexOf(c) \in Index
  BY InputDigestAssumption DEF IndexOf, Index

(* A blank snapshot is one.                                                *)
LEMMA BlankType ==
  ASSUME NEW c \in Commit
  PROVE  Blank \in Snapshot /\ Blank.stamp = 0
<1>1. (CHOOSE x \in Commit : TRUE) \in Commit
  OBVIOUS
<1> QED
  BY <1>1, IndexOfType DEF Blank, Snapshot

(* The base of the beginnings is made of commits, indexes and files.       *)
LEMMA BaseType ==
  ASSUME NEW b \in Base
  PROVE  b \in [head : Commit, index : Index, worktree : Files]
<1>1. PICK c \in Commit, a \in {"none", "file"} :
        b = [head |-> c, index |-> IndexOf(c),
             worktree |-> [source |-> Tree[c].source, artifact |-> a, stray |-> FALSE]]
  BY DEF Base
<1>2. [source |-> Tree[c].source, artifact |-> a, stray |-> FALSE] \in Files
  BY InputDigestAssumption DEF Files
<1> QED
  BY <1>1, <1>2, IndexOfType

(* And so are the beginnings.                                              *)
LEMMA BeginningType ==
  ASSUME NEW b \in Beginnings
  PROVE  b \in [head : Commit, index : Index, worktree : Files]
<1>1. CASE b \in Base
  BY <1>1, BaseType
<1>2. ASSUME NEW d \in Base,
             \/ \E c \in Commit : b = [d EXCEPT !.head = c]
             \/ \E x \in Blob : b = [d EXCEPT !.index.source = x]
             \/ b = [d EXCEPT !.index.artifact = ~@]
             \/ b = [d EXCEPT !.index.shape = "unfit"]
             \/ b = [d EXCEPT !.index.flag = "S"]
             \/ \E x \in Blob \cup {"gone"} : b = [d EXCEPT !.worktree.source = x]
             \/ b = [d EXCEPT !.worktree.artifact = "link"]
             \/ b = [d EXCEPT !.worktree.stray = TRUE]
      PROVE  b \in [head : Commit, index : Index, worktree : Files]
  <2>1. d \in [head : Commit, index : Index, worktree : Files]
    BY BaseType
  <2>2. CASE \E c \in Commit : b = [d EXCEPT !.head = c]
    BY <2>1, <2>2
  <2>3. CASE \/ \E x \in Blob : b = [d EXCEPT !.index.source = x]
             \/ b = [d EXCEPT !.index.shape = "unfit"] \/ b = [d EXCEPT !.index.flag = "S"]
    BY <2>1, <2>3 DEF Index
  <2>4. CASE b = [d EXCEPT !.index.artifact = ~@]
    <3> DEFINE a == ~d.index.artifact
    <3>1. d.index \in Index /\ a \in BOOLEAN
      <4>1. a \in BOOLEAN
        BY Zenon
      <4> QED
        BY <2>1, <4>1
    <3>2. b.index = [d.index EXCEPT !.artifact = a] /\ b = [d EXCEPT !.index = b.index]
      BY <2>1, <2>4, Zenon
    <3> HIDE DEF a
    <3>3. b.index \in Index
      BY <3>1, <3>2 DEF Index
    <3> QED
      BY <2>1, <3>2, <3>3
  <2>5. CASE \/ \E x \in Blob \cup {"gone"} : b = [d EXCEPT !.worktree.source = x]
             \/ b = [d EXCEPT !.worktree.artifact = "link"] \/ b = [d EXCEPT !.worktree.stray = TRUE]
    <3>1. PICK w : /\ b = [d EXCEPT !.worktree = w]
                   /\ \/ \E x \in Blob \cup {"gone"} : w = [d.worktree EXCEPT !.source = x]
                      \/ w = [d.worktree EXCEPT !.artifact = "link"] \/ w = [d.worktree EXCEPT !.stray = TRUE]
      BY <2>1, <2>5, Zenon
    <3>2. w \in Files
      BY <2>1, <3>1 DEF Files
    <3> QED
      BY <2>1, <3>1, <3>2
  <2> QED
    BY <1>2, <2>2, <2>3, <2>4, <2>5
<1> QED
  BY <1>1, <1>2 DEF Beginnings

(* The invariant holds at the beginning.                                   *)
LEMMA InitInv == Init => IInv
<1> SUFFICES ASSUME Init PROVE IInv
  OBVIOUS
<1>1. head \in Commit /\ index \in Index /\ worktree \in Files
  BY BeginningType DEF Init
<1>2. call = Idle /\ Idle.seen = Blank /\ Blank \in Snapshot /\ Blank.stamp = 0
  BY <1>1, BlankType DEF Init, Idle
<1>3. TypeOK
  <2>1. clean \subseteq Commit
    BY <1>1 DEF Init
  <2>2. call \in CallState
    BY <1>2 DEF Idle, NoSnapshot, CallState
  <2> QED
    BY <1>1, <2>1, <2>2 DEF Init, TypeOK
<1>4. InTurn /\ SeesTruly /\ Moment
  BY <1>1, <1>2 DEF Init, InTurn, SeesTruly, Moment, Idle, NoSnapshot, AfterIndex, AfterCached,
     AfterFiles, AfterOthers, AfterHash, BeforeCompare, AfterHead
<1>5. Undisturbed /\ StateWasClean /\ RefusalIsEarned
  BY <1>1, <1>2 DEF Init, Undisturbed, StateWasClean, RefusalIsEarned, Idle, NoSnapshot, AfterIndex, AfterCached,
     AfterFiles, AfterOthers, AfterHash, AfterHead
<1> QED
  BY <1>3, <1>4, <1>5 DEF IInv
------------------------------------------------------------------------------
(* The steps of the call.                                                  *)

(* What no step of the call touches.                                       *)
Apart == UNCHANGED <<repository, aux>>

(* A call that ends with a class keeps the invariant, if a command failed  *)
(* or the class is earned.                                                 *)
LEMMA EndKeeps ==
  ASSUME IInv, NEW class \in Classes, call' = [Idle EXCEPT !.at = "done", !.refused = {class}],
         Apart, UNCHANGED <<moved, away>>, faulted' \in BOOLEAN,
         faulted' \/ (class \in {"changed", "dirty", "unsafe"} /\ (deeds = 0 => class \in faults))
  PROVE  IInv'
<1>1. head \in Commit /\ Blank \in Snapshot /\ Blank.stamp = 0
  BY BlankType DEF IInv, TypeOK
<1>2. /\ call'.at = "done" /\ call'.seen = Blank /\ call'.saw = 0 /\ call'.first = {}
      /\ call'.refused = {class} /\ call'.state = {}
  BY DEF Idle, NoSnapshot
<1>3. TypeOK'
  <2>1. call' \in CallState
    BY <1>1 DEF Idle, NoSnapshot, CallState
  <2> QED
    BY <2>1 DEF IInv, TypeOK, Apart, repository, aux
<1>4. InTurn' /\ SeesTruly' /\ Moment'
  BY <1>1, <1>2 DEF IInv, TypeOK, InTurn, SeesTruly, Moment, Apart, repository, aux, Snapshot, AfterIndex, AfterCached,
     AfterFiles, AfterOthers, AfterHash, BeforeCompare, AfterHead
<1>5. Undisturbed'
  BY <1>1, <1>2 DEF IInv, Undisturbed, Apart, repository, aux,
       AfterIndex, AfterCached,
     AfterFiles, AfterOthers, AfterHash, AfterHead
<1>6. StateWasClean' /\ RefusalIsEarned'
  BY <1>2 DEF StateWasClean, RefusalIsEarned, Apart, aux
<1> QED
  BY <1>3, <1>4, <1>5, <1>6 DEF IInv

(* A command that fails keeps the invariant.                               *)
LEMMA FailKeeps ==
  ASSUME IInv, NEW S \in SUBSET Classes, Fail(S) \/ Broken(S)
  PROVE  IInv'
<1>1. PICK class \in Classes : call' = [Idle EXCEPT !.at = "done", !.refused = {class}]
  BY DEF Fail, Broken, Classes
<1> QED
  BY <1>1, EndKeeps DEF Fail, Broken, Apart

(* A refusal keeps it, if it is earned.                                    *)
LEMMA RefuseKeeps ==
  ASSUME IInv, NEW class \in {"changed", "dirty", "unsafe"}, deeds = 0 => class \in faults, Refuse(class)
  PROVE  IInv'
<1>1. faulted' \in BOOLEAN
  BY DEF IInv, TypeOK, Refuse, Go
<1> QED
  BY <1>1, EndKeeps DEF Refuse, Go, Apart, Classes

(* The two properties are about the end of the call.                       *)
LEMMA NotYetEnded ==
  ASSUME IInv, call'.refused = call.refused, call'.state = call.state, call.at # "done"
  PROVE  StateWasClean' /\ RefusalIsEarned'
  BY DEF IInv, InTurn, StateWasClean, RefusalIsEarned

(* A command that succeeds takes the call to the next one, with a snapshot *)
(* that has more in it.                                                    *)
GoesOn(l, s) == call' = [call EXCEPT !.at = l, !.seen = s]

(* A call goes on by these.                                                *)
LEMMA Commands ==
  {"index", "index-end", "staged", "unstaged", "untracked", "worktree",
   "again", "again-end", "head-again", "check", "blobs"} \subseteq AfterHead
  BY DEF AfterHead, AfterIndex, AfterCached, AfterFiles, AfterOthers, AfterHash

(* What of the call stays.                                                 *)
LEMMA GoesOnTells ==
  ASSUME call \in CallState, NEW l \in AfterHead \cup {"head"}, NEW s \in Snapshot, GoesOn(l, s)
  PROVE  /\ call' \in CallState /\ call'.at = l /\ call'.seen = s /\ call'.saw = call.saw
         /\ call'.first = call.first /\ call'.refused = call.refused /\ call'.state = call.state
  BY DEF GoesOn, CallState

(* The types are kept.                                                     *)
LEMMA GoesOnType ==
  ASSUME TypeOK, NEW l \in AfterHead \cup {"head"}, NEW s \in Snapshot, GoesOn(l, s), Apart,
         faulted' = faulted, moved' \in BOOLEAN, away' \subseteq {1, 2}
  PROVE  TypeOK'
  BY GoesOnTells DEF TypeOK, Apart, repository, aux

(* The root of the repository is resolved: the call knows no more than     *)
(* before.                                                                 *)
LEMMA RootKeeps == IInv /\ Root => IInv'
<1> SUFFICES ASSUME IInv, Root PROVE IInv'
  OBVIOUS
<1>1. CASE Fail({"repository"})
  BY <1>1, FailKeeps DEF Classes
<1>2. CASE Go(Then("head"))
  <2> DEFINE s == call.seen
  <2>1. GoesOn("head", s) /\ s \in Snapshot /\ call \in CallState
    BY <1>2 DEF Go, Then, GoesOn, IInv, TypeOK, CallState
  <2>2. /\ call.at = "root" /\ call'.at = "head" /\ call'.seen = s /\ call'.saw = call.saw
        /\ call'.first = call.first /\ call'.refused = call.refused /\ call'.state = call.state
    BY <2>1, GoesOnTells DEF Root, At
  <2>3. TypeOK'
    BY <1>2, <2>1, GoesOnType DEF Go, IInv, TypeOK, Apart
  <2>4. InTurn' /\ SeesTruly' /\ Moment'
    BY <1>2, <2>2 DEF Go, IInv, InTurn, SeesTruly, Moment, repository, aux,
       AfterIndex, AfterCached,
       AfterFiles, AfterOthers, AfterHash, BeforeCompare, AfterHead
  <2>5. Undisturbed'
    BY <1>2, <2>2 DEF Go, IInv, InTurn, Undisturbed, repository, aux,
       AfterIndex, AfterCached,
       AfterFiles, AfterOthers, AfterHash, AfterHead
  <2> QED
    BY <2>2, <2>3, <2>4, <2>5, NotYetEnded DEF IInv
<1> QED
  BY <1>1, <1>2 DEF Root

(* HEAD is read: it is not moved since.                                    *)
LEMMA HeadKeeps == IInv /\ Head => IInv'
<1> SUFFICES ASSUME IInv, Head PROVE IInv'
  OBVIOUS
<1>1. CASE Fail({"repository"})
  BY <1>1, FailKeeps DEF Classes
<1>2. CASE /\ call' = [call EXCEPT !.at = "index", !.seen.head = head]
           /\ moved' = FALSE /\ UNCHANGED <<repository, aux, faulted, away>>
  <2> DEFINE s == [call.seen EXCEPT !.head = head]
  <2>1. GoesOn("index", s) /\ call \in CallState
    BY <1>2, Zenon DEF GoesOn, IInv, TypeOK
  <2>2. s \in Snapshot /\ s.head = head /\ s.stamp = call.seen.stamp
    BY <2>1 DEF IInv, TypeOK, CallState, Snapshot
  <2> HIDE DEF s
  <2>3. /\ call.at = "head" /\ call'.at = "index" /\ call'.seen = s /\ call'.saw = call.saw
        /\ call'.first = call.first /\ call'.refused = call.refused /\ call'.state = call.state
    BY <2>1, <2>2, GoesOnTells, Commands DEF Head, At
  <2>4. TypeOK'
    BY <1>2, <2>1, <2>2, GoesOnType, Commands DEF IInv, TypeOK, Apart
  <2>5. InTurn' /\ SeesTruly' /\ Moment'
    BY <1>2, <2>2, <2>3 DEF IInv, InTurn, SeesTruly, Moment, WasClean, CleanAt, repository, aux,
       AfterIndex, AfterCached,
       AfterFiles, AfterOthers, AfterHash, BeforeCompare, AfterHead
  <2>6. Undisturbed'
    BY <1>2, <2>2, <2>3 DEF IInv, InTurn, Undisturbed, Found, repository, aux,
       AfterIndex, AfterCached,
       AfterFiles, AfterOthers, AfterHash, AfterHead
  <2> QED
    BY <2>3, <2>4, <2>5, <2>6, NotYetEnded DEF IInv
<1> QED
  BY <1>1, <1>2 DEF Head

(* The index file is identified: nothing is known of it yet.               *)
LEMMA IndexFileKeeps == IInv /\ IndexFile => IInv'
<1> SUFFICES ASSUME IInv, IndexFile PROVE IInv'
  OBVIOUS
<1>1. CASE Fail({"repository", "unsafe", "changed"})
  BY <1>1, FailKeeps DEF Classes
<1>2. CASE Go([call EXCEPT !.at = IF @ = "index" THEN "index-end" ELSE "again-end", !.saw = stamp])
  <2>1. /\ (call.at = "index" /\ call'.at = "index-end") \/ (call.at = "again" /\ call'.at = "again-end")
        /\ call' \in CallState /\ call'.seen = call.seen /\ call'.saw = stamp
        /\ call'.first = call.first /\ call'.refused = call.refused /\ call'.state = call.state
    BY <1>2 DEF Go, IndexFile, At, IInv, TypeOK, CallState, AfterHead, AfterIndex, AfterCached, AfterFiles,
       AfterOthers, AfterHash
  <2>2. TypeOK'
    BY <1>2, <2>1 DEF Go, IInv, TypeOK, repository, aux
  <2>3. InTurn' /\ SeesTruly' /\ Moment'
    BY <1>2, <2>1 DEF Go, IInv, InTurn, SeesTruly, Moment, WasClean, CleanAt, repository, aux, AfterIndex,
       AfterCached,
       AfterFiles, AfterOthers, AfterHash, BeforeCompare, AfterHead
  <2>4. Undisturbed'
    BY <1>2, <2>1 DEF Go, IInv, InTurn, Undisturbed, Found, repository, aux,
       AfterIndex, AfterCached,
       AfterFiles, AfterOthers, AfterHash, AfterHead
  <2> QED
    BY <2>1, <2>2, <2>3, <2>4, NotYetEnded DEF IInv
<1> QED
  BY <1>1, <1>2 DEF IndexFile

(* The index file is read: the snapshot has the index that is there.       *)
LEMMA IndexReadKeeps == IInv /\ IndexRead => IInv'
<1> SUFFICES ASSUME IInv, IndexRead PROVE IInv'
  OBVIOUS
<1>1. CASE Fail({"repository", "changed"})
  BY <1>1, FailKeeps DEF Classes
<1>2. CASE call.saw # stamp /\ Refuse("changed")
  <2>1. deeds # 0
    BY <1>2 DEF IInv, Undisturbed
  <2> QED
    BY <1>2, <2>1, RefuseKeeps
<1>3. CASE call.saw = stamp /\ Go([call EXCEPT !.at = "staged", !.seen.stamp = stamp, !.seen.index = index])
  <2> DEFINE s == [[call.seen EXCEPT !.stamp = stamp] EXCEPT !.index = index]
  <2>1. GoesOn("staged", s) /\ call \in CallState
    BY <1>3, Zenon DEF Go, Then, GoesOn, IInv, TypeOK
  <2>2. /\ s \in Snapshot /\ s.stamp = stamp /\ s.index = index
        /\ s.head = call.seen.head /\ s.staged = call.seen.staged /\ s.unstaged = call.seen.unstaged
        /\ s.untracked = call.seen.untracked
    BY <2>1 DEF IInv, TypeOK, CallState, Snapshot
  <2> HIDE DEF s
  <2>3. /\ call.at = "index-end" /\ call'.at = "staged" /\ call'.seen = s /\ call'.saw = call.saw
        /\ call'.first = call.first /\ call'.refused = call.refused /\ call'.state = call.state
    BY <2>1, <2>2, GoesOnTells, Commands DEF IndexRead, At
  <2>4. TypeOK'
    BY <1>3, <2>1, <2>2, GoesOnType, Commands DEF Go, IInv, TypeOK, Apart
  <2>5. InTurn' /\ SeesTruly' /\ Moment'
    BY <1>3, <2>2, <2>3 DEF Go, IInv, TypeOK, InTurn, SeesTruly, Moment, WasClean, CleanAt, repository, aux,
       AfterIndex, AfterCached,
       AfterFiles, AfterOthers, AfterHash, BeforeCompare, AfterHead
  <2>6. Undisturbed'
    BY <1>3, <2>2, <2>3 DEF Go, IInv, InTurn, Undisturbed, Found, repository, aux,
       AfterIndex, AfterCached,
       AfterFiles, AfterOthers, AfterHash, AfterHead
  <2> QED
    BY <2>3, <2>4, <2>5, <2>6, NotYetEnded DEF IInv
<1> QED
  BY <1>1, <1>2, <1>3 DEF IndexRead

(* The index that was read is compared with the commit that is checked out *)
(* now.                                                                    *)
LEMMA DiffCachedKeeps == IInv /\ DiffCached => IInv'
<1> SUFFICES ASSUME IInv, DiffCached PROVE IInv'
  OBVIOUS
<1>1. CASE Fail({"repository"})
  BY <1>1, FailKeeps DEF Classes
<1>2. CASE Go([call EXCEPT !.at = "unstaged", !.seen.staged = Staged(head, call.seen.index)])
  <2>0. Staged(head, call.seen.index) \in SUBSET Paths
    BY FoundPaths
  <2> DEFINE s == [call.seen EXCEPT !.staged = Staged(head, call.seen.index)]
  <2>1. GoesOn("unstaged", s) /\ call \in CallState
    BY <1>2, Zenon DEF Go, Then, GoesOn, IInv, TypeOK
  <2>2. /\ s \in Snapshot /\ s.staged = Staged(head, call.seen.index)
        /\ s.head = call.seen.head /\ s.stamp = call.seen.stamp /\ s.index = call.seen.index
        /\ s.unstaged = call.seen.unstaged /\ s.untracked = call.seen.untracked
    BY <2>1, <2>0 DEF IInv, TypeOK, CallState, Snapshot
  <2> HIDE DEF s
  <2>3. /\ call.at = "staged" /\ call'.at = "unstaged" /\ call'.seen = s /\ call'.saw = call.saw
        /\ call'.first = call.first /\ call'.refused = call.refused /\ call'.state = call.state
    BY <2>1, <2>2, GoesOnTells, Commands DEF DiffCached, At
  <2>4. TypeOK'
    BY <1>2, <2>1, <2>2, GoesOnType, Commands DEF Go, IInv, TypeOK, Apart
  <2>5. InTurn' /\ SeesTruly' /\ Moment'
    BY <1>2, <2>2, <2>3 DEF Go, IInv, TypeOK, InTurn, SeesTruly, Moment, WasClean, CleanAt, repository, aux,
       AfterIndex, AfterCached,
       AfterFiles, AfterOthers, AfterHash, BeforeCompare, AfterHead
  <2>6. Undisturbed'
    BY <1>2, <2>2, <2>3 DEF Go, IInv, InTurn, Undisturbed, Found, repository, aux,
       AfterIndex, AfterCached,
       AfterFiles, AfterOthers, AfterHash, AfterHead
  <2> QED
    BY <2>3, <2>4, <2>5, <2>6, NotYetEnded DEF IInv
<1> QED
  BY <1>1, <1>2 DEF DiffCached

(* The diff with the files may find that they are as the index has them.   *)
LEMMA DiffFilesKeeps == IInv /\ DiffFiles => IInv'
<1> SUFFICES ASSUME IInv, DiffFiles PROVE IInv'
  OBVIOUS
<1>1. CASE Fail({"repository"})
  BY <1>1, FailKeeps DEF Classes
<1>2. ASSUME NEW u \in Unstaged(call.seen.index, worktree),
             Go([call EXCEPT !.at = "untracked", !.seen.unstaged = u])
      PROVE  IInv'
  <2>0. u \in SUBSET Paths
    BY FoundPaths
  <2> DEFINE s == [call.seen EXCEPT !.unstaged = u]
  <2>1. GoesOn("untracked", s) /\ call \in CallState
    BY <1>2, Zenon DEF Go, Then, GoesOn, IInv, TypeOK
  <2>2. /\ s \in Snapshot /\ s.unstaged = u
        /\ s.head = call.seen.head /\ s.stamp = call.seen.stamp /\ s.index = call.seen.index
        /\ s.staged = call.seen.staged /\ s.untracked = call.seen.untracked
    BY <2>1, <2>0 DEF IInv, TypeOK, CallState, Snapshot
  <2> HIDE DEF s
  <2>3. /\ call.at = "unstaged" /\ call'.at = "untracked" /\ call'.seen = s /\ call'.saw = call.saw
        /\ call'.first = call.first /\ call'.refused = call.refused /\ call'.state = call.state
    BY <2>1, <2>2, GoesOnTells, Commands DEF DiffFiles, At
  <2>4. TypeOK'
    BY <1>2, <2>1, <2>2, GoesOnType, Commands DEF Go, IInv, TypeOK, Apart
  <2>5. InTurn' /\ SeesTruly' /\ Moment'
    BY <1>2, <2>2, <2>3 DEF Go, IInv, TypeOK, InTurn, SeesTruly, Moment, WasClean, CleanAt, repository, aux,
       AfterIndex, AfterCached,
       AfterFiles, AfterOthers, AfterHash, BeforeCompare, AfterHead
  <2>6. Undisturbed'
    BY <1>2, <2>2, <2>3 DEF Go, IInv, InTurn, Undisturbed, Found, Unstaged, Differing, Only, repository, aux,
       AfterIndex, AfterCached,
       AfterFiles, AfterOthers, AfterHash, AfterHead
  <2> QED
    BY <2>3, <2>4, <2>5, <2>6, NotYetEnded DEF IInv
<1> QED
  BY <1>1, <1>2 DEF DiffFiles

(* What the index does not have is listed.                                 *)
LEMMA ListOthersKeeps == IInv /\ ListOthers => IInv'
<1> SUFFICES ASSUME IInv, ListOthers PROVE IInv'
  OBVIOUS
<1>1. CASE Fail({"repository"})
  BY <1>1, FailKeeps DEF Classes
<1>2. CASE Go([call EXCEPT !.at = "worktree", !.seen.untracked = Untracked(call.seen.index, worktree)])
  <2>0. Untracked(call.seen.index, worktree) \in SUBSET Paths
    BY FoundPaths
  <2> DEFINE s == [call.seen EXCEPT !.untracked = Untracked(call.seen.index, worktree)]
  <2>1. GoesOn("worktree", s) /\ call \in CallState
    BY <1>2, Zenon DEF Go, Then, GoesOn, IInv, TypeOK
  <2>2. /\ s \in Snapshot /\ s.untracked = Untracked(call.seen.index, worktree)
        /\ s.head = call.seen.head /\ s.stamp = call.seen.stamp /\ s.index = call.seen.index
        /\ s.staged = call.seen.staged /\ s.unstaged = call.seen.unstaged
    BY <2>1, <2>0 DEF IInv, TypeOK, CallState, Snapshot
  <2> HIDE DEF s
  <2>3. /\ call.at = "untracked" /\ call'.at = "worktree" /\ call'.seen = s /\ call'.saw = call.saw
        /\ call'.first = call.first /\ call'.refused = call.refused /\ call'.state = call.state
    BY <2>1, <2>2, GoesOnTells, Commands DEF ListOthers, At
  <2>4. TypeOK'
    BY <1>2, <2>1, <2>2, GoesOnType, Commands DEF Go, IInv, TypeOK, Apart
  <2>5. InTurn' /\ SeesTruly' /\ Moment'
    BY <1>2, <2>2, <2>3 DEF Go, IInv, TypeOK, InTurn, SeesTruly, Moment, WasClean, CleanAt, repository, aux,
       AfterIndex, AfterCached,
       AfterFiles, AfterOthers, AfterHash, BeforeCompare, AfterHead
  <2>6. Undisturbed'
    BY <1>2, <2>2, <2>3 DEF Go, IInv, InTurn, Undisturbed, Found, Untracked, Only, repository, aux, AfterIndex,
       AfterCached,
       AfterFiles, AfterOthers, AfterHash, AfterHead
  <2> QED
    BY <2>3, <2>4, <2>5, <2>6, NotYetEnded DEF IInv
<1> QED
  BY <1>1, <1>2 DEF ListOthers

(* What is wrong with a repository that nobody disturbs is among its faults*)
LEMMA FaultsAre ==
  ASSUME IInv, deeds = 0
  PROVE  /\ "dirty" \in faults <=> (Tree[head].source # index.source \/ index.source # worktree.source \/ worktree.stray)
         /\ "unsafe" \in faults <=> \/ index.shape = "unfit" \/ index.flag = "S" \/ worktree.artifact = "link"
                                    \/ (index.artifact /\ worktree.artifact # "file")
         /\ faults \subseteq {"dirty", "unsafe"}
  BY DEF IInv, Undisturbed, Faults, CleanAt, Only

(* The files are hashed: with an index that is still the one that was read *)
(* and a commit that was not moved, this is a moment at which it was clean.*)
LEMMA FingerprintKeeps == IInv /\ Fingerprint => IInv'
<1> SUFFICES ASSUME IInv, Fingerprint PROVE IInv'
  OBVIOUS
<1>1. CASE Fail({"dirty"})
  BY <1>1, FailKeeps DEF Classes
<1>2. CASE call.seen.index.shape = "unfit" /\ Refuse("unsafe")
  <2>1. call.at = "worktree" /\ call.at \in AfterIndex
    BY DEF Fingerprint, At, AfterIndex, AfterCached, AfterFiles, AfterOthers
  <2>2. deeds = 0 => "unsafe" \in faults
    BY <1>2, <2>1, FaultsAre DEF IInv, Undisturbed
  <2> QED
    BY <1>2, <2>2, RefuseKeeps
<1>3. CASE /\ call.seen.index.shape = "plain" /\ worktree.source # call.seen.index.source
           /\ Refuse("dirty")
  <2>1. call.at = "worktree" /\ call.at \in AfterIndex
    BY DEF Fingerprint, At, AfterIndex, AfterCached, AfterFiles, AfterOthers
  <2>2. deeds = 0 => "dirty" \in faults
    BY <1>3, <2>1, FaultsAre DEF IInv, Undisturbed
  <2> QED
    BY <1>3, <2>2, RefuseKeeps
<1>4. CASE /\ call.seen.index.shape = "plain" /\ worktree.source = call.seen.index.source
           /\ Go(Then("again"))
  <2> DEFINE s == call.seen
  <2>1. GoesOn("again", s) /\ s \in Snapshot /\ call \in CallState
    BY <1>4 DEF Go, Then, GoesOn, IInv, TypeOK, CallState
  <2>2. /\ call.at = "worktree" /\ call'.at = "again" /\ call'.seen = s /\ call'.saw = call.saw
        /\ call'.first = call.first /\ call'.refused = call.refused /\ call'.state = call.state
    BY <2>1, GoesOnTells, Commands DEF Fingerprint, At
  <2>3. TypeOK'
    BY <1>4, <2>1, GoesOnType, Commands DEF Go, IInv, TypeOK, Apart
  <2>4. InTurn' /\ SeesTruly'
    BY <1>4, <2>2 DEF Go, IInv, InTurn, SeesTruly, CleanAt, repository, aux, AfterIndex, AfterCached,
       AfterFiles, AfterOthers, AfterHash, BeforeCompare, AfterHead
  <2>5. ASSUME ~moved, s.stamp = stamp, "source" \notin s.staged
        PROVE  s.head \in clean /\ s.index.source = Tree[s.head].source
    <3>1. call.at \in AfterIndex /\ call.at \in BeforeCompare /\ call.at \in AfterCached \cap BeforeCompare
      BY <2>2 DEF AfterIndex, AfterCached, AfterFiles, AfterOthers, BeforeCompare, AfterHead, AfterHash
    <3>2. s.index = index /\ s.head = head /\ s.staged = Staged(s.head, s.index)
      BY <2>5, <3>1 DEF IInv, SeesTruly
    <3>3. Tree[head].source = index.source
      BY <2>5, <3>2 DEF Staged
    <3> QED
      BY <1>4, <3>2, <3>3 DEF IInv, SeesTruly, CleanAt
  <2>6. Moment'
    BY <1>4, <2>2, <2>5 DEF Go, IInv, Moment, WasClean, repository, aux
  <2>7. Undisturbed'
    BY <1>4, <2>2 DEF Go, IInv, InTurn, Undisturbed, Found, repository, aux, AfterIndex, AfterCached,
       AfterFiles, AfterOthers, AfterHash, AfterHead
  <2> QED
    BY <2>2, <2>3, <2>4, <2>6, <2>7, NotYetEnded DEF IInv
<1> QED
  BY <1>1, <1>2, <1>3, <1>4 DEF Fingerprint

(* The index file is the one that was read: it was all the time between.   *)
LEMMA IndexReadAgainKeeps == IInv /\ IndexReadAgain => IInv'
<1> SUFFICES ASSUME IInv, IndexReadAgain PROVE IInv'
  OBVIOUS
<1>1. CASE Fail({"repository", "changed"})
  BY <1>1, FailKeeps DEF Classes
<1>2. CASE (call.saw # stamp \/ stamp # call.seen.stamp) /\ Refuse("changed")
  <2>1. deeds # 0
    BY <1>2 DEF IInv, Undisturbed
  <2> QED
    BY <1>2, <2>1, RefuseKeeps
<1>3. CASE call.saw = stamp /\ stamp = call.seen.stamp /\ Go(Then("head-again"))
  <2> DEFINE s == call.seen
  <2>1. GoesOn("head-again", s) /\ s \in Snapshot /\ call \in CallState
    BY <1>3 DEF Go, Then, GoesOn, IInv, TypeOK, CallState
  <2>2. /\ call.at = "again-end" /\ call'.at = "head-again" /\ call'.seen = s /\ call'.saw = call.saw
        /\ call'.first = call.first /\ call'.refused = call.refused /\ call'.state = call.state
    BY <2>1, GoesOnTells, Commands DEF IndexReadAgain, At
  <2>3. TypeOK'
    BY <1>3, <2>1, GoesOnType, Commands DEF Go, IInv, TypeOK, Apart
  <2>4. InTurn' /\ SeesTruly' /\ Moment'
    BY <1>3, <2>2 DEF Go, IInv, InTurn, SeesTruly, Moment, WasClean, CleanAt, repository, aux,
       AfterIndex, AfterCached, AfterFiles, AfterOthers, AfterHash, BeforeCompare, AfterHead
  <2>5. Undisturbed'
    BY <1>3, <2>2 DEF Go, IInv, InTurn, Undisturbed, Found, repository, aux, AfterIndex, AfterCached,
       AfterFiles, AfterOthers, AfterHash, AfterHead
  <2> QED
    BY <2>2, <2>3, <2>4, <2>5, NotYetEnded DEF IInv
<1> QED
  BY <1>1, <1>2, <1>3 DEF IndexReadAgain

(* Two looks that nobody disturbs find the same.                           *)
LEMMA LooksAgree ==
  ASSUME NEW s \in Snapshot, NEW t \in Snapshot, Found(s), Found(t)
  PROVE  s = t
<1>1. s.unstaged = t.unstaged
  <2>1. Differing(index, worktree) \ {"source"} = Differing(index, worktree)
    BY DEF Found, Differing, Only
  <2> QED
    BY <2>1 DEF Found, Unstaged
<1> QED
  BY <1>1 DEF Found, Snapshot

(* HEAD names the commit it named, unless it was moved and came back, which*)
(* is written down; the second look has found what the first one found.    *)
LEMMA HeadAgainKeeps == IInv /\ HeadAgain => IInv'
<1> SUFFICES ASSUME IInv, HeadAgain PROVE IInv'
  OBVIOUS
<1> DEFINE s == call.seen
<1>1. /\ call.at = "head-again" /\ s \in Snapshot /\ call \in CallState /\ call.first \subseteq Snapshot
      /\ call.at \in AfterHash /\ call.at \in BeforeCompare /\ call.at \in AfterHead
  BY DEF HeadAgain, At, IInv, TypeOK, CallState, AfterHash, AfterHead, AfterIndex, AfterCached, AfterFiles,
     AfterOthers, BeforeCompare
<1>2. CASE Fail({"changed"})
  BY <1>2, FailKeeps DEF Classes
<1>3. CASE head # call.seen.head /\ Refuse("changed")
  <2>1. deeds # 0
    BY <1>1, <1>3 DEF IInv, Undisturbed
  <2> QED
    BY <1>3, <2>1, RefuseKeeps
<1>4. CASE ~(call.first \subseteq {call.seen}) /\ Refuse("changed")
  <2>1. ASSUME deeds = 0 PROVE FALSE
    <3>1. PICK t \in call.first : t # s
      BY <1>4
    <3>2. Found(s) /\ Found(t)
      BY <1>1, <2>1, <3>1 DEF IInv, Undisturbed
    <3> QED
      BY <1>1, <3>1, <3>2, LooksAgree
  <2> QED
    BY <1>4, <2>1, RefuseKeeps
<1>5. CASE /\ head = call.seen.head /\ call.first \subseteq {call.seen}
           /\ call' = Then("check")
           /\ away' = IF moved THEN away \cup {Nth} ELSE away
           /\ UNCHANGED <<repository, aux, faulted, moved>>
  <2>1. GoesOn("check", s)
    BY <1>1, <1>5 DEF Then, GoesOn, CallState
  <2>2. /\ call'.at = "check" /\ call'.seen = s /\ call'.saw = call.saw
        /\ call'.first = call.first /\ call'.refused = call.refused /\ call'.state = call.state
    BY <1>1, <2>1, GoesOnTells, Commands
  <2>3. away' \subseteq {1, 2} /\ away \subseteq away' /\ Nth' = Nth /\ (Nth \notin away' => ~moved)
    BY <1>5, <2>2 DEF IInv, TypeOK, Nth
  <2>4. TypeOK'
    BY <1>1, <1>5, <2>1, <2>3, GoesOnType, Commands DEF IInv, TypeOK, Apart
  <2>5. InTurn' /\ SeesTruly'
    BY <1>1, <1>5, <2>2 DEF IInv, InTurn, SeesTruly, CleanAt, repository, aux, AfterIndex, AfterCached,
       AfterFiles, AfterOthers, AfterHash, BeforeCompare, AfterHead
  <2>6. Moment'
    BY <1>1, <1>5, <2>2, <2>3 DEF IInv, Moment, WasClean, repository, aux
  <2>7. Undisturbed'
    BY <1>1, <1>5, <2>2 DEF IInv, Undisturbed, Found, repository, aux, AfterIndex, AfterCached,
       AfterFiles, AfterOthers, AfterHash, AfterHead
  <2> QED
    BY <1>1, <2>2, <2>4, <2>5, <2>6, <2>7, NotYetEnded DEF IInv
<1> QED
  BY <1>2, <1>3, <1>4, <1>5 DEF HeadAgain

(* After the first look the contents are read, and it is kept for the      *)
(* second one.                                                             *)
LEMMA BlobsKeeps == IInv /\ Blobs => IInv'
<1> SUFFICES ASSUME IInv, Blobs PROVE IInv'
  OBVIOUS
<1>1. CASE Fail({"repository"})
  BY <1>1, FailKeeps DEF Classes
<1>2. CASE Go([call EXCEPT !.at = "head", !.first = {call.seen}, !.seen = Blank, !.saw = 0])
  <2>1. call.at = "blobs" /\ call \in CallState /\ call.seen \in Snapshot /\ Blank \in Snapshot /\ Blank.stamp = 0
    BY BlankType DEF Blobs, At, IInv, TypeOK, CallState
  <2>2. /\ call' \in CallState /\ call'.at = "head" /\ call'.seen = Blank /\ call'.saw = 0
        /\ call'.first = {call.seen} /\ call'.refused = call.refused /\ call'.state = call.state
    BY <1>2, <2>1 DEF Go, CallState
  <2>3. TypeOK'
    BY <1>2, <2>2 DEF Go, IInv, TypeOK, repository, aux
  <2>4. InTurn' /\ SeesTruly' /\ Moment'
    BY <1>2, <2>1, <2>2 DEF Go, IInv, TypeOK, InTurn, SeesTruly, Moment, WasClean, CleanAt, repository, aux,
       AfterIndex, AfterCached, AfterFiles, AfterOthers, AfterHash, BeforeCompare, AfterHead
  <2>5. Undisturbed'
    BY <1>2, <2>1, <2>2 DEF Go, IInv, Undisturbed, Found, repository, aux, AfterIndex, AfterCached,
       AfterFiles, AfterOthers, AfterHash, AfterHead
  <2> QED
    BY <2>1, <2>2, <2>3, <2>4, <2>5, NotYetEnded DEF IInv
<1> QED
  BY <1>1, <1>2 DEF Blobs

(* What the snapshot shows of a repository that nobody disturbs.           *)
LEMMA FoundShows ==
  ASSUME NEW s \in Snapshot, Found(s), worktree \in Files
  PROVE  /\ Modified(s) <=> Tree[head].source # index.source
         /\ Stray(s) <=> worktree.stray
         /\ "artifact" \in s.untracked <=> ~index.artifact /\ worktree.artifact # "none"
<1>1. "source" \in s.staged <=> Tree[head].source # index.source
  BY DEF Found, Staged
<1>2. "source" \notin s.unstaged
  BY DEF Found, Unstaged, Differing, Only
<1>3. Stray(s) <=> worktree.stray
  BY DEF Found, Stray, Untracked, Only
<1>4. "artifact" \in s.untracked <=> ~index.artifact /\ worktree.artifact # "none"
  BY DEF Found, Untracked, Only
<1> QED
  BY <1>1, <1>2, <1>3, <1>4 DEF Modified

(* The snapshot is checked, and the artifact looked at. A call that nobody *)
(* disturbs refuses what is wrong with the repository, and nothing else;   *)
(* one of the two looks was true when the files were hashed.               *)
LEMMA CheckKeeps == IInv /\ Check => IInv'
<1> SUFFICES ASSUME IInv, Check PROVE IInv'
  OBVIOUS
<1> DEFINE s == call.seen
           tracked  == s.index.artifact /\ worktree.artifact # "file"
           listed   == "artifact" \in s.untracked /\ worktree.artifact # "file"
           refused  == Nth = 1 /\ (tracked \/ s.index.flag # "H")
           accepted == ~tracked /\ ~listed /\ ~refused /\ ~Modified(s) /\ ~Stray(s)
           result   == [commit |-> s.head, digest |-> ComputeEntries(s.index)]
<1>1. /\ call.at = "check" /\ s \in Snapshot /\ call \in CallState /\ worktree \in Files /\ index \in Index
      /\ call.at \in AfterHash /\ call.refused = {} /\ call.state = {} /\ ~faulted /\ call.first \subseteq {s}
  BY DEF Check, At, IInv, TypeOK, InTurn, CallState, AfterHash
<1>2. deeds = 0 => Found(s)
  BY <1>1 DEF IInv, Undisturbed
<1>3. CASE Broken({"unsafe"})
  BY <1>3, FailKeeps DEF Classes
<1>4. CASE (refused \/ (~Modified(s) /\ (listed \/ (tracked /\ ~Stray(s))))) /\ Refuse("unsafe")
  <2>1. ASSUME deeds = 0 PROVE "unsafe" \in faults
    <3>1. s.index = index
      BY <1>2, <2>1 DEF Found
    <3>2. CASE tracked
      BY <2>1, <3>1, <3>2, FaultsAre
    <3>3. CASE listed
      <4>1. worktree.artifact = "link"
        BY <1>1, <1>2, <2>1, <3>3, FoundShows DEF Files
      <4> QED
        BY <2>1, <4>1, FaultsAre
    <3>4. CASE s.index.flag # "H"
      BY <1>1, <2>1, <3>1, <3>4, FaultsAre DEF Index
    <3> QED
      BY <1>4, <3>2, <3>3, <3>4
  <2> QED
    BY <1>4, <2>1, RefuseKeeps
<1>5. CASE (Modified(s) \/ Stray(s)) /\ ~refused /\ Refuse("dirty")
  <2>1. ASSUME deeds = 0 PROVE "dirty" \in faults
    BY <1>1, <1>2, <1>5, <2>1, FoundShows, FaultsAre
  <2> QED
    BY <1>5, <2>1, RefuseKeeps
<1>6. CASE accepted /\ Nth = 1 /\ Go(Then("blobs"))
  <2>1. GoesOn("blobs", s)
    BY <1>1, <1>6 DEF Go, Then, GoesOn, CallState
  <2>2. /\ call'.at = "blobs" /\ call'.seen = s /\ call'.saw = call.saw
        /\ call'.first = call.first /\ call'.refused = call.refused /\ call'.state = call.state
    BY <1>1, <2>1, GoesOnTells, Commands
  <2>3. TypeOK'
    BY <1>1, <1>6, <2>1, GoesOnType, Commands DEF Go, IInv, TypeOK, Apart
  <2>4. call.first = {} /\ "source" \notin s.staged /\ s.index.flag = "H"
    BY <1>6 DEF Nth, NoSnapshot, Modified
  <2>5. InTurn' /\ SeesTruly'
    BY <1>1, <1>6, <2>2, <2>4 DEF Go, IInv, InTurn, SeesTruly, CleanAt, repository, aux, AfterIndex, AfterCached,
       AfterFiles, AfterOthers, AfterHash, BeforeCompare, AfterHead
  <2>6. Moment'
    BY <1>1, <1>6, <2>2, <2>4 DEF Go, IInv, Moment, WasClean, repository, aux
  <2>7. Undisturbed'
    BY <1>1, <1>6, <2>2, <2>4 DEF Go, IInv, Undisturbed, Found, repository, aux, AfterIndex, AfterCached,
       AfterFiles, AfterOthers, AfterHash, AfterHead
  <2> QED
    BY <1>1, <2>2, <2>3, <2>5, <2>6, <2>7, NotYetEnded DEF IInv
<1>7. CASE accepted /\ Nth # 1 /\ Go([Idle EXCEPT !.at = "done", !.state = {result}])
  <2>1. /\ call'.at = "done" /\ call'.seen = Blank /\ call'.saw = 0 /\ call'.first = {}
        /\ call'.refused = {} /\ call'.state = {result}
    BY <1>7 DEF Go, Idle, NoSnapshot
  <2>2. Blank \in Snapshot /\ Blank.stamp = 0
    BY BlankType DEF IInv, TypeOK
  <2>3. call.first = {s} /\ Nth = 2 /\ "source" \notin s.staged
    BY <1>1, <1>7 DEF Nth, NoSnapshot, Modified
  <2>4. result \in [commit : Commit, digest : Blob]
    BY <1>1 DEF Snapshot, Index, ComputeEntries
  <2>5. TypeOK'
    <3>1. call' \in CallState
      BY <1>7, <2>2, <2>4 DEF Go, Idle, NoSnapshot, CallState
    <3> QED
      BY <1>7, <3>1 DEF Go, IInv, TypeOK, repository, aux
  <2>6. InTurn' /\ SeesTruly' /\ Moment'
    BY <1>7, <2>1, <2>2 DEF Go, IInv, TypeOK, InTurn, SeesTruly, Moment, WasClean, CleanAt, Snapshot, repository, aux,
       AfterIndex, AfterCached, AfterFiles, AfterOthers, AfterHash, BeforeCompare, AfterHead
  <2>7. Undisturbed'
    BY <1>7, <2>1, <2>2 DEF Go, IInv, Undisturbed, Found, repository, aux, AfterIndex, AfterCached,
       AfterFiles, AfterOthers, AfterHash, AfterHead
  <2>8. StateWasClean'
    <3>1. away # {1, 2} => 1 \notin away \/ 2 \notin away
      BY DEF IInv, TypeOK
    <3>2. away # {1, 2} => WasClean(s)
      BY <1>1, <2>3, <3>1 DEF IInv, Moment
    <3> QED
      BY <1>7, <2>1, <3>2 DEF Go, StateWasClean, WasClean, ComputeEntries, aux
  <2>9. RefusalIsEarned'
    <3>1. ASSUME deeds = 0 PROVE faults = {}
      <4>1. Found(s) /\ index.flag = "H"
        BY <1>2, <2>3, <3>1 DEF IInv, Undisturbed
      <4>2. "dirty" \notin faults
        BY <1>1, <1>7, <3>1, <4>1, FoundShows, FaultsAre DEF Found
      <4>3. "unsafe" \notin faults
        BY <1>1, <1>7, <3>1, <4>1, FoundShows, FaultsAre DEF Found, Files
      <4> QED
        BY <3>1, <4>2, <4>3, FaultsAre
    <3> QED
      BY <1>7, <2>1, <3>1 DEF Go, RefusalIsEarned, aux
  <2> QED
    BY <2>5, <2>6, <2>7, <2>8, <2>9 DEF IInv
<1> HIDE DEF s, result
<1> QED
  BY <1>3, <1>4, <1>5, <1>6, <1>7 DEF Check, s, result

------------------------------------------------------------------------------
(* The deeds of others.                                                    *)

(* What a deed leaves of the repository: one of the right types, and       *)
(* another stamp if the index was written.                                 *)
Legal ==
  /\ head' \in Commit /\ index' \in Index /\ worktree' \in Files
  /\ (stamp' = stamp /\ index' = index) \/ stamp' = stamp + 1

(* A changed index is one.                                                 *)
LEMMA WrittenType ==
  ASSUME NEW j \in Index, NEW i,
         \/ \E x \in Blob : i = [j EXCEPT !.source = x]
         \/ i = [j EXCEPT !.artifact = ~@] \/ i = [j EXCEPT !.shape = "unfit"] \/ i = [j EXCEPT !.flag = "S"]
  PROVE  i \in Index
<1>1. CASE \/ \E x \in Blob : i = [j EXCEPT !.source = x]
           \/ i = [j EXCEPT !.shape = "unfit"] \/ i = [j EXCEPT !.flag = "S"]
  BY <1>1 DEF Index
<1>2. CASE i = [j EXCEPT !.artifact = ~@]
  <2> DEFINE a == ~j.artifact
  <2>1. a \in BOOLEAN
    BY Zenon
  <2>2. i = [j EXCEPT !.artifact = a]
    BY <1>2
  <2> HIDE DEF a
  <2> QED
    BY <2>1, <2>2 DEF Index
<1> QED
  BY <1>1, <1>2

(* Every deed is legal.                                                    *)
LEMMA OthersLegal ==
  ASSUME TypeOK, Others
  PROVE  Legal /\ \E kind \in Kinds : Deed(kind)
<1>1. ASSUME NEW c \in Commit, MoveHead(c)
      PROVE  Legal /\ \E kind \in Kinds : Deed(kind)
  BY <1>1 DEF MoveHead, TypeOK, Legal, Kinds
<1>2. ASSUME NEW c \in Commit, Checkout(c)
      PROVE  Legal /\ \E kind \in Kinds : Deed(kind)
  <2>1. PICK a \in {"none", "file", "link"} :
          worktree' = [worktree EXCEPT !.source = Tree[c].source, !.artifact = a]
    BY <1>2 DEF Checkout, TypeOK, Files
  <2>2. Tree[c].source \in Blob
    BY InputDigestAssumption
  <2>3. worktree' \in Files
    BY <2>1, <2>2 DEF TypeOK, Files
  <2> QED
    BY <1>2, <2>3, IndexOfType DEF Checkout, Legal, Kinds
<1>3. ASSUME NEW i, WriteIndex(i), \/ \E x \in Blob : i = [index EXCEPT !.source = x]
                                   \/ i = [index EXCEPT !.artifact = ~@]
                                   \/ i = [index EXCEPT !.shape = "unfit"] \/ i = [index EXCEPT !.flag = "S"]
      PROVE  Legal /\ \E kind \in Kinds : Deed(kind)
  BY <1>3, WrittenType DEF WriteIndex, TypeOK, Legal, Kinds
<1>4. ASSUME NEW kind \in Kinds, NEW w \in Files, EditFile(kind, w)
      PROVE  Legal /\ \E k \in Kinds : Deed(k)
  BY <1>4 DEF EditFile, TypeOK, Legal
<1>5. /\ \A x \in Blob \cup {"gone"} : [worktree EXCEPT !.source = x] \in Files
      /\ \A x \in {"none", "file", "link"} : [worktree EXCEPT !.artifact = x] \in Files
  BY DEF TypeOK, Files
<1>6. [worktree EXCEPT !.stray = ~@] \in Files
  <2> DEFINE b == ~worktree.stray
  <2>1. b \in BOOLEAN
    BY Zenon
  <2>2. [worktree EXCEPT !.stray = ~@] = [worktree EXCEPT !.stray = b]
    OBVIOUS
  <2> HIDE DEF b
  <2> QED
    BY <2>1, <2>2 DEF TypeOK, Files
<1>7. {"source", "artifact", "stray"} \subseteq Kinds
  BY DEF Kinds
<1>8. CASE \E c \in Commit : MoveHead(c) \/ Checkout(c)
  BY <1>1, <1>2, <1>8
<1>9. CASE \E i \in {[index EXCEPT !.source = x] : x \in Blob}
                    \cup {[index EXCEPT !.artifact = ~@], [index EXCEPT !.shape = "unfit"], [index EXCEPT !.flag = "S"]} :
             WriteIndex(i)
  BY <1>3, <1>9
<1>10. CASE \/ \E x \in Blob \cup {"gone"} : EditFile("source", [worktree EXCEPT !.source = x])
            \/ \E x \in {"none", "file", "link"} : EditFile("artifact", [worktree EXCEPT !.artifact = x])
            \/ EditFile("stray", [worktree EXCEPT !.stray = ~@])
  BY <1>4, <1>5, <1>6, <1>7, <1>10
<1> QED
  BY <1>8, <1>9, <1>10 DEF Others

(* A deed is counted, and written into the account of clean commits; the   *)
(* call knows what it knew, as the stamp tells of another index and `moved`*)
(* of another commit.                                                      *)
LEMMA OthersKeep == IInv /\ Others => IInv'
<1> SUFFICES ASSUME IInv, Others PROVE IInv'
  OBVIOUS
<1>1. Legal
  BY OthersLegal DEF IInv
<1>2. /\ call' = call /\ faulted' = faulted /\ away' = away /\ call.at # "done"
      /\ deeds' = deeds + 1 /\ moved' = (moved \/ head' # head)
      /\ clean' = IF CleanAt(head', index', worktree') THEN clean \cup {head'} ELSE clean
  BY OthersLegal DEF IInv, Deed
<1>3. deeds' \in Nat /\ deeds' # 0 /\ stamp' \in Nat /\ stamp <= stamp' /\ (stamp' = stamp => index' = index)
  BY <1>1, <1>2 DEF IInv, TypeOK, Legal
<1>4. moved' \in BOOLEAN /\ (~moved' => ~moved /\ head' = head)
  BY <1>2, Zenon
<1>5. clean \subseteq clean' /\ clean' \subseteq Commit /\ (CleanAt(head', index', worktree') => head' \in clean')
  BY <1>1, <1>2 DEF IInv, TypeOK, Legal
<1>6. TypeOK'
  BY <1>1, <1>2, <1>3, <1>4, <1>5 DEF IInv, TypeOK, Legal
<1>7. InTurn'
  BY <1>2 DEF IInv, InTurn
<1>8. call.seen.stamp \in Nat /\ (call.seen.stamp <= stamp)
  BY DEF IInv, TypeOK, SeesTruly, CallState, Snapshot
<1>9. call.seen.stamp <= stamp' /\ (call.seen.stamp = stamp' => call.seen.stamp = stamp /\ index' = index)
  BY <1>1, <1>3, <1>8 DEF IInv, TypeOK, Legal
<1>10. SeesTruly'
  BY <1>2, <1>4, <1>5, <1>9 DEF IInv, SeesTruly
<1>11. Moment'
  BY <1>2, <1>4, <1>5, <1>9 DEF IInv, Moment, WasClean, Nth
<1>12. Undisturbed'
  BY <1>3 DEF Undisturbed
<1> QED
  BY <1>2, <1>6, <1>7, <1>10, <1>11, <1>12, NotYetEnded DEF IInv

------------------------------------------------------------------------------
(* The theorems.                                                           *)

(* What the call may rely on at each command holds in every reachable      *)
(* state, whatever others do to the repository and how often.              *)
THEOREM Invariance == Spec => []IInv
<1>1. IInv /\ [Next]_vars => IInv'
  <2> SUFFICES ASSUME IInv, [Next]_vars PROVE IInv'
    OBVIOUS
  <2>1. CASE Step
    BY <2>1, RootKeeps, HeadKeeps, IndexFileKeeps, IndexReadKeeps, DiffCachedKeeps, DiffFilesKeeps, ListOthersKeeps,
       FingerprintKeeps, IndexReadAgainKeeps, HeadAgainKeeps, CheckKeeps, BlobsKeeps DEF Step
  <2>2. CASE Others
    BY <2>2, OthersKeep
  <2>3. CASE UNCHANGED vars
    BY <2>3 DEF vars, IInv, TypeOK, InTurn, SeesTruly, Moment, WasClean, Nth, Undisturbed, Found,
       StateWasClean, RefusalIsEarned
  <2> QED
    BY <2>1, <2>2, <2>3 DEF Next
<1> QED
  BY InitInv, <1>1, PTL DEF Spec

(* Every reachable state has its type.                                     *)
THEOREM TypeCorrect == Spec => []TypeOK
<1>1. IInv => TypeOK
  BY DEF IInv
<1> QED
  BY Invariance, <1>1, PTL

(* What ComputeState returns was true at some moment of the call: the      *)
(* commit it names was checked out with its source unchanged, in the index *)
(* and in the files, and the digest is that commit's; except that HEAD was *)
(* moved and moved back within each of the two looks.                      *)
THEOREM ReturnedStateWasClean == Spec => []StateWasClean
<1>1. IInv => StateWasClean
  BY DEF IInv
<1> QED
  BY Invariance, <1>1, PTL

(* Nobody is refused for nothing, and what was dirty or unsafe and left    *)
(* alone is never accepted.                                                *)
THEOREM RefusalsAreEarned == Spec => []RefusalIsEarned
<1>1. IInv => RefusalIsEarned
  BY DEF IInv
<1> QED
  BY Invariance, <1>1, PTL

=============================================================================
