----------------------------- MODULE InputDigest -----------------------------
(***************************************************************************)
(* internal/inputdigest: one call of ComputeState, git command by git      *)
(* command, in a repository that others change meanwhile. The call looks   *)
(* at it twice and has no lock: what it returns stands on comparisons.     *)
(*                                                                         *)
(* Three paths stand for all: "source", which the digest is made of; an    *)
(* "artifact" (evidence or generated), which may be tracked or not and is  *)
(* left out of the digest; a "stray", which is neither. A digest is the    *)
(* content of the source, and a commit is what its tree has.               *)
(*                                                                         *)
(* The untracked and the ignored files are listed by two commands; a file  *)
(* is in one of the lists, and they are one step here. What resolves the   *)
(* root of the repository, which stays where it is, can only fail.         *)
(***************************************************************************)
EXTENDS Naturals, FiniteSets

CONSTANTS Blob,    \* contents of the source
          Commit,  \* the commits
          Tree,    \* what each commit has: [source, artifact]
          Meddler  \* who may be at work meanwhile: the kinds of deeds, and how many

Kinds == {"head", "index", "source", "artifact", "stray", "checkout"}

ASSUME InputDigestAssumption ==
  /\ Tree \in [Commit -> [source : Blob, artifact : BOOLEAN]] /\ "gone" \notin Blob
  /\ Meddler \subseteq [kinds : SUBSET Kinds, most : Nat]

VARIABLES head,     \* the commit HEAD names
          index,    \* what the index file says
          stamp,    \* its identity and modification time: no two are equal
          worktree, \* the files
          call,     \* the control state of the call
          meddler,  \* who is at work
          deeds,    \* how often it was
          faulted,  \* some command or system call has failed
          faults,   \* what was wrong with the repository at the beginning
          clean,    \* the commits at which the repository was clean some moment since
          moved,    \* HEAD was moved since this look has read it
          away      \* the looks in which it was moved and came back

repository == <<head, index, stamp, worktree>>
aux  == <<meddler, deeds, faults, clean>>
vars == <<head, index, stamp, worktree, call, meddler, deeds, faulted, faults, clean, moved, away>>

(* The index and the files, of which no more is told apart than this. Shape*)
(* "unfit": a mode, stage or path that is refused. Flag "S": git is told   *)
(* not to look at the source. A source may be gone from the worktree, an   *)
(* artifact be absent ("none"), a file, or a link.                         *)
IndexOf(c) == [source |-> Tree[c].source, artifact |-> Tree[c].artifact, shape |-> "plain", flag |-> "H"]

Only(path, condition) == IF condition THEN {path} ELSE {}

------------------------------------------------------------------------------
(* What git finds. The diff with the files believes what the index says of *)
(* their time and size: it may miss a change.                              *)

Staged(h, i) == {path \in {"source", "artifact"} : Tree[h][path] # i[path]}

Differing(i, w) == Only("source", w.source # i.source) \cup Only("artifact", i.artifact /\ w.artifact # "file")
Unstaged(i, w)  == IF i.flag = "S" THEN {{}} ELSE {Differing(i, w), Differing(i, w) \ {"source"}}

Untracked(i, w) == Only("artifact", ~i.artifact /\ w.artifact # "none") \cup Only("stray", w.stray)

CleanAt(h, i, w) == Tree[h].source = i.source /\ i.source = w.source

(* What is wrong with a repository nobody changes.                         *)
Faults(h, i, w) ==
  Only("dirty", ~CleanAt(h, i, w) \/ w.stray)
  \cup Only("unsafe", \/ i.shape = "unfit" \/ i.flag = "S"
                      \/ w.artifact = "link" \/ (i.artifact /\ w.artifact # "file"))

------------------------------------------------------------------------------
(* The call.                                                               *)

(* repositorySnapshot; the fingerprint of the files is that of the index.  *)
NoSnapshot == {}
Blank == [head |-> CHOOSE c \in Commit : TRUE, stamp |-> 0, index |-> IndexOf(CHOOSE c \in Commit : TRUE),
          staged |-> {}, unstaged |-> {}, untracked |-> {}]

(* "first" is the snapshot of the first look, once it is complete.         *)
Idle == [at |-> "root", seen |-> Blank, saw |-> 0, first |-> NoSnapshot, refused |-> {}, state |-> {}]

Base == {[head |-> c, index |-> IndexOf(c),
          worktree |-> [source |-> Tree[c].source, artifact |-> a, stray |-> FALSE]]
         : c \in Commit, a \in {"none", "file"}}

(* A repository with at most one thing that is not as the commit has it.   *)
Beginnings ==
  Base \cup UNION {{[b EXCEPT !.head = c] : c \in Commit}
                   \cup {[b EXCEPT !.index.source = x] : x \in Blob}
                   \cup {[b EXCEPT !.index.artifact = ~@], [b EXCEPT !.index.shape = "unfit"],
                         [b EXCEPT !.index.flag = "S"]}
                   \cup {[b EXCEPT !.worktree.source = x] : x \in Blob \cup {"gone"}}
                   \cup {[b EXCEPT !.worktree.artifact = "link"], [b EXCEPT !.worktree.stray = TRUE]} : b \in Base}

Init ==
  /\ \E b \in Beginnings : head = b.head /\ index = b.index /\ worktree = b.worktree
  /\ stamp = 0 /\ call = Idle /\ meddler \in Meddler /\ deeds = 0 /\ faulted = FALSE
  /\ faults = Faults(head, index, worktree)
  /\ clean = IF CleanAt(head, index, worktree) THEN {head} ELSE {}
  /\ moved = FALSE /\ away = {}

Nth == IF call.first = NoSnapshot THEN 1 ELSE 2

Go(r) == call' = r /\ UNCHANGED <<repository, aux, faulted, moved, away>>
Refuse(class) == Go([Idle EXCEPT !.at = "done", !.refused = {class}])

At(l) == call.at = l

(* A failure of the step, taken for one of the classes; a git command also *)
(* fails when the context ends.                                            *)
Broken(classes) ==
  /\ \E class \in classes : call' = [Idle EXCEPT !.at = "done", !.refused = {class}]
  /\ faulted' = TRUE /\ UNCHANGED <<repository, aux, moved, away>>
Fail(classes) == Broken(classes \cup {"cancelled"})

Then(l) == [call EXCEPT !.at = l]

Root == At("root") /\ (Go(Then("head")) \/ Fail({"repository"}))

Head ==
  /\ At("head")
  /\ \/ /\ call' = [call EXCEPT !.at = "index", !.seen.head = head]
        /\ moved' = FALSE /\ UNCHANGED <<repository, aux, faulted, away>>
     \/ Fail({"repository"})

(* readRawIndex: the file is the same before and after it is read.         *)
IndexFile ==
  /\ At("index") \/ At("again")
  /\ \/ Go([call EXCEPT !.at = IF @ = "index" THEN "index-end" ELSE "again-end", !.saw = stamp])
     \/ Fail({"repository", "unsafe", "changed"})

(* The commands that follow are given a private copy of the index.         *)
IndexRead ==
  /\ At("index-end")
  /\ \/ call.saw # stamp /\ Refuse("changed")
     \/ call.saw = stamp /\ Go([call EXCEPT !.at = "staged", !.seen.stamp = stamp, !.seen.index = index])
     \/ Fail({"repository", "changed"})

DiffCached ==
  /\ At("staged")
  /\ \/ Go([call EXCEPT !.at = "unstaged", !.seen.staged = Staged(head, call.seen.index)])
     \/ Fail({"repository"})

DiffFiles ==
  /\ At("unstaged")
  /\ \/ \E u \in Unstaged(call.seen.index, worktree) : Go([call EXCEPT !.at = "untracked", !.seen.unstaged = u])
     \/ Fail({"repository"})

ListOthers ==
  /\ At("untracked")
  /\ \/ Go([call EXCEPT !.at = "worktree", !.seen.untracked = Untracked(call.seen.index, worktree)])
     \/ Fail({"repository"})

(* Mutant: the diff is believed.                                           *)
Fingerprint_Believed ==
  /\ At("worktree")
  /\ \/ call.seen.index.shape = "unfit" /\ Refuse("unsafe")
     \/ call.seen.index.shape = "plain" /\ Go(Then("again"))
     \/ Fail({"dirty"})

(* parseIndexEntries, then captureWorktreeFingerprint, which hashes what   *)
(* the diff may have missed.                                               *)
Fingerprint ==
  /\ At("worktree")
  /\ \/ call.seen.index.shape = "unfit" /\ Refuse("unsafe")
     \/ /\ call.seen.index.shape = "plain" /\ worktree.source # call.seen.index.source
        /\ Refuse("dirty")
     \/ /\ call.seen.index.shape = "plain" /\ worktree.source = call.seen.index.source
        /\ Go(Then("again"))
     \/ Fail({"dirty"})

IndexReadAgain ==
  /\ At("again-end")
  /\ \/ (call.saw # stamp \/ stamp # call.seen.stamp) /\ Refuse("changed")
     \/ call.saw = stamp /\ stamp = call.seen.stamp /\ Go(Then("head-again"))
     \/ Fail({"repository", "changed"})

(* HEAD is read again, and the second snapshot compared with the first.    *)
HeadAgain ==
  /\ At("head-again")
  /\ \/ head # call.seen.head /\ Refuse("changed")
     \/ /\ head = call.seen.head
        /\ IF call.first \subseteq {call.seen}
           THEN /\ call' = Then("check")
                /\ away' = IF moved THEN away \cup {Nth} ELSE away
                /\ UNCHANGED <<repository, aux, faulted, moved>>
           ELSE Refuse("changed")
     \/ Fail({"changed"})

(* validateDirtyPaths and isAllowedUntrackedArtifact.                      *)
Modified(s) == "source" \in s.staged \cup s.unstaged

(* Mutant: any untracked path will do.                                     *)
Stray_Allowed(s) == FALSE
Stray(s) == "stray" \in s.untracked

(* The entries are sorted and written with their lengths: nothing but their*)
(* content makes the digest. What validateEntry refuses, the index has not.*)
ComputeEntries(i) == i.source

(* validateTrackedArtifacts, validateIndexFlags and validateSnapshot, which*)
(* the second look calls in another order. Listed files are visited by     *)
(* name. The one look at the files is for the artifact, tracked or listed. *)
Check ==
  LET s == call.seen
      look     == s.index.artifact \/ "artifact" \in s.untracked
      tracked  == s.index.artifact /\ worktree.artifact # "file"
      listed   == "artifact" \in s.untracked /\ worktree.artifact # "file"
      refused  == Nth = 1 /\ (tracked \/ s.index.flag # "H")
      accepted == ~tracked /\ ~listed /\ ~refused /\ ~Modified(s) /\ ~Stray(s)
  IN /\ At("check")
     /\ \/ (refused \/ (~Modified(s) /\ (listed \/ (tracked /\ ~Stray(s))))) /\ Refuse("unsafe")
        \/ (Modified(s) \/ Stray(s)) /\ ~refused /\ Refuse("dirty")
        \/ accepted /\ Go(IF Nth = 1 THEN Then("blobs")
                          ELSE [Idle EXCEPT !.at = "done",
                                            !.state = {[commit |-> s.head, digest |-> ComputeEntries(s.index)]}])
        \/ look /\ Broken({"unsafe"})

(* The contents are read by their object identifiers; then the second look.*)
Blobs ==
  /\ At("blobs")
  /\ \/ Go([call EXCEPT !.at = "head", !.first = {call.seen}, !.seen = Blank, !.saw = 0])
     \/ Fail({"repository"})

Step == Root \/ Head \/ IndexFile \/ IndexRead \/ DiffCached \/ DiffFiles \/ ListOthers
        \/ Fingerprint \/ IndexReadAgain \/ HeadAgain \/ Check \/ Blobs

------------------------------------------------------------------------------
(* The others: git checkout, commit, reset, add, update-index, and editors.*)

Deed(kind) ==
  /\ kind \in meddler.kinds /\ deeds < meddler.most /\ call.at # "done"
  /\ deeds' = deeds + 1
  /\ clean' = IF CleanAt(head', index', worktree') THEN clean \cup {head'} ELSE clean
  /\ moved' = (moved \/ head' # head)
  /\ UNCHANGED <<call, meddler, faulted, faults, away>>

MoveHead(c) == head' = c /\ c # head /\ UNCHANGED <<index, stamp, worktree>> /\ Deed("head")

(* Also with what was in it: git status refreshes it.                      *)
WriteIndex(i) == index' = i /\ stamp' = stamp + 1 /\ UNCHANGED <<head, worktree>> /\ Deed("index")

EditFile(kind, w) == worktree' = w /\ w # worktree /\ UNCHANGED <<head, index, stamp>> /\ Deed(kind)

Checkout(c) ==
  /\ c # head /\ head' = c /\ index' = IndexOf(c) /\ stamp' = stamp + 1
  /\ worktree' = [worktree EXCEPT !.source = Tree[c].source,
                                  !.artifact = IF Tree[c].artifact THEN "file"
                                               ELSE IF index.artifact THEN "none" ELSE @]
  /\ Deed("checkout")

Others ==
  \/ \E c \in Commit : MoveHead(c) \/ Checkout(c)
  \/ \E i \in {[index EXCEPT !.source = x] : x \in Blob}
              \cup {[index EXCEPT !.artifact = ~@], [index EXCEPT !.shape = "unfit"], [index EXCEPT !.flag = "S"]} :
       WriteIndex(i)
  \/ \E x \in Blob \cup {"gone"} : EditFile("source", [worktree EXCEPT !.source = x])
  \/ \E x \in {"none", "file", "link"} : EditFile("artifact", [worktree EXCEPT !.artifact = x])
  \/ EditFile("stray", [worktree EXCEPT !.stray = ~@])

Next == Step \/ Others

Spec == Init /\ [][Next]_vars

------------------------------------------------------------------------------
(* Properties.                                                             *)

(* What ComputeState returns was true: at some moment of the call the      *)
(* commit it names was checked out with its source unchanged, in the index *)
(* and in the files, and the digest is that commit's. No comparison tells  *)
(* that HEAD was moved and moved back within each of the two looks.        *)
StateWasClean ==
  \A s \in call.state :
    away # {1, 2} => s.commit \in clean /\ s.digest = Tree[s.commit].source

(* Nobody is refused for nothing: the state is said to have changed only   *)
(* if somebody changed it, the repository is called dirty or unsafe only   *)
(* if it was, or was changed, and nothing else stops the call but a failed *)
(* command or call, or the end of the context; and what was dirty or unsafe*)
(* and left alone is never accepted.                                       *)
RefusalIsEarned ==
  /\ ~faulted => \A class \in call.refused :
       /\ class \in {"changed", "dirty", "unsafe"}
       /\ deeds = 0 => class \in faults
  /\ call.state # {} /\ deeds = 0 => faults = {}
------------------------------------------------------------------------------
(* The inductive invariant: what the call may rely on at each command.     *)

Paths    == {"source", "artifact", "stray"}
Index    == [source : Blob, artifact : BOOLEAN, shape : {"plain", "unfit"}, flag : {"H", "S"}]
Files    == [source : Blob \cup {"gone"}, artifact : {"none", "file", "link"}, stray : BOOLEAN]
Snapshot == [head : Commit, stamp : Nat, index : Index,
             staged : SUBSET Paths, unstaged : SUBSET Paths, untracked : SUBSET Paths]

(* The commands that follow a command of one look.                         *)
AfterHash     == {"again", "again-end", "head-again", "check", "blobs"}
AfterOthers   == AfterHash \cup {"worktree"}
AfterFiles    == AfterOthers \cup {"untracked"}
AfterCached   == AfterFiles \cup {"unstaged"}
AfterIndex    == AfterCached \cup {"staged"}
AfterHead     == AfterIndex \cup {"index", "index-end"}
BeforeCompare == AfterHead \ {"check", "blobs"}

Classes   == {"repository", "unsafe", "dirty", "changed", "cancelled"}
CallState == [at : AfterHead \cup {"root", "head", "done"}, seen : Snapshot, saw : Nat, first : SUBSET Snapshot,
              refused : SUBSET Classes, state : SUBSET [commit : Commit, digest : Blob]]

(* Every variable has its type.                                            *)
TypeOK ==
  /\ head \in Commit /\ index \in Index /\ stamp \in Nat /\ worktree \in Files
  /\ call \in CallState
  /\ deeds \in Nat /\ faulted \in BOOLEAN /\ clean \subseteq Commit /\ moved \in BOOLEAN /\ away \subseteq {1, 2}

(* The results are of a call that has ended, a first snapshot is of one    *)
(* that is in its second look, and nothing goes on after a failure.        *)
InTurn ==
  /\ call.at # "done" => call.refused = {} /\ call.state = {} /\ ~faulted
  /\ call.at \in {"root", "blobs"} => call.first = {}
  /\ call.at = "check" => call.first \subseteq {call.seen}

(* A commit is in the account when it is clean; the index a look has read  *)
(* is the index as long as the stamp is the same; the commit it has read   *)
(* is checked out as long as HEAD is not moved, and was compared.          *)
SeesTruly ==
  /\ CleanAt(head, index, worktree) => head \in clean
  /\ call.seen.stamp <= stamp
  /\ call.at \in AfterIndex /\ call.seen.stamp = stamp => call.seen.index = index
  /\ call.at \in BeforeCompare /\ ~moved => call.seen.head = head
  /\ call.at \in AfterCached \cap BeforeCompare /\ ~moved =>
       call.seen.staged = Staged(call.seen.head, call.seen.index)

(* The moment that counts is the one at which the files are hashed. What   *)
(* has to be found unchanged later is the condition of what is known of it.*)
WasClean(s) == s.head \in clean /\ s.index.source = Tree[s.head].source

Moment ==
  /\ "source" \notin call.seen.staged =>
       /\ call.at \in {"again", "again-end"} /\ ~moved /\ call.seen.stamp = stamp => WasClean(call.seen)
       /\ call.at = "head-again" /\ ~moved => WasClean(call.seen)
       /\ call.at = "check" /\ Nth \notin away => WasClean(call.seen)
  /\ 1 \notin away => /\ call.at = "blobs" => WasClean(call.seen)
                      /\ \A s \in call.first : WasClean(s)

(* What a look finds that nobody disturbs.                                 *)
Found(s) ==
  /\ s.head = head /\ s.stamp = 0 /\ s.index = index
  /\ s.staged = Staged(head, index) /\ s.unstaged \in Unstaged(index, worktree)
  /\ s.untracked = Untracked(index, worktree)
  /\ index.shape = "plain" /\ worktree.source = index.source

(* Nobody has disturbed the call.                                          *)
Undisturbed ==
  deeds = 0 =>
    /\ stamp = 0 /\ call.saw = 0 /\ call.seen.stamp = 0 /\ faults = Faults(head, index, worktree)
    /\ call.at \in AfterHead => call.seen.head = head
    /\ call.at \in AfterIndex => call.seen.index = index
    /\ call.at \in AfterCached => call.seen.staged = Staged(head, index)
    /\ call.at \in AfterFiles => call.seen.unstaged \in Unstaged(index, worktree)
    /\ call.at \in AfterOthers => call.seen.untracked = Untracked(index, worktree)
    /\ call.at \in AfterHash => Found(call.seen)
    /\ call.first # {} \/ call.at = "blobs" => index.flag = "H"
    /\ \A s \in call.first : Found(s)

IInv == TypeOK /\ InTurn /\ SeesTruly /\ Moment /\ Undisturbed /\ StateWasClean /\ RefusalIsEarned
=============================================================================
