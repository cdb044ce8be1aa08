---------------------------- MODULE ImmutableFile ----------------------------
(***************************************************************************)
(* internal/immutablefile/write.go: concurrent calls of WriteNoReplace on  *)
(* names of one directory, on a file system that keeps directory entries   *)
(* and file data in memory until they are synchronized (or written back at *)
(* a time of its own choosing) and loses the rest in a crash.              *)
(*                                                                         *)
(* One action is one call into the file system together with the checks    *)
(* made right before it (the context, the parent's identity): the checks   *)
(* only read, and nothing but the caller's own control depends on them.    *)
(***************************************************************************)
EXTENDS Naturals

CONSTANTS Writer,   \* the calls of WriteNoReplace, each with its own content
          Name,     \* the destinations, all in one parent directory
          None,     \* no file
          Dest,     \* the destination of each call
          Threat    \* what the environment may do, a subset of Threats

Threats == {"io",       \* any call into the operating system may fail
            "cancel",   \* the caller's context may be cancelled
            "swap",     \* the parent's path may come to name another directory
            "sweep",    \* somebody may delete a temporary file
            "crash"}    \* the machine may stop

ASSUME ImmutableFileAssumption ==
  /\ None \notin Writer
  /\ Dest \in [Writer -> Name]
  /\ Threat \subseteq Threats

VARIABLES target,     \* the directory in memory: whose file each name holds
          temp,       \* the directory in memory: is the temporary file there
          targetDisk, \* the entries of target that are on the disk
          tempDisk,   \* the entries of temp that are on the disk
          data,       \* what the file of each call contains
          dataDisk,   \* what of it is on the disk
          anchored,   \* the parent's path names the directory that was opened
          cancelled,  \* the context of each call
          call        \* the control state of each call, and its result

fs   == <<target, temp, targetDisk, tempDisk, data, dataDisk>>
env  == <<anchored, cancelled>>
vars == <<target, temp, targetDisk, tempDisk, data, dataDisk, anchored, cancelled, call>>

Stage == {"none", "validate-path", "create-temp", "set-mode", "write", "short-write",
          "sync-file", "close-file", "install", "sync-install", "remove-temp",
          "sync-cleanup", "close-directory"}

Cause == {"exists", "cancelled", "unsafe", "io"}

(* The calls into the file system still to come, in their order on a call  *)
(* that meets no failure, then the failing path, then the three ends.      *)
Running == {"create-temp", "set-mode", "write", "sync-file", "close-file", "install",
            "sync-install", "remove-temp", "sync-cleanup",
            "cleanup", "cleanup-sync"}
Label == {"idle"} \cup Running \cup {"returned", "crashed"}

Content == {"empty", "part", "full"}

(* A call's result is nil exactly if no cause was joined to it.            *)
Call == [pc : Label, stage : Stage, installed : BOOLEAN, causes : SUBSET Cause, tries : 0 .. 2]

TypeOK ==
  /\ target \in [Name -> Writer \cup {None}] /\ targetDisk \in [Name -> Writer \cup {None}]
  /\ temp \in [Writer -> BOOLEAN] /\ tempDisk \in [Writer -> BOOLEAN]
  /\ data \in [Writer -> Content] /\ dataDisk \in [Writer -> Content]
  /\ anchored \in BOOLEAN /\ cancelled \in [Writer -> BOOLEAN]
  /\ call \in [Writer -> Call]

At(w, l) == call[w].pc = l
Returned(w) == At(w, "returned")
Succeeded(w) == Returned(w) /\ call[w].causes = {}

IOFault == "io" \in Threat

Init ==
  /\ target = [n \in Name |-> None] /\ targetDisk = [n \in Name |-> None]
  /\ temp = [w \in Writer |-> FALSE] /\ tempDisk = [w \in Writer |-> FALSE]
  /\ data = [w \in Writer |-> "empty"] /\ dataDisk = [w \in Writer |-> "empty"]
  /\ anchored = TRUE
  /\ cancelled = [w \in Writer |-> FALSE]
  /\ call = [w \in Writer |-> [pc |-> "idle", stage |-> "none", installed |-> FALSE,
                               causes |-> {}, tries |-> 0]]

------------------------------------------------------------------------------
(* How a call moves on.                                                    *)

Goto(w, l) == call' = [call EXCEPT ![w].pc = l]

(* The deferred Close of the parent runs on every return: its error joins  *)
(* the others, or is the only one.                                         *)
ReturnWith(w, stage, causes) ==
  \/ call' = [call EXCEPT ![w] = [@ EXCEPT !.pc = "returned", !.stage = stage, !.causes = causes]]
  \/ /\ IOFault
     /\ call' = [call EXCEPT ![w] =
                   [@ EXCEPT !.pc = "returned", !.causes = causes \cup {"io"},
                             !.stage = IF causes = {} THEN "close-directory" ELSE stage]]

(* validateDestination and openParent fail before there is a parent to close. *)
RefuseWith(w, causes) ==
  call' = [call EXCEPT ![w] =
            [@ EXCEPT !.pc = "returned", !.stage = "validate-path", !.causes = causes]]

CleanupAfter(w, stage, causes, tries) ==
  call' = [call EXCEPT ![w] =
            [@ EXCEPT !.pc = "cleanup", !.stage = stage,
                      !.causes = call[w].causes \cup causes, !.tries = tries]]

(* Before the temporary file is closed a failure closes it first.          *)
FailBeforeInstall(w, stage, causes) ==
  \/ CleanupAfter(w, stage, causes, 2)
  \/ IOFault /\ CleanupAfter(w, "close-file", causes \cup {"io"}, 2)

(* Mutant: the directory is not synchronized.                              *)
SyncDirectory_Dropped == UNCHANGED fs

SyncDirectory ==
  /\ targetDisk' = target
  /\ tempDisk' = temp
  /\ UNCHANGED <<target, temp, data, dataDisk>>

------------------------------------------------------------------------------
(* The steps of one call.                                                  *)

(* Look at the context, the path, the parent and the destination.          *)
Begin(w) ==
  /\ At(w, "idle")
  /\ \/ cancelled[w] /\ RefuseWith(w, {"cancelled"})
     \/ ~cancelled[w] /\ (~anchored \/ IOFault) /\ RefuseWith(w, {"unsafe"})
     \/ ~cancelled[w] /\ (~anchored \/ IOFault) /\ ReturnWith(w, "validate-path", {"unsafe"})
     \/ /\ ~cancelled[w] /\ anchored /\ target[Dest[w]] # None
        /\ ReturnWith(w, "validate-path", {"exists"})
     \/ /\ ~cancelled[w] /\ anchored /\ target[Dest[w]] = None
        /\ Goto(w, "create-temp")
  /\ UNCHANGED <<fs, env>>

CreateTemp(w) ==
  /\ At(w, "create-temp")
  /\ \/ IOFault /\ ReturnWith(w, "create-temp", {"io"}) /\ UNCHANGED temp
     \/ temp' = [temp EXCEPT ![w] = TRUE] /\ Goto(w, "set-mode")
  /\ UNCHANGED <<target, targetDisk, tempDisk, data, dataDisk, env>>

SetMode(w) ==
  /\ At(w, "set-mode")
  /\ \/ cancelled[w] /\ FailBeforeInstall(w, "set-mode", {"cancelled"})
     \/ ~cancelled[w] /\ IOFault /\ FailBeforeInstall(w, "set-mode", {"io"})
     \/ ~cancelled[w] /\ Goto(w, "write")
  /\ UNCHANGED <<fs, env>>

Write(w) ==
  /\ At(w, "write")
  /\ \/ cancelled[w] /\ FailBeforeInstall(w, "write", {"cancelled"}) /\ UNCHANGED data
     \/ /\ ~cancelled[w] /\ IOFault
        /\ data' = [data EXCEPT ![w] = "part"]
        /\ \E stage \in {"write", "short-write"} : FailBeforeInstall(w, stage, {"io"})
     \/ /\ ~cancelled[w]
        /\ data' = [data EXCEPT ![w] = "full"]
        /\ Goto(w, "sync-file")
  /\ UNCHANGED <<target, temp, targetDisk, tempDisk, dataDisk, env>>

(* Mutant: the file is closed without a sync.                              *)
SyncFile_Dropped(w) ==
  /\ At(w, "sync-file")
  /\ IF cancelled[w] THEN FailBeforeInstall(w, "sync-file", {"cancelled"}) ELSE Goto(w, "close-file")
  /\ UNCHANGED <<fs, env>>

SyncFile(w) ==
  /\ At(w, "sync-file")
  /\ \/ cancelled[w] /\ FailBeforeInstall(w, "sync-file", {"cancelled"}) /\ UNCHANGED dataDisk
     \/ /\ ~cancelled[w] /\ IOFault
        /\ FailBeforeInstall(w, "sync-file", {"io"})
        /\ UNCHANGED dataDisk
     \/ /\ ~cancelled[w]
        /\ dataDisk' = [dataDisk EXCEPT ![w] = data[w]]
        /\ Goto(w, "close-file")
  /\ UNCHANGED <<target, temp, targetDisk, tempDisk, data, env>>

(* Stat the synchronized file, which must be a regular one, and close it.  *)
CloseFile(w) ==
  /\ At(w, "close-file")
  /\ \/ IOFault /\ \E cause \in {"io", "unsafe"} : FailBeforeInstall(w, "install", {cause})
     \/ IOFault /\ CleanupAfter(w, "close-file", {"io"}, 2)
     \/ Goto(w, "install")
  /\ UNCHANGED <<fs, env>>

(* Mutant: rename(2), which replaces.                                      *)
LinkAllowed_Rename(w) == TRUE

(* Does link(2) find the name free?                                        *)
LinkAllowed(w) == target[Dest[w]] = None

InstalledWith(w, causes) ==
  call' = [call EXCEPT ![w] = [@ EXCEPT !.pc = "sync-install", !.installed = TRUE,
                                        !.causes = call[w].causes \cup causes]]

(* Mutant: the reported error is believed, the target is not looked at.    *)
Linked_ErrorBelieved(w) ==
  /\ LinkAllowed(w)
  /\ target' = [target EXCEPT ![Dest[w]] = w]
  /\ InstalledWith(w, {}) \/ (IOFault /\ CleanupAfter(w, "install", {"io"}, 2))

(* The link is made.  Its call may all the same report a failure, or the   *)
(* look at the new entry may fail: the identity of the target decides, and *)
(* a call that could not look after a failed link takes it as not made.    *)
Linked(w) ==
  /\ LinkAllowed(w)
  /\ target' = [target EXCEPT ![Dest[w]] = w]
  /\ \/ InstalledWith(w, {})
     \/ IOFault /\ (InstalledWith(w, {"io"}) \/ InstalledWith(w, {"unsafe"}))
     \/ IOFault /\ CleanupAfter(w, "install", {"io", "unsafe"}, 2)

NotLinked(w) ==
  /\ UNCHANGED target
  /\ \/ ~LinkAllowed(w) /\ CleanupAfter(w, "install", {"exists"}, 2)
     \/ ~LinkAllowed(w) /\ IOFault /\ CleanupAfter(w, "install", {"exists", "unsafe"}, 2)
     \/ IOFault /\ \E causes \in {{"io"}, {"io", "unsafe"}} : CleanupAfter(w, "install", causes, 2)

Install(w) ==
  /\ At(w, "install")
  /\ \/ cancelled[w] /\ CleanupAfter(w, "install", {"cancelled"}, 2) /\ UNCHANGED target
     \/ /\ ~cancelled[w] /\ (~anchored \/ ~temp[w] \/ IOFault)
        /\ CleanupAfter(w, "install", {"unsafe"}, 2)
        /\ UNCHANGED target
     \/ ~cancelled[w] /\ anchored /\ temp[w] /\ (Linked(w) \/ NotLinked(w))
  /\ UNCHANGED <<temp, targetDisk, tempDisk, data, dataDisk, env>>

SyncInstall(w) ==
  /\ At(w, "sync-install")
  /\ \/ /\ \/ (~anchored \/ IOFault) /\ CleanupAfter(w, "sync-install", {"unsafe"}, 2)
           \/ anchored /\ cancelled[w] /\ CleanupAfter(w, "sync-install", {"cancelled"}, 2)
           \/ /\ anchored /\ ~cancelled[w] /\ IOFault
              /\ CleanupAfter(w, "sync-install", {"io"}, 2)
        /\ UNCHANGED fs
     \/ /\ anchored /\ ~cancelled[w]
        /\ SyncDirectory
        /\ Goto(w, "remove-temp")
  /\ UNCHANGED env

(* Here, unlike in the cleanup, a name that is gone already is a failure.  *)
RemoveTemp(w) ==
  /\ At(w, "remove-temp")
  /\ \/ /\ ~temp[w] \/ IOFault
        /\ CleanupAfter(w, "remove-temp", {"io"}, 1)
        /\ UNCHANGED temp
     \/ /\ temp[w]
        /\ temp' = [temp EXCEPT ![w] = FALSE]
        /\ Goto(w, "sync-cleanup")
  /\ UNCHANGED <<target, targetDisk, tempDisk, data, dataDisk, env>>

(* What the last look at the context and at the parent's path adds.        *)
LastCheck(w) ==
  (IF cancelled[w] THEN {"cancelled"} ELSE {}) \cup (IF anchored THEN {} ELSE {"unsafe"})

(* The second sync makes the removal last.  An error of a link that was    *)
(* made after all comes back only now, at the stage install.               *)
SyncCleanup(w) ==
  /\ At(w, "sync-cleanup")
  /\ \/ /\ SyncDirectory
        /\ \E late \in {{}} \cup IF IOFault THEN {{"unsafe"}} ELSE {} :
             LET completion == LastCheck(w) \cup late IN
             ReturnWith(w,
                        CASE completion # {} -> "sync-cleanup"
                          [] completion = {} /\ call[w].causes # {} -> "install"
                          [] OTHER -> "none",
                        call[w].causes \cup completion)
     \/ /\ IOFault
        /\ ReturnWith(w, "sync-cleanup", call[w].causes \cup LastCheck(w) \cup {"io"})
        /\ UNCHANGED fs
  /\ UNCHANGED env

(* Mutants: the stage keeps quiet about the failed removal; the attempts   *)
(* are one too many; the attempts start over when they are used up.        *)
RemovalFailed_Silent(c) ==
  [c EXCEPT !.tries = @ - 1, !.causes = @ \cup {"io"},
            !.pc = IF c.tries > 1 THEN "cleanup" ELSE "cleanup-sync"]
RemovalFailed_OneMore(c) ==
  [c EXCEPT !.tries = @ - 1, !.stage = "remove-temp", !.causes = @ \cup {"io"},
            !.pc = IF c.tries >= 1 THEN "cleanup" ELSE "cleanup-sync"]
RemovalFailed_StartsOver(c) ==
  [c EXCEPT !.tries = IF c.tries > 1 THEN @ - 1 ELSE 2,
            !.stage = "remove-temp", !.causes = @ \cup {"io"}]

(* cleanupFailure: up to two attempts to remove the name, one if the call  *)
(* has already made one; the removal that fails sets the stage.            *)
RemovalFailed(c) ==
  [c EXCEPT !.tries = @ - 1, !.stage = "remove-temp", !.causes = @ \cup {"io"},
            !.pc = IF c.tries > 1 THEN "cleanup" ELSE "cleanup-sync"]

CleanupRemove(w) ==
  /\ At(w, "cleanup")
  /\ \/ temp' = [temp EXCEPT ![w] = FALSE] /\ Goto(w, "cleanup-sync")
     \/ /\ IOFault
        /\ call' = [call EXCEPT ![w] = RemovalFailed(call[w])]
        /\ UNCHANGED temp
  /\ UNCHANGED <<target, targetDisk, tempDisk, data, dataDisk, env>>

CleanupSync(w) ==
  /\ At(w, "cleanup-sync")
  /\ \/ SyncDirectory /\ ReturnWith(w, call[w].stage, call[w].causes)
     \/ /\ IOFault
        /\ ReturnWith(w, "sync-cleanup", call[w].causes \cup {"io"})
        /\ UNCHANGED fs
  /\ UNCHANGED env

Step(w) ==
  \/ Begin(w) \/ CreateTemp(w) \/ SetMode(w) \/ Write(w) \/ SyncFile(w) \/ CloseFile(w)
  \/ Install(w) \/ SyncInstall(w) \/ RemoveTemp(w) \/ SyncCleanup(w)
  \/ CleanupRemove(w) \/ CleanupSync(w)

------------------------------------------------------------------------------
(* The environment: the caller, other programs, and the file system.       *)

Cancel(w) ==
  /\ "cancel" \in Threat /\ ~cancelled[w] /\ call[w].pc \in {"idle"} \cup Running
  /\ cancelled' = [cancelled EXCEPT ![w] = TRUE]
  /\ UNCHANGED <<fs, anchored, call>>

SwapParent ==
  /\ "swap" \in Threat
  /\ anchored' = ~anchored
  /\ UNCHANGED <<fs, cancelled, call>>

Sweep(w) ==
  /\ "sweep" \in Threat /\ temp[w]
  /\ temp' = [temp EXCEPT ![w] = FALSE]
  /\ UNCHANGED <<target, targetDisk, tempDisk, data, dataDisk, env, call>>

(* The file system writes one entry, or one file, back on its own.         *)
WriteBack ==
  /\ "crash" \in Threat
  /\ \/ /\ \E n \in Name : targetDisk' = [targetDisk EXCEPT ![n] = target[n]]
        /\ UNCHANGED <<tempDisk, dataDisk>>
     \/ /\ \E w \in Writer : tempDisk' = [tempDisk EXCEPT ![w] = temp[w]]
        /\ UNCHANGED <<targetDisk, dataDisk>>
     \/ /\ \E w \in Writer : dataDisk' = [dataDisk EXCEPT ![w] = data[w]]
        /\ UNCHANGED <<targetDisk, tempDisk>>
  /\ UNCHANGED <<target, temp, data, env, call>>

(* What is on the disk is all there is; a call that ran is over.  Calls    *)
(* that have not begun are those made after the restart.                   *)
Crash ==
  /\ "crash" \in Threat
  /\ target' = targetDisk /\ temp' = tempDisk /\ data' = dataDisk
  /\ call' = [w \in Writer |-> IF call[w].pc \in Running
                               THEN [call[w] EXCEPT !.pc = "crashed"] ELSE call[w]]
  /\ UNCHANGED <<targetDisk, tempDisk, dataDisk, env>>

Next ==
  \/ \E w \in Writer : Step(w) \/ Cancel(w) \/ Sweep(w)
  \/ SwapParent \/ WriteBack \/ Crash

Spec == Init /\ [][Next]_vars

(* A call is sequential code that waits for nobody, and the operating      *)
(* system answers every call it makes.                                     *)
FairSpec == Spec /\ \A w \in Writer : WF_vars(Step(w))

------------------------------------------------------------------------------
(* Properties.                                                             *)

Durable(w) ==
  /\ target[Dest[w]] = w /\ targetDisk[Dest[w]] = w
  /\ data[w] = "full" /\ dataDisk[w] = "full"

(* A call that reported success left its file under its name for good:     *)
(* the entry and the whole content are on the disk, so no crash loses them *)
(* and no later call replaces them.                                        *)
SuccessIsDurable == \A w \in Writer : Succeeded(w) => Durable(w)

(* Whoever looks at a name, also after a crash, finds no file or all of    *)
(* one: the link is made only once the content is on the disk.             *)
NeverPartial ==
  \A n \in Name : target[n] # None => data[target[n]] = "full" /\ dataDisk[target[n]] = "full"

Residue(w) == Returned(w) /\ (temp[w] \/ tempDisk[w])

(* A call that returned leaves no temporary file behind, not even one that *)
(* a later crash brings back, unless the stage of its error says that the  *)
(* cleanup failed.                                                         *)
ResidueIsReported ==
  \A w \in Writer : Residue(w) => call[w].stage \in {"remove-temp", "sync-cleanup"}

(* What a returning call says is so at that moment: installed means its    *)
(* own file stands at the name, "exists" that another's does, and a file   *)
(* is installed unreported only if the link was reported lost and the      *)
(* target could not be looked at.                                          *)
Truthful(w) ==
  /\ call'[w].installed => target[Dest[w]] = w
  /\ "exists" \in call'[w].causes => target[Dest[w]] \notin {None, w}
  /\ target[Dest[w]] = w /\ ~call'[w].installed => {"io", "unsafe"} \subseteq call'[w].causes

ResultIsTruthful == [][\A w \in Writer : ~Returned(w) /\ Returned(w)' => Truthful(w)]_vars

(* The calls together implement the write-once register: a name changes    *)
(* from absent to one writer's file, is never replaced, and is lost only   *)
(* in a crash and only if nobody was told of it.                           *)
Register == INSTANCE WriteOnce WITH file <- target,
                                    confirmed <- {w \in Writer : Succeeded(w)}
RegisterSpec == Register!Spec

(* The inductive invariant behind the safety properties: what is true of   *)
(* the files and of the disk at each point of a call.                      *)

(* Entries under final names reach the disk late, but are never taken back. *)
DiskFollows == \A n \in Name : targetDisk[n] # None => target[n] = targetDisk[n]

LinkedIsFull ==
  \A n \in Name : target[n] # None =>
    Dest[target[n]] = n /\ data[target[n]] = "full" /\ dataDisk[target[n]] = "full"

BeforeLink(w) ==
  call[w].pc \in {"idle", "create-temp", "set-mode", "write", "sync-file", "close-file", "install"} =>
    target[Dest[w]] # w

ContentReady(w) ==
  /\ At(w, "sync-file") => data[w] = "full"
  /\ call[w].pc \in {"close-file", "install"} => data[w] = "full" /\ dataDisk[w] = "full"

AfterLink(w) ==
  /\ call[w].pc \in {"sync-install", "remove-temp", "sync-cleanup"} => target[Dest[w]] = w
  /\ call[w].pc \in {"remove-temp", "sync-cleanup"} => targetDisk[Dest[w]] = w

TempTracked(w) ==
  /\ call[w].pc \in {"idle", "create-temp"} => ~temp[w] /\ ~tempDisk[w]
  /\ At(w, "sync-cleanup") => ~temp[w]
  /\ At(w, "cleanup-sync") /\ temp[w] => call[w].stage = "remove-temp"

CleanupHasCause(w) ==
  /\ call[w].pc \in {"cleanup", "cleanup-sync"} => call[w].causes # {}
  /\ At(w, "cleanup") => call[w].tries > 0

CallInv(w) ==
  /\ BeforeLink(w) /\ ContentReady(w) /\ AfterLink(w) /\ TempTracked(w) /\ CleanupHasCause(w)
  /\ Succeeded(w) => Durable(w)
  /\ Residue(w) => call[w].stage \in {"remove-temp", "sync-cleanup"}

IInv == TypeOK /\ DiskFollows /\ LinkedIsFull /\ \A w \in Writer : CallInv(w)

(* And what a call, until it returns, knows of its own link: that it was   *)
(* made, unless its report was lost and the target could not be looked at; *)
(* and that another's file was there, if it met one.                       *)
KnowsItsLink(w) ==
  /\ call[w].pc \in {"idle", "create-temp", "set-mode", "write", "sync-file", "close-file", "install"} =>
       ~call[w].installed /\ call[w].causes = {}
  /\ call[w].pc \in {"sync-install", "remove-temp", "sync-cleanup"} => call[w].installed
  /\ call[w].pc \in Running /\ call[w].installed => target[Dest[w]] = w
  /\ call[w].pc \in Running /\ target[Dest[w]] = w /\ ~call[w].installed =>
       {"io", "unsafe"} \subseteq call[w].causes

MetAnother(w) ==
  "exists" \in call[w].causes =>
    /\ ~call[w].installed /\ target[Dest[w]] # w
    /\ call[w].pc \in Running => target[Dest[w]] # None
    /\ call[w].causes = {"exists"} => call[w].stage \in {"validate-path", "install"}

LinkInv == \A w \in Writer : KnowsItsLink(w) /\ MetAnother(w)

(* Every call that begins returns or dies in a crash: the cleanup gives up *)
(* on a name it cannot remove.                                             *)
EveryCallEnds == \A w \in Writer : call[w].pc \in Running ~> call[w].pc \in {"returned", "crashed"}
==============================================================================
