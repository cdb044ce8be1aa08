----------------------------- MODULE SnapshotRun -----------------------------
(***************************************************************************)
(* internal/cli/run.go: invocations of `whiteboard run --required`, one    *)
(* after the other or at the same time, over one evidence root, with what  *)
(* they do to it through internal/evidence (Store.Put, Get, List) and      *)
(* internal/release (WriteManifest, LoadAndSyncManifest, AuditSnapshot),   *)
(* and with the two looks at the repository of internal/inputdigest.       *)
(*                                                                         *)
(* Put and WriteManifest call immutablefile.WriteNoReplace, which module   *)
(* ImmutableFile models call by call: here a write is three steps (the     *)
(* temporary file is there; the file is under its name; the temporary file *)
(* is gone), and a record counts as written once its directory is synced.  *)
(***************************************************************************)
EXTENDS Naturals, FiniteSets

CONSTANTS Run,      \* the invocations
          Cells,    \* how many cells the required matrix has
          None,     \* no manifest
          World,    \* the worlds they run in, a subset of Worlds
          MaxSource \* bound of the model: the number of later commits

Roots == {"repository", \* <root>/evidence, which inputdigest looks at
          "elsewhere"}

Threats == {"io",      \* any call into the operating system may fail
            "fail",    \* experiments may fail
            "edit",    \* other commits may be checked out
            "overlap", \* invocations may overlap
            "crash"}   \* the machine may stop

Options == [snapshot : BOOLEAN, profile : {"smoke", "deep"}]

(* Where the evidence root is, what may happen, what --snapshot and        *)
(* --profile may be, and (a bound of the model) how many invocations begin.*)
Worlds == [root : Roots, threat : SUBSET Threats, option : (SUBSET Options) \ {{}}, most : 0 .. Cardinality(Run)]

ASSUME SnapshotRunAssumption ==
  /\ Cells \in Nat \ {0} /\ MaxSource \in Nat
  /\ World \subseteq Worlds /\ World # {}
  /\ None \notin Run /\ None \notin Run \X {"smoke", "deep"}

VARIABLES world,        \* the world, which does not change
          source,       \* the commit in the worktree: also its input digest
          runsDir,      \* the directory runs/ of the evidence root
          record,       \* the records of each invocation, by cell
          recordTemp,   \* the invocations with a temporary file in runs/
          manifest,     \* whose manifest stands under each digest
          synced,       \* the digests whose manifest is on the disk
          manifestTemp, \* the invocations with a temporary file in releases/
          run           \* the control state of each invocation

files == <<world, runsDir, record, recordTemp, manifest, synced, manifestTemp>>
vars  == <<world, source, runsDir, record, recordTemp, manifest, synced, manifestTemp, run>>

Digest == 0 .. MaxSource
Cell   == 1 .. Cells

Active == {"capture", "confirm", "load", "inspect", "audit", "list", "open-store", "execute",
           "put", "put-clean", "recapture", "reconfirm", "sync-chain", "write", "link",
           "sync-install", "clean", "reinspect"}

(* Exit codes: 0, 2 (argument or load), 4 (release), 5 (lab execution).    *)
Exit == {0, 2, 4, 5}

(* All an inputdigest snapshot is made of: the commit and the names of the *)
(* untracked files, which is where an evidence root in the repository is.  *)
Listing == [records : [Run -> [Cell -> BOOLEAN]], manifests : SUBSET Digest]
View    == [source : Digest, listing : Listing \cup {None}]

RunState == [pc : {"idle", "exited", "crashed"} \cup Active, exit : Exit,
             built : Digest,              \* the commit the executable was built from
             seen : View \cup {None},     \* the first of two looks at the repository
             digest : Digest, catalog : Digest, \* state.InputDigest; the catalog in use
             option : Options, cell : 1 .. Cells + 1, failed : BOOLEAN,
             retry : BOOLEAN]             \* the release was there at the start (auxiliary)

TypeOK ==
  /\ world \in World /\ source \in Digest /\ runsDir \in {"absent", "fresh", "durable"}
  /\ record \in [Run -> [Cell -> {"absent", "passed", "failed"}]]
  /\ recordTemp \subseteq Run /\ manifestTemp \subseteq Run
  /\ manifest \in [Digest -> Run \cup {None}] /\ synced \subseteq Digest
  /\ run \in [Run -> RunState]

Fault == "io" \in world.threat
At(r, l) == run[r].pc = l

Init ==
  /\ world \in World /\ source = 0
  /\ runsDir = IF world.root = "repository" THEN "durable" ELSE "absent"
  /\ record = [r \in Run |-> [c \in Cell |-> "absent"]]
  /\ recordTemp = {} /\ manifestTemp = {}
  /\ manifest = [d \in Digest |-> None] /\ synced = {}
  /\ run = [r \in Run |-> [pc |-> "idle", exit |-> 0, built |-> 0, seen |-> None, digest |-> 0,
                           catalog |-> 0, option |-> CHOOSE o \in Options : TRUE,
                           cell |-> 1, failed |-> FALSE, retry |-> FALSE]]

Update(r, s) == run' = [run EXCEPT ![r] = s]
Goto(r, l)   == Update(r, [run[r] EXCEPT !.pc = l])

(* What is of no use after the exit is forgotten.                          *)
ExitWith(r, code) ==
  Update(r, [run[r] EXCEPT !.pc = "exited", !.exit = code, !.seen = None,
                           !.cell = 1, !.failed = FALSE])

ProfileOf(r)   == run[r].option.profile
Publishes(r)   == run[r].option.snapshot
Complete(d, p) == manifest[d] # None /\ ProfileOf(manifest[d]) = p

------------------------------------------------------------------------------
(* Two looks at the repository, before and after.                          *)

Begin(r, option) ==
  /\ At(r, "idle")
  /\ Cardinality({s \in Run : run[s].pc # "idle"}) < world.most
  /\ "overlap" \in world.threat \/ \A s \in Run : run[s].pc \notin Active
  /\ Update(r, [run[r] EXCEPT !.pc = "capture", !.built = source, !.option = option,
                              !.retry = option.snapshot /\ Complete(source, option.profile)])
  /\ UNCHANGED <<source, files>>

(* Temporary files are no allowed artifacts.                               *)
Dirty == world.root = "repository" /\ recordTemp \cup manifestTemp # {}

Repository ==
  [source |-> source,
   listing |-> IF world.root = "elsewhere" THEN None
               ELSE [records |-> [r \in Run |-> [c \in Cell |-> record[r][c] # "absent"]],
                     manifests |-> {d \in Digest : manifest[d] # None}]]

Capture(r) ==
  /\ run[r].pc \in {"capture", "recapture"}
  /\ \/ (Dirty \/ Fault) /\ ExitWith(r, 2)
     \/ /\ ~Dirty
        /\ Update(r, [run[r] EXCEPT !.seen = Repository,
                                    !.pc = IF @ = "capture" THEN "confirm" ELSE "reconfirm"])
  /\ UNCHANGED <<source, files>>

(* computeState accepts a repository that has not changed under its eyes.  *)
Stable(r) == ~Dirty /\ Repository = run[r].seen

(* verifyProvenance, and no smoke snapshot in the repository.              *)
Confirm(r) ==
  /\ At(r, "confirm")
  /\ \/ /\ \/ ~Stable(r) \/ Fault
           \/ run[r].built # source
           \/ Publishes(r) /\ ProfileOf(r) = "smoke" /\ world.root = "repository"
        /\ ExitWith(r, 2)
     \/ /\ Stable(r) /\ run[r].built = source
        /\ ~(Publishes(r) /\ ProfileOf(r) = "smoke" /\ world.root = "repository")
        /\ Update(r, [run[r] EXCEPT !.pc = "load", !.digest = source, !.seen = None])
  /\ UNCHANGED <<source, files>>

(* Mutant: the state is not compared.                                      *)
Verdict_NoComparison(r) == IF run[r].failed THEN 5 ELSE 0

(* The exit code once the source has been looked at again.                 *)
Verdict(r) == IF source # run[r].digest \/ run[r].failed THEN 5 ELSE 0

Reconfirm(r) ==
  /\ At(r, "reconfirm")
  /\ \/ (~Stable(r) \/ Fault) /\ ExitWith(r, 2)
     \/ Stable(r) /\ (Verdict(r) # 0 \/ ~Publishes(r)) /\ ExitWith(r, Verdict(r))
     \/ /\ Stable(r) /\ Verdict(r) = 0 /\ Publishes(r)
        /\ Update(r, [run[r] EXCEPT !.pc = "sync-chain", !.seen = None])
  /\ UNCHANGED <<source, files>>

(* loadCatalog reads the worktree anew.                                    *)
LoadCatalog(r) ==
  /\ At(r, "load")
  /\ \/ Fault /\ ExitWith(r, 2)
     \/ Update(r, [run[r] EXCEPT !.catalog = source,
                                 !.pc = IF Publishes(r) THEN "inspect" ELSE "open-store"])
  /\ UNCHANGED <<source, files>>

------------------------------------------------------------------------------
(* Inspect and audit a snapshot that is there already.                     *)

EntrySynced == IF runsDir = "absent" THEN "absent" ELSE "durable"

(* Mutant: the manifest is loaded, not synchronized.                       *)
SyncRelease_Dropped(d) == UNCHANGED <<synced, runsDir>>

(* The directories up to the evidence root are synchronized, so its entry  *)
(* runs/ is, too.                                                          *)
SyncRelease(d) == synced' = synced \cup {d} /\ runsDir' = EntrySynced

(* inspectSnapshot, at the start and after a lost race.                    *)
Inspect(r) ==
  LET d == run[r].digest IN
  /\ run[r].pc \in {"inspect", "reinspect"}
  /\ \/ Fault /\ ExitWith(r, 2) /\ UNCHANGED <<synced, runsDir>>
     \/ /\ manifest[d] = None
        /\ IF At(r, "inspect") THEN Goto(r, "open-store") ELSE ExitWith(r, 2)
        /\ UNCHANGED <<synced, runsDir>>
     \/ /\ manifest[d] # None
        /\ SyncRelease(d)
        /\ IF Complete(d, ProfileOf(r)) THEN Goto(r, "audit") ELSE ExitWith(r, 4)
  /\ UNCHANGED <<world, source, record, recordTemp, manifest, manifestTemp>>

(* The selected records must be there, have passed, and match the cells    *)
(* that the catalog of this invocation defines.                            *)
SelectionIsGood(r, winner) ==
  /\ runsDir # "absent"
  /\ \A c \in Cell : record[winner][c] = "passed"
  /\ run[winner].catalog = run[r].catalog

Audit(r) ==
  /\ At(r, "audit")
  /\ \/ Fault /\ ExitWith(r, 2)
     \/ ~SelectionIsGood(r, manifest[run[r].digest]) /\ ExitWith(r, 4)
     \/ SelectionIsGood(r, manifest[run[r].digest]) /\ Goto(r, "list")
  /\ UNCHANGED <<source, files>>

(* Mutant: records of other run sets count as well.                        *)
HistoryIsGood_AllRunSets(winner) ==
  recordTemp = {} /\ \A s \in Run \ {winner}, c \in Cell : record[s][c] = "absent"

(* List must understand every entry of runs/; records of other run sets    *)
(* are skipped, and those of the winner's are all selected.                *)
HistoryIsGood(winner) == recordTemp = {}

ListRecords(r) ==
  /\ At(r, "list")
  /\ \/ Fault /\ ExitWith(r, 2)
     \/ ~HistoryIsGood(manifest[run[r].digest]) /\ ExitWith(r, 4)
     \/ HistoryIsGood(manifest[run[r].digest]) /\ ExitWith(r, 0)
  /\ UNCHANGED <<source, files>>

------------------------------------------------------------------------------
(* Execute the matrix and store what came of it.                           *)

(* NewStore makes runs/, and leaves it to others to synchronize its entry. *)
OpenStore(r) ==
  /\ At(r, "open-store")
  /\ \/ Fault /\ ExitWith(r, 2) /\ UNCHANGED runsDir
     \/ /\ runsDir' = IF runsDir = "absent" THEN "fresh" ELSE runsDir
        /\ Goto(r, "execute")
  /\ UNCHANGED <<world, source, record, recordTemp, manifest, synced, manifestTemp>>

(* Mutant: the loop runs once too often.                                   *)
CellsLeft_OneMore(r) == run[r].cell <= Cells + 1
CellsLeft(r) == run[r].cell <= Cells

(* An experiment that is done gives a record, failed or not; storing it    *)
(* begins with a temporary file.  One whose result is of no use gives none. *)
Execute(r) ==
  /\ At(r, "execute") /\ CellsLeft(r)
  /\ \/ /\ Goto(r, "put") /\ recordTemp' = recordTemp \cup {r}
     \/ /\ "fail" \in world.threat
        /\ Update(r, [run[r] EXCEPT !.cell = @ + 1, !.failed = TRUE])
        /\ UNCHANGED recordTemp
     \/ Fault /\ ExitWith(r, 2) /\ UNCHANGED recordTemp
  /\ UNCHANGED <<world, source, runsDir, record, manifest, synced, manifestTemp>>

AllExecuted(r) ==
  /\ At(r, "execute") /\ ~CellsLeft(r)
  /\ Update(r, [run[r] EXCEPT !.pc = "recapture", !.cell = 1])
  /\ UNCHANGED <<source, files>>

(* What an experiment may come to.                                         *)
Attempt == {"passed"} \cup IF "fail" \in world.threat THEN {"failed"} ELSE {}

Stored(r, status) == [record EXCEPT ![r][run[r].cell] = status]

(* Store.Put: an error ends the invocation, whether or not the record is   *)
(* there; the temporary file is gone by then unless its removal failed.    *)
Put(r) ==
  /\ At(r, "put")
  /\ \E status \in Attempt :
       \/ /\ record' = Stored(r, status)
          /\ Update(r, [run[r] EXCEPT !.pc = "put-clean", !.failed = @ \/ status = "failed"])
          /\ UNCHANGED recordTemp
       \/ /\ Fault
          /\ record' \in {record, Stored(r, status)}
          /\ recordTemp' \in {recordTemp, recordTemp \ {r}}
          /\ ExitWith(r, 2)
  /\ UNCHANGED <<world, source, runsDir, manifest, synced, manifestTemp>>

PutClean(r) ==
  /\ At(r, "put-clean")
  /\ \/ /\ recordTemp' = recordTemp \ {r}
        /\ Update(r, [run[r] EXCEPT !.pc = "execute", !.cell = @ + 1])
     \/ /\ Fault
        /\ recordTemp' \in {recordTemp, recordTemp \ {r}}
        /\ ExitWith(r, 2)
  /\ UNCHANGED <<world, source, runsDir, record, manifest, synced, manifestTemp>>

------------------------------------------------------------------------------
(* Publish the manifest.                                                   *)

(* Mutant: only the directories below releases/ are synchronized.          *)
SyncChain_BelowReleases(r) ==
  /\ At(r, "sync-chain")
  /\ IF Fault THEN Goto(r, "write") \/ ExitWith(r, 2) ELSE Goto(r, "write")
  /\ UNCHANGED <<source, files>>

(* Every directory from the volume's root to the manifest's is synced.     *)
SyncChain(r) ==
  /\ At(r, "sync-chain")
  /\ \/ runsDir' = EntrySynced /\ Goto(r, "write")
     \/ Fault /\ ExitWith(r, 2) /\ UNCHANGED runsDir
  /\ UNCHANGED <<world, source, record, recordTemp, manifest, synced, manifestTemp>>

(* The look at the destination, and the temporary file.                    *)
WriteManifest(r) ==
  /\ At(r, "write")
  /\ \/ manifest[run[r].digest] # None /\ Goto(r, "reinspect") /\ UNCHANGED manifestTemp
     \/ /\ manifest[run[r].digest] = None
        /\ Goto(r, "link")
        /\ manifestTemp' = manifestTemp \cup {r}
     \/ Fault /\ ExitWith(r, 2) /\ UNCHANGED manifestTemp
  /\ UNCHANGED <<world, source, runsDir, record, recordTemp, manifest, synced>>

Free(d) == manifest[d] = None

(* A conflict, and nothing but a conflict, sends the loser to the winner's *)
(* manifest; one whose cleanup failed is an error like any other.          *)
Link(r) ==
  LET d == run[r].digest IN
  /\ At(r, "link")
  /\ \/ /\ Free(d)
        /\ manifest' = [manifest EXCEPT ![d] = r]
        /\ \/ Goto(r, "sync-install") /\ UNCHANGED manifestTemp
           \/ Fault /\ ExitWith(r, 2) /\ manifestTemp' \in {manifestTemp, manifestTemp \ {r}}
     \/ /\ ~Free(d)
        /\ manifestTemp' = manifestTemp \ {r}
        /\ Goto(r, "reinspect")
        /\ UNCHANGED manifest
     \/ /\ Fault
        /\ manifestTemp' \in {manifestTemp, manifestTemp \ {r}}
        /\ ExitWith(r, 2)
        /\ UNCHANGED manifest
  /\ UNCHANGED <<world, source, runsDir, record, recordTemp, synced>>

SyncInstall(r) ==
  /\ At(r, "sync-install")
  /\ \/ /\ synced' = synced \cup {run[r].digest}
        /\ Goto(r, "clean")
        /\ UNCHANGED manifestTemp
     \/ /\ Fault
        /\ manifestTemp' \in {manifestTemp, manifestTemp \ {r}}
        /\ ExitWith(r, 2)
        /\ UNCHANGED synced
  /\ UNCHANGED <<world, source, runsDir, record, recordTemp, manifest>>

Clean(r) ==
  /\ At(r, "clean")
  /\ \/ manifestTemp' = manifestTemp \ {r} /\ ExitWith(r, 0)
     \/ Fault /\ manifestTemp' \in {manifestTemp, manifestTemp \ {r}} /\ ExitWith(r, 2)
  /\ UNCHANGED <<world, source, runsDir, record, recordTemp, manifest, synced>>

Step(r) ==
  \/ \E option \in world.option : Begin(r, option)
  \/ Capture(r) \/ Confirm(r) \/ LoadCatalog(r) \/ Inspect(r) \/ Audit(r)
  \/ ListRecords(r) \/ OpenStore(r) \/ Execute(r) \/ AllExecuted(r) \/ Put(r) \/ PutClean(r)
  \/ Reconfirm(r) \/ SyncChain(r) \/ WriteManifest(r) \/ Link(r) \/ SyncInstall(r) \/ Clean(r)

------------------------------------------------------------------------------
(* The rest of the world.                                                  *)

(* A commit that has been left is never checked out again.                 *)
Edit ==
  /\ "edit" \in world.threat /\ source < MaxSource
  /\ source' = source + 1
  /\ UNCHANGED <<files, run>>

(* Of what was not synchronized a crash may take anything.                 *)
Crash ==
  /\ "crash" \in world.threat /\ \E r \in Run : run[r].pc \in Active
  /\ run' = [r \in Run |-> IF run[r].pc \in Active
                           THEN [run[r] EXCEPT !.pc = "crashed", !.seen = None, !.cell = 1,
                                               !.failed = FALSE]
                           ELSE run[r]]
  /\ \E lost \in SUBSET (Digest \ synced) :
       manifest' = [d \in Digest |-> IF d \in lost THEN None ELSE manifest[d]]
  /\ manifestTemp' \in SUBSET manifestTemp
  /\ \/ /\ runsDir' = EntrySynced
        /\ recordTemp' \in SUBSET recordTemp
        /\ UNCHANGED record
     \/ /\ runsDir = "fresh" /\ runsDir' = "absent"
        /\ recordTemp' = {}
        /\ record' = [r \in Run |-> [c \in Cell |-> "absent"]]
  /\ UNCHANGED <<world, source, synced>>

Next == (\E r \in Run : Step(r)) \/ Edit \/ Crash

Spec == Init /\ [][Next]_vars

------------------------------------------------------------------------------
(* Properties.                                                             *)

Exited(r, code) == At(r, "exited") /\ run[r].exit = code

(* A manifest never stands alone: whenever one can be seen, also after a   *)
(* crash, every record it selects is there, has passed, and lies in a      *)
(* directory that no crash can take away.                                  *)
ManifestIsBacked ==
  \A d \in Digest : manifest[d] # None =>
    /\ runsDir = "durable"
    /\ \A c \in Cell : record[manifest[d]][c] = "passed"

(* What a manifest says was found of an input was found of that input: its *)
(* cells were defined by the catalog, and run by the executable, of the    *)
(* very commit the digest names, although both are read at other moments.  *)
ManifestNamesItsSource ==
  \A d \in Digest : manifest[d] # None =>
    /\ run[manifest[d]].built = d /\ run[manifest[d]].catalog = d

(* Exit code 0 and the manifests make a ledger: one release per digest,    *)
(* final once anybody was told, whoever installed it.                      *)
Ledger == INSTANCE ReleaseLedger WITH
            release <- [d \in Digest |-> IF manifest[d] = None THEN None
                                         ELSE <<manifest[d], ProfileOf(manifest[d])>>],
            told <- {<<run[r].digest, ProfileOf(r)>> :
                       r \in {s \in Run : Publishes(s) /\ Exited(s, 0)}},
            Profile <- {"smoke", "deep"}
LedgerSpec == Ledger!Spec

(* docs/superpowers/plans/2026-07-14-w0-foundation.md:1458: on a retry for *)
(* an already complete current digest the target audits the existing       *)
(* snapshot and exits 0 without invoking Store.Put; where no call fails,   *)
(* nobody overlaps and the commit stays, that is.                          *)
RetryIsGreen ==
  world.threat \cap {"io", "edit", "overlap"} = {} => \A r \in Run : run[r].retry =>
    /\ At(r, "exited") => run[r].exit = 0
    /\ \A c \in Cell : record[r][c] = "absent"

(* The inductive invariant behind the safety properties.                   *)

Publishing == {"sync-chain", "write", "link", "sync-install", "clean"}
Loaded == {"inspect", "audit", "list", "open-store", "execute", "put", "put-clean",
           "recapture", "reconfirm", "reinspect"} \cup Publishing

PassedUpTo(r, n) == \A c \in Cell : c <= n => record[r][c] = "passed"

(* Commits are not left for an older one, so a catalog that was read       *)
(* between two looks that agree is the catalog of what both saw.           *)
OfItsSource(r) ==
  /\ run[r].pc \in {"load"} \cup Loaded => run[r].built = run[r].digest /\ run[r].digest <= source
  /\ run[r].pc \in Loaded => run[r].digest <= run[r].catalog /\ run[r].catalog <= source
  /\ run[r].pc \in Publishing => run[r].catalog = run[r].digest

(* No smoke release is published from the repository.                      *)
Permitted(r) ==
  /\ run[r].pc \in Publishing => Publishes(r)
  /\ run[r].pc \in {"load"} \cup Loaded /\ Publishes(r) /\ ProfileOf(r) = "smoke" =>
       world.root = "elsewhere"

(* The records of the cells behind the present one have passed, unless the *)
(* invocation knows that it has failed; a publisher's all have.            *)
OfPassedCells(r) ==
  /\ At(r, "idle") => \A c \in Cell : record[r][c] = "absent"
  /\ run[r].pc \notin {"execute", "put", "put-clean"} => run[r].cell = 1
  /\ run[r].pc \in {"put", "put-clean"} => run[r].cell \in Cell
  /\ run[r].pc \in {"execute", "put"} /\ ~run[r].failed => PassedUpTo(r, run[r].cell - 1)
  /\ At(r, "put-clean") /\ ~run[r].failed => PassedUpTo(r, run[r].cell)
  /\ run[r].pc \in {"recapture", "reconfirm"} /\ ~run[r].failed => PassedUpTo(r, Cells)
  /\ run[r].pc \in Publishing => PassedUpTo(r, Cells)

(* Its records are in a directory that is there, and durable before there  *)
(* can be a manifest.                                                      *)
OnItsDirectory(r) ==
  /\ run[r].pc \in {"execute", "put", "put-clean", "recapture", "reconfirm", "sync-chain"} =>
       runsDir # "absent"
  /\ run[r].pc \in Publishing \ {"sync-chain"} => runsDir = "durable"

(* Who was told of a release, or is about to be, has it, synchronized.     *)
OfARelease(r) ==
  /\ run[r].pc \in {"sync-install", "clean"} => manifest[run[r].digest] = r
  /\ At(r, "clean") => run[r].digest \in synced
  /\ run[r].pc \in {"audit", "list"} \/ (Exited(r, 0) /\ Publishes(r)) =>
       Complete(run[r].digest, ProfileOf(r)) /\ run[r].digest \in synced

RunInv(r) ==
  OfItsSource(r) /\ Permitted(r) /\ OfPassedCells(r) /\ OnItsDirectory(r) /\ OfARelease(r)

(* Whoever's manifest stands has passed all and is done but for the rest.  *)
ManifestInv(d) ==
  manifest[d] # None =>
    LET r == manifest[d] IN
    /\ runsDir = "durable" /\ PassedUpTo(r, Cells)
    /\ run[r].digest = d /\ run[r].built = d /\ run[r].catalog = d
    /\ run[r].pc \in {"sync-install", "clean", "exited", "crashed"}
    /\ Publishes(r) /\ (ProfileOf(r) = "smoke" => world.root = "elsewhere")

IInv == TypeOK /\ (\A r \in Run : RunInv(r)) /\ (\A d \in Digest : ManifestInv(d))

(* Where no call fails, nobody overlaps, the commit stays and the machine  *)
(* runs on, nothing is left behind by an invocation, and nothing changes   *)
(* between its two looks, so a retry finds its way to the end.             *)
Quiet == world.threat \cap {"io", "edit", "overlap", "crash"} = {}

Alone == \A r, s \in Run : run[r].pc \in Active /\ run[s].pc \in Active => r = s

LooksAlike(r)   == run[r].pc \in {"confirm", "reconfirm"} => run[r].seen = Repository
CleansUp(r) ==
  /\ r \in recordTemp => run[r].pc \in {"put", "put-clean"}
  /\ r \in manifestTemp => run[r].pc \in {"link", "sync-install", "clean"}

OnItsWay(r) ==
  run[r].retry =>
    /\ Publishes(r) /\ Complete(0, ProfileOf(r))
    /\ run[r].pc \in {"capture", "confirm", "load", "inspect", "audit", "list"} \/ Exited(r, 0)
    /\ \A c \in Cell : record[r][c] = "absent"

RunsQuietly(r) == run[r].built = 0 /\ LooksAlike(r) /\ CleansUp(r) /\ OnItsWay(r)

QuietInv == Quiet => source = 0 /\ Alone /\ \A r \in Run : RunsQuietly(r)
==============================================================================
