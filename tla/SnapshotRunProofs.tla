-------------------------- MODULE SnapshotRunProofs --------------------------
(***************************************************************************)
(* For any number of invocations, cells and commits and in every world:    *)
(* the inductive invariant of SnapshotRun, the safety properties that      *)
(* follow from it, and that exit code 0 and the manifests make a ledger.   *)
(*                                                                         *)
(* An invocation changes its own control state and its own records; of what*)
(* all share, a directory once made durable, a manifest and its sync stay  *)
(* until a crash. So a step leaves the invariant of the others alone, and  *)
(* each action is about the one invocation that takes it.                  *)
(***************************************************************************)
EXTENDS SnapshotRun, TLAPS

(* What a step of r may do to the files, manifests apart.                  *)
OwnFilesOnly(r) ==
  /\ UNCHANGED <<world, source>>
  /\ runsDir' \in {runsDir, EntrySynced} \/ (runsDir = "absent" /\ runsDir' = "fresh")
  /\ record' \in [Run -> [Cell -> {"absent", "passed", "failed"}]]
  /\ \A q \in Run \ {r} : record'[q] = record[q]
  /\ record' = record \/ At(r, "put")
  /\ recordTemp' \subseteq Run /\ manifestTemp' \subseteq Run
  /\ synced \subseteq synced' /\ synced' \subseteq Digest

(* Who an invocation is does not change once its manifest stands.          *)
SameIdentity(s, r) ==
  s.digest = run[r].digest /\ s.built = run[r].built /\ s.catalog = run[r].catalog
  /\ s.option = run[r].option

Final == {"sync-install", "clean", "exited", "crashed"}

(* A step of one invocation is a step of no other one.                     *)
LEMMA OneRun ==
  ASSUME TypeOK, NEW r \in Run, NEW s \in RunState, Update(r, s)
  PROVE  /\ run' \in [Run -> RunState] /\ run'[r] = s
         /\ \A q \in Run \ {r} : run'[q] = run[q]
BY DEF TypeOK, Update

(* The invariant of the others, and of the manifests that stood before,    *)
(* outlives a step of r.                                                   *)
LEMMA OthersKeep ==
  ASSUME IInv, NEW r \in Run, NEW s \in RunState, Update(r, s), OwnFilesOnly(r),
         run[r].pc \in {"idle"} \cup Active,
         At(r, "idle") \/ s.option = run[r].option,
         run[r].pc \in {"sync-install", "clean"} => SameIdentity(s, r) /\ s.pc \in Final,
         \A d \in Digest : manifest[d] # None => manifest'[d] = manifest[d]
  PROVE  /\ \A d \in Digest : manifest[d] # None =>
              manifest'[d] = manifest[d] /\ run'[manifest[d]].option = run[manifest[d]].option
         /\ \A q \in Run \ {r} : RunInv(q)'
         /\ \A d \in Digest : manifest[d] # None => ManifestInv(d)'
<1>1. run'[r] = s /\ \A q \in Run \ {r} : run'[q] = run[q] BY OneRun DEF IInv
<1>2. TypeOK BY DEF IInv
<1>3. ASSUME NEW d \in Digest, manifest[d] # None
      PROVE  /\ manifest'[d] = manifest[d] /\ manifest[d] \in Run
             /\ SameIdentity(run'[manifest[d]], manifest[d])
             /\ run'[manifest[d]].pc \in Final
             /\ record'[manifest[d]] = record[manifest[d]]
  <2>1. manifest[d] \in Run BY <1>2, <1>3 DEF TypeOK
  <2>2. ManifestInv(d) BY DEF IInv
  <2>3. run[manifest[d]].pc \in Final BY <1>3, <2>2 DEF ManifestInv, Final
  <2>4. CASE manifest[d] = r
    <3>1. run[r].pc \in {"sync-install", "clean"} BY <2>3, <2>4 DEF Final, Active
    <3>2. record' = record BY <3>1 DEF OwnFilesOnly, At
    <3> QED BY <1>1, <1>3, <2>1, <2>4, <3>1, <3>2
  <2>5. CASE manifest[d] # r
    BY <1>1, <1>3, <2>1, <2>3, <2>5 DEF OwnFilesOnly, SameIdentity
  <2> QED BY <2>4, <2>5
<1>4. /\ source' = source /\ world' = world
      /\ runsDir # "absent" => runsDir' # "absent"
      /\ runsDir = "durable" => runsDir' = "durable"
  BY DEF OwnFilesOnly, EntrySynced
<1>5. ASSUME NEW q \in Run \ {r} PROVE RunInv(q)'
  <2>1. RunInv(q) /\ run'[q] = run[q] /\ record'[q] = record[q] /\ run[q] \in RunState
    BY <1>1, <1>2 DEF IInv, OwnFilesOnly, TypeOK
  <2>2. OfItsSource(q)' /\ Permitted(q)'
    BY <1>4, <2>1 DEF RunInv, OfItsSource, Permitted, ProfileOf, Publishes
  <2>3. OfPassedCells(q)' BY <2>1 DEF RunInv, OfPassedCells, PassedUpTo, At
  <2>4. OnItsDirectory(q)' BY <1>4, <2>1 DEF RunInv, OnItsDirectory
  <2>5. run[q].digest \in Digest BY <2>1 DEF RunState
  <2>6. Complete(run[q].digest, ProfileOf(q)) => Complete(run[q].digest, ProfileOf(q))'
    BY <1>3, <2>1, <2>5 DEF Complete, ProfileOf, SameIdentity
  <2>7. synced \subseteq synced' BY DEF OwnFilesOnly
  <2>8. manifest[run[q].digest] = q => manifest'[run[q].digest] = q
    <3>1. q # None BY SnapshotRunAssumption
    <3> QED BY <1>3, <2>5, <3>1
  <2>9. OfARelease(q)'
    BY <2>1, <2>6, <2>7, <2>8 DEF RunInv, OfARelease, At, Exited, Publishes
  <2> QED BY <2>2, <2>3, <2>4, <2>9 DEF RunInv
<1>6. ASSUME NEW d \in Digest, manifest[d] # None PROVE ManifestInv(d)'
  <2>1. ManifestInv(d) BY DEF IInv
  <2> QED BY <1>3, <1>4, <1>6, <2>1
          DEF ManifestInv, PassedUpTo, SameIdentity, Final, Publishes, ProfileOf
<1> QED BY <1>3, <1>5, <1>6 DEF SameIdentity

(* A step of r that installs nothing keeps the invariant if r has a place  *)
(* in it afterwards.                                                       *)
LEMMA OwnStep ==
  ASSUME IInv, NEW r \in Run, NEW s \in RunState, Update(r, s), OwnFilesOnly(r),
         run[r].pc \in {"idle"} \cup Active,
         At(r, "idle") \/ s.option = run[r].option,
         run[r].pc \in {"sync-install", "clean"} => SameIdentity(s, r) /\ s.pc \in Final,
         manifest' = manifest,
         run'[r] = s => RunInv(r)'
  PROVE  IInv'
<1>1. /\ \A q \in Run \ {r} : RunInv(q)'
      /\ \A d \in Digest : manifest[d] # None => ManifestInv(d)'
  BY OthersKeep
<1>2. \A d \in Digest : manifest[d] = None => ManifestInv(d)' BY DEF ManifestInv
<1>3. run' \in [Run -> RunState] /\ run'[r] = s BY OneRun DEF IInv
<1>4. runsDir' \in {"absent", "fresh", "durable"} BY DEF OwnFilesOnly, EntrySynced, IInv, TypeOK
<1>5. TypeOK' BY <1>3, <1>4 DEF IInv, TypeOK, OwnFilesOnly
<1> QED BY <1>1, <1>2, <1>3, <1>5 DEF IInv

(* A step of r that changes no file but, perhaps, runs/.                   *)
LEMMA NoFile ==
  ASSUME TypeOK, NEW r \in Run, UNCHANGED <<world, source, record, recordTemp, synced, manifestTemp>>,
         runsDir' \in {runsDir, EntrySynced} \/ (runsDir = "absent" /\ runsDir' = "fresh")
  PROVE  OwnFilesOnly(r)
BY DEF TypeOK, OwnFilesOnly

Left(r, code) == [run[r] EXCEPT !.pc = "exited", !.exit = code, !.seen = None,
                                !.cell = 1, !.failed = FALSE]

(* What is left of an invocation that has ended.                           *)
LEMMA ExitFields ==
  ASSUME TypeOK, NEW r \in Run, NEW code \in Exit
  PROVE  LET s == Left(r, code) IN
           /\ s \in RunState /\ s.pc = "exited" /\ s.exit = code /\ s.cell = 1
           /\ SameIdentity(s, r) /\ s.retry = run[r].retry
<1>1. run[r] \in RunState /\ 1 \in 1 .. Cells + 1 BY SnapshotRunAssumption DEF TypeOK
<1> QED BY <1>1 DEF Left, RunState, SameIdentity

(* An invocation may end anywhere, but with code 0 after a publication only*)
(* if there is a release of its profile for its digest, synchronized.      *)
LEMMA ExitKeeps ==
  ASSUME IInv, NEW r \in Run, NEW code \in Exit, ExitWith(r, code), OwnFilesOnly(r),
         run[r].pc \in Active, manifest' = manifest,
         code = 0 /\ Publishes(r) =>
           Complete(run[r].digest, ProfileOf(r)) /\ run[r].digest \in synced'
  PROVE  IInv'
<1> DEFINE s == Left(r, code)
<1>1. /\ s \in RunState /\ s.pc = "exited" /\ s.exit = code /\ s.cell = 1
      /\ SameIdentity(s, r) /\ s.pc \in Final
  BY ExitFields DEF IInv, Final
<1>2. Update(r, s) BY DEF ExitWith, Left
<1> HIDE DEF s
<1>3. \A d \in Digest : manifest[d] # None => run'[manifest[d]].option = run[manifest[d]].option
  BY <1>1, <1>2, OthersKeep DEF SameIdentity
<1>4. run[r].digest \in Digest /\ run'[r] = s
  BY <1>1, <1>2, OneRun DEF IInv, TypeOK, RunState
<1>5. RunInv(r)'
  <2>1. OfItsSource(r)' /\ Permitted(r)' /\ OfPassedCells(r)' /\ OnItsDirectory(r)'
    BY <1>1, <1>4
    DEF OfItsSource, Permitted, OfPassedCells, OnItsDirectory, At, Loaded, Publishing
  <2>2. code = 0 /\ Publishes(r) => Complete(run[r].digest, ProfileOf(r))'
    BY <1>1, <1>3, <1>4 DEF Complete, ProfileOf, SameIdentity
  <2>3. OfARelease(r)'
    BY <1>1, <1>4, <2>2 DEF OfARelease, At, Exited, Publishes, SameIdentity
  <2> QED BY <2>1, <2>3 DEF RunInv
<1> QED BY <1>1, <1>2, <1>5, OwnStep DEF SameIdentity

(* What is left of an invocation that goes on.                             *)
SameWork(s, r) ==
  /\ SameIdentity(s, r)
  /\ s.cell = run[r].cell /\ s.failed = run[r].failed /\ s.exit = run[r].exit

(* An invocation that goes on keeps the invariant if the next step's place *)
(* in it is one for what it has done; releases stay complete.              *)
LEMMA GotoKeeps ==
  ASSUME IInv, NEW r \in Run, NEW l \in Active, Goto(r, l), OwnFilesOnly(r),
         run[r].pc \in Active, manifest' = manifest,
         run[r].pc \in {"sync-install", "clean"} => l \in Final,
         /\ run'[r].pc = l /\ SameWork(run'[r], r)
         /\ \A d \in Digest, p \in {"smoke", "deep"} : Complete(d, p) => Complete(d, p)'
         => RunInv(r)'
  PROVE  IInv'
<1> DEFINE s == [run[r] EXCEPT !.pc = l]
<1>1. run[r] \in RunState BY DEF IInv, TypeOK
<1>2. s \in RunState /\ s.pc = l /\ SameWork(s, r) /\ SameIdentity(s, r)
  BY <1>1 DEF RunState, SameIdentity, SameWork
<1>3. Update(r, s) BY DEF Goto
<1> HIDE DEF s
<1>4. /\ s.option = run[r].option
      /\ run[r].pc \in {"sync-install", "clean"} => SameIdentity(s, r) /\ s.pc \in Final
  BY <1>2 DEF SameIdentity
<1>5. \A d \in Digest : manifest[d] # None => run'[manifest[d]].option = run[manifest[d]].option
  BY <1>2, <1>3, <1>4, OthersKeep
<1>6. \A d \in Digest, p \in {"smoke", "deep"} : Complete(d, p) => Complete(d, p)'
  BY <1>5 DEF Complete, ProfileOf
<1>7. run'[r] = s BY <1>2, <1>3, OneRun DEF IInv
<1>8. RunInv(r)' BY <1>2, <1>6, <1>7
<1> QED BY <1>2, <1>3, <1>4, <1>8, OwnStep

(* What the invariant says of an invocation at work.                       *)
LEMMA AtWork ==
  ASSUME IInv, NEW r \in Run
  PROVE  /\ run[r] \in RunState /\ RunInv(r) /\ source \in Digest
         /\ run[r].digest \in Digest /\ ProfileOf(r) \in {"smoke", "deep"}
         /\ Cells \in Nat \ {0}
BY SnapshotRunAssumption DEF IInv, TypeOK, RunState, ProfileOf, Options

(* An invocation begins with nothing recorded.                             *)
LEMMA BeginKeeps ==
  ASSUME IInv, NEW r \in Run, NEW option \in world.option, Begin(r, option)
  PROVE  IInv'
<1> DEFINE s == [run[r] EXCEPT !.pc = "capture", !.built = source, !.option = option,
                               !.retry = option.snapshot /\ Complete(source, option.profile)]
<1>1. option \in Options BY SnapshotRunAssumption DEF IInv, TypeOK, Worlds
<1>2. /\ s \in RunState /\ s.pc = "capture" /\ s.cell = run[r].cell
  BY <1>1, AtWork DEF RunState, Active, Complete
<1>3. Update(r, s) /\ At(r, "idle") /\ UNCHANGED <<source, files>> BY DEF Begin
<1>4. OwnFilesOnly(r) BY <1>3, NoFile DEF files, IInv
<1> HIDE DEF s
<1>5. ASSUME run'[r] = s PROVE RunInv(r)'
  BY <1>2, <1>3, <1>5, AtWork
  DEF RunInv, OfItsSource, Permitted, OfPassedCells, OnItsDirectory, OfARelease,
      At, Exited, Loaded, Publishing
<1> QED BY <1>2, <1>3, <1>4, <1>5, OwnStep DEF files, At

(* A look at the repository is a view of it.                               *)
LEMMA RepositoryIsView == ASSUME TypeOK PROVE Repository \in View
BY DEF TypeOK, Repository, View, Listing

(* The first of two looks.                                                 *)
LEMMA CaptureKeeps ==
  ASSUME IInv, NEW r \in Run, Capture(r)
  PROVE  IInv'
<1>1. UNCHANGED <<source, files>> /\ run[r].pc \in {"capture", "recapture"} BY DEF Capture
<1>2. OwnFilesOnly(r) /\ manifest' = manifest /\ run[r].pc \in Active
  BY <1>1, NoFile DEF files, IInv, Active
<1>3. CASE ExitWith(r, 2) BY <1>2, <1>3, ExitKeeps DEF Exit
<1> DEFINE s == [run[r] EXCEPT !.seen = Repository,
                               !.pc = IF @ = "capture" THEN "confirm" ELSE "reconfirm"]
<1>4. CASE Update(r, s)
  <2>1. /\ s \in RunState /\ SameWork(s, r)
        /\ s.pc = (IF run[r].pc = "capture" THEN "confirm" ELSE "reconfirm")
    BY RepositoryIsView, AtWork DEF IInv, RunState, Active, SameWork, SameIdentity
  <2> HIDE DEF s
  <2>2. ASSUME run'[r] = s PROVE RunInv(r)'
    BY <1>1, <2>1, <2>2, AtWork
    DEF RunInv, OfItsSource, Permitted, OfPassedCells, OnItsDirectory, OfARelease, files,
        At, Exited, Loaded, Publishing, SameWork, SameIdentity, PassedUpTo, Publishes, ProfileOf
  <2> QED BY <1>1, <1>2, <1>4, <2>1, <2>2, OwnStep DEF SameWork, SameIdentity
<1> QED BY <1>3, <1>4 DEF Capture

(* Whoever gets past the first two looks was built from the commit whose   *)
(* digest it has, and publishes no smoke release from the repository.      *)
LEMMA ConfirmKeeps ==
  ASSUME IInv, NEW r \in Run, Confirm(r)
  PROVE  IInv'
<1>1. UNCHANGED <<source, files>> /\ run[r].pc = "confirm" BY DEF Confirm, At
<1>2. OwnFilesOnly(r) /\ manifest' = manifest /\ run[r].pc \in Active
  BY <1>1, NoFile DEF files, IInv, Active
<1>3. CASE ExitWith(r, 2) BY <1>2, <1>3, ExitKeeps DEF Exit
<1> DEFINE s == [run[r] EXCEPT !.pc = "load", !.digest = source, !.seen = None]
<1>4. CASE /\ Update(r, s) /\ run[r].built = source
           /\ ~(Publishes(r) /\ ProfileOf(r) = "smoke" /\ world.root = "repository")
  <2>1. /\ s \in RunState /\ s.pc = "load" /\ s.digest = source /\ s.built = run[r].built
        /\ s.option = run[r].option /\ s.cell = run[r].cell
    BY AtWork DEF RunState, Active
  <2>2. world.root \in Roots BY SnapshotRunAssumption DEF IInv, TypeOK, Worlds
  <2> HIDE DEF s
  <2>3. ASSUME run'[r] = s PROVE RunInv(r)'
    <3>1. OfItsSource(r)' BY <1>1, <1>4, <2>1, <2>3, AtWork DEF OfItsSource, Loaded, Publishing, Digest
    <3>2. Permitted(r)'
      BY <1>1, <1>4, <2>1, <2>2, <2>3
      DEF Permitted, Loaded, Publishing, Publishes, ProfileOf, files, Roots
    <3>3. OfPassedCells(r)' /\ OnItsDirectory(r)' /\ OfARelease(r)'
      BY <1>1, <2>1, <2>3, AtWork
      DEF RunInv, OfPassedCells, OnItsDirectory, OfARelease, At, Exited, Publishing
    <3> QED BY <3>1, <3>2, <3>3 DEF RunInv
  <2> QED BY <1>1, <1>2, <1>4, <2>1, <2>3, OwnStep
<1> QED BY <1>3, <1>4 DEF Confirm

(* The second pair of looks sees the commit of the digest, so the catalog  *)
(* that was read in between is of that commit.                             *)
LEMMA ReconfirmKeeps ==
  ASSUME IInv, NEW r \in Run, Reconfirm(r)
  PROVE  IInv'
<1>1. UNCHANGED <<source, files>> /\ run[r].pc = "reconfirm" BY DEF Reconfirm, At
<1>2. OwnFilesOnly(r) /\ manifest' = manifest /\ run[r].pc \in Active
  BY <1>1, NoFile DEF files, IInv, Active
<1>3. CASE ExitWith(r, 2) BY <1>2, <1>3, ExitKeeps DEF Exit
<1>4. CASE (Verdict(r) # 0 \/ ~Publishes(r)) /\ ExitWith(r, Verdict(r))
  BY <1>2, <1>4, ExitKeeps DEF Verdict, Exit
<1> DEFINE s == [run[r] EXCEPT !.pc = "sync-chain", !.seen = None]
<1>5. CASE Verdict(r) = 0 /\ Publishes(r) /\ Update(r, s)
  <2>1. /\ s \in RunState /\ s.pc = "sync-chain" /\ SameWork(s, r)
    BY AtWork DEF RunState, Active, SameWork, SameIdentity
  <2>2. source = run[r].digest /\ ~run[r].failed BY <1>5 DEF Verdict
  <2>3. /\ run[r].digest \in Nat /\ run[r].catalog \in Nat /\ run[r].built = run[r].digest
        /\ run[r].digest <= run[r].catalog /\ run[r].catalog <= source
    BY <1>1, AtWork DEF RunState, Digest, RunInv, OfItsSource, Loaded
  <2> HIDE DEF s
  <2>4. ASSUME run'[r] = s PROVE RunInv(r)'
    <3>1. OfItsSource(r)'
      BY <1>1, <2>1, <2>2, <2>3, <2>4 DEF OfItsSource, SameWork, SameIdentity
    <3>2. Permitted(r)'
      BY <1>1, <1>5, <2>1, <2>4, AtWork
      DEF RunInv, Permitted, Loaded, Publishes, ProfileOf, files, SameWork, SameIdentity
    <3>3. OfPassedCells(r)' /\ OnItsDirectory(r)' /\ OfARelease(r)'
      BY <1>1, <2>1, <2>2, <2>4, AtWork
      DEF RunInv, OfPassedCells, OnItsDirectory, OfARelease, At, Exited, Publishing, PassedUpTo,
          SameWork, SameIdentity, files
    <3> QED BY <3>1, <3>2, <3>3 DEF RunInv
  <2> QED BY <1>1, <1>2, <1>5, <2>1, <2>4, OwnStep DEF SameWork, SameIdentity
<1> QED BY <1>3, <1>4, <1>5 DEF Reconfirm

(* The catalog is of a commit that is not older than the digest's.         *)
LEMMA LoadCatalogKeeps ==
  ASSUME IInv, NEW r \in Run, LoadCatalog(r)
  PROVE  IInv'
<1>1. UNCHANGED <<source, files>> /\ run[r].pc = "load" BY DEF LoadCatalog, At
<1>2. OwnFilesOnly(r) /\ manifest' = manifest /\ run[r].pc \in Active
  BY <1>1, NoFile DEF files, IInv, Active
<1>3. CASE ExitWith(r, 2) BY <1>2, <1>3, ExitKeeps DEF Exit
<1> DEFINE s == [run[r] EXCEPT !.catalog = source,
                               !.pc = IF Publishes(r) THEN "inspect" ELSE "open-store"]
<1>4. CASE Update(r, s)
  <2>1. /\ s \in RunState /\ s.pc = (IF Publishes(r) THEN "inspect" ELSE "open-store")
        /\ s.catalog = source /\ s.digest = run[r].digest /\ s.built = run[r].built
        /\ s.option = run[r].option /\ s.cell = run[r].cell
    BY AtWork DEF RunState, Active
  <2> HIDE DEF s
  <2>2. ASSUME run'[r] = s PROVE RunInv(r)'
    <3>1. OfItsSource(r)'
      BY <1>1, <2>1, <2>2, AtWork DEF RunInv, OfItsSource, Publishing, Digest
    <3>2. Permitted(r)'
      BY <1>1, <2>1, <2>2, AtWork DEF RunInv, Permitted, Publishing, Publishes, ProfileOf, files
    <3>3. OfPassedCells(r)' /\ OnItsDirectory(r)' /\ OfARelease(r)'
      BY <1>1, <2>1, <2>2, AtWork
      DEF RunInv, OfPassedCells, OnItsDirectory, OfARelease, At, Exited, Publishing
    <3> QED BY <3>1, <3>2, <3>3 DEF RunInv
  <2> QED BY <1>1, <1>2, <1>4, <2>1, <2>2, OwnStep
<1> QED BY <1>3, <1>4 DEF LoadCatalog

(* Who goes on from the look at a release to its audit has synchronized it.*)
LEMMA InspectKeeps ==
  ASSUME IInv, NEW r \in Run, Inspect(r)
  PROVE  IInv'
<1> DEFINE d == run[r].digest
<1>1. /\ run[r].pc \in {"inspect", "reinspect"} /\ run[r].pc \in Active
      /\ UNCHANGED <<world, source, record, recordTemp, manifest, manifestTemp>>
  BY DEF Inspect, Active
<1>2. d \in Digest BY AtWork
<1>3. CASE UNCHANGED <<synced, runsDir>> /\ (ExitWith(r, 2) \/ (At(r, "inspect") /\ Goto(r, "open-store")))
  <2>1. OwnFilesOnly(r) BY <1>1, <1>3, NoFile DEF IInv
  <2>2. CASE ExitWith(r, 2) BY <1>1, <2>1, <2>2, ExitKeeps DEF Exit
  <2>3. CASE At(r, "inspect") /\ Goto(r, "open-store")
    <3>1. ASSUME run'[r].pc = "open-store", SameWork(run'[r], r) PROVE RunInv(r)'
      BY <1>1, <2>3, <3>1, AtWork
      DEF RunInv, OfItsSource, Permitted, OfPassedCells, OnItsDirectory, OfARelease,
          At, Exited, Loaded, Publishing, SameWork, SameIdentity, Publishes, ProfileOf
    <3> QED BY <1>1, <2>1, <2>3, <3>1, GotoKeeps DEF Active
  <2> QED BY <1>3, <2>2, <2>3
<1>4. CASE /\ SyncRelease(d)
           /\ \/ Complete(d, ProfileOf(r)) /\ Goto(r, "audit")
              \/ ~Complete(d, ProfileOf(r)) /\ ExitWith(r, 4)
  <2>1. synced' = synced \cup {d} /\ runsDir' = EntrySynced BY <1>4 DEF SyncRelease
  <2>2. OwnFilesOnly(r) BY <1>1, <1>2, <2>1 DEF OwnFilesOnly, IInv, TypeOK
  <2>3. CASE ExitWith(r, 4) BY <1>1, <2>2, <2>3, ExitKeeps DEF Exit
  <2>4. CASE Complete(d, ProfileOf(r)) /\ Goto(r, "audit")
    <3>1. ASSUME run'[r].pc = "audit", SameWork(run'[r], r),
                 \A e \in Digest, p \in {"smoke", "deep"} : Complete(e, p) => Complete(e, p)'
          PROVE RunInv(r)'
      <4>1. Complete(d, ProfileOf(r))' BY <1>2, <2>4, <3>1, AtWork DEF ProfileOf, SameWork, SameIdentity
      <4>2. run'[r].digest \in synced' BY <2>1, <3>1 DEF SameWork, SameIdentity
      <4>3. OfARelease(r)' BY <3>1, <4>1, <4>2 DEF OfARelease, At, Exited
      <4>4. OfItsSource(r)' /\ Permitted(r)' /\ OfPassedCells(r)' /\ OnItsDirectory(r)'
        BY <1>1, <3>1, AtWork
        DEF RunInv, OfItsSource, Permitted, OfPassedCells, OnItsDirectory,
            At, Loaded, Publishing, SameWork, SameIdentity, Publishes, ProfileOf
      <4> QED BY <4>3, <4>4 DEF RunInv
    <3> QED BY <1>1, <2>2, <2>4, <3>1, GotoKeeps DEF Active
  <2> QED BY <1>4, <2>3, <2>4
<1> QED BY <1>3, <1>4 DEF Inspect

(* The audit only reads, and a release stays complete meanwhile.           *)
LEMMA AuditKeeps ==
  ASSUME IInv, NEW r \in Run, Audit(r)
  PROVE  IInv'
<1>1. UNCHANGED <<source, files>> /\ run[r].pc = "audit" BY DEF Audit, At
<1>2. OwnFilesOnly(r) /\ manifest' = manifest /\ run[r].pc \in Active
  BY <1>1, NoFile DEF files, IInv, Active
<1>3. CASE ExitWith(r, 2) \/ ExitWith(r, 4) BY <1>2, <1>3, ExitKeeps DEF Exit
<1>4. CASE Goto(r, "list")
  <2>1. ASSUME run'[r].pc = "list", SameWork(run'[r], r),
               \A e \in Digest, p \in {"smoke", "deep"} : Complete(e, p) => Complete(e, p)'
        PROVE RunInv(r)'
    <3>1. Complete(run[r].digest, ProfileOf(r)) /\ run[r].digest \in synced
      BY <1>1, AtWork DEF RunInv, OfARelease
    <3>2. Complete(run[r].digest, ProfileOf(r))'
      BY <2>1, <3>1, AtWork DEF ProfileOf, SameWork, SameIdentity
    <3>3. OfARelease(r)'
      BY <1>1, <2>1, <3>1, <3>2 DEF OfARelease, At, Exited, SameWork, SameIdentity, files
    <3>4. OfItsSource(r)' /\ Permitted(r)' /\ OfPassedCells(r)' /\ OnItsDirectory(r)'
      BY <1>1, <2>1, AtWork
      DEF RunInv, OfItsSource, Permitted, OfPassedCells, OnItsDirectory, files,
          At, Loaded, Publishing, SameWork, SameIdentity, Publishes, ProfileOf
    <3> QED BY <3>3, <3>4 DEF RunInv
  <2> QED BY <1>1, <1>2, <1>4, <2>1, GotoKeeps DEF Active
<1> QED BY <1>3, <1>4 DEF Audit

(* Whoever is told of an earlier release is told of one that stands.       *)
LEMMA ListRecordsKeeps ==
  ASSUME IInv, NEW r \in Run, ListRecords(r)
  PROVE  IInv'
<1>1. UNCHANGED <<source, files>> /\ run[r].pc = "list" BY DEF ListRecords, At
<1>2. OwnFilesOnly(r) /\ manifest' = manifest /\ run[r].pc \in Active
  BY <1>1, NoFile DEF files, IInv, Active
<1>3. Complete(run[r].digest, ProfileOf(r)) /\ run[r].digest \in synced'
  BY <1>1, AtWork DEF RunInv, OfARelease, files
<1> QED BY <1>2, <1>3, ExitKeeps DEF ListRecords, Exit

(* From here on there is a directory.                                      *)
LEMMA OpenStoreKeeps ==
  ASSUME IInv, NEW r \in Run, OpenStore(r)
  PROVE  IInv'
<1>1. /\ run[r].pc = "open-store" /\ run[r].pc \in Active
      /\ UNCHANGED <<world, source, record, recordTemp, manifest, synced, manifestTemp>>
  BY DEF OpenStore, At, Active
<1>2. CASE ExitWith(r, 2) /\ UNCHANGED runsDir
  BY <1>1, <1>2, NoFile, ExitKeeps DEF Exit, IInv
<1>3. CASE runsDir' = (IF runsDir = "absent" THEN "fresh" ELSE runsDir) /\ Goto(r, "execute")
  <2>1. OwnFilesOnly(r) BY <1>1, <1>3, NoFile DEF IInv
  <2>2. ASSUME run'[r].pc = "execute", SameWork(run'[r], r) PROVE RunInv(r)'
    <3>1. run[r].cell = 1 BY <1>1, AtWork DEF RunInv, OfPassedCells
    <3>2. OfPassedCells(r)'
      BY <1>1, <2>2, <3>1
      DEF OfPassedCells, PassedUpTo, At, SameWork, Publishing, Cell
    <3>3. OfItsSource(r)' /\ Permitted(r)' /\ OnItsDirectory(r)' /\ OfARelease(r)'
      BY <1>1, <1>3, <2>2, AtWork
      DEF RunInv, OfItsSource, Permitted, OnItsDirectory, OfARelease,
          At, Exited, Loaded, Publishing, SameWork, SameIdentity, Publishes, ProfileOf
    <3> QED BY <3>2, <3>3 DEF RunInv
  <2> QED BY <1>1, <1>3, <2>1, <2>2, GotoKeeps DEF Active
<1> QED BY <1>2, <1>3 DEF OpenStore

(* A cell without a record makes the invocation a failed one.              *)
LEMMA ExecuteKeeps ==
  ASSUME IInv, NEW r \in Run, Execute(r)
  PROVE  IInv'
<1>1. /\ run[r].pc = "execute" /\ run[r].pc \in Active /\ CellsLeft(r)
      /\ UNCHANGED <<world, source, runsDir, record, manifest, synced, manifestTemp>>
  BY DEF Execute, At, Active
<1>2. recordTemp' \in {recordTemp, recordTemp \cup {r}} BY DEF Execute
<1>3. OwnFilesOnly(r) BY <1>1, <1>2 DEF OwnFilesOnly, IInv, TypeOK
<1>4. run[r].cell \in Cell
  BY <1>1, AtWork DEF RunState, CellsLeft, Cell
<1>5. CASE ExitWith(r, 2) BY <1>1, <1>3, <1>5, ExitKeeps DEF Exit
<1>6. CASE Goto(r, "put")
  <2>1. ASSUME run'[r].pc = "put", SameWork(run'[r], r) PROVE RunInv(r)'
    BY <1>1, <1>4, <2>1, AtWork
    DEF RunInv, OfItsSource, Permitted, OfPassedCells, OnItsDirectory, OfARelease, PassedUpTo,
        At, Exited, Loaded, Publishing, SameWork, SameIdentity, Publishes, ProfileOf
  <2> QED BY <1>1, <1>3, <1>6, <2>1, GotoKeeps DEF Active
<1> DEFINE s == [run[r] EXCEPT !.cell = @ + 1, !.failed = TRUE]
<1>7. CASE Update(r, s)
  <2>1. run[r].cell + 1 \in 1 .. Cells + 1 BY <1>4, AtWork DEF Cell
  <2>2. /\ s \in RunState /\ s.pc = "execute" /\ s.failed = TRUE /\ SameIdentity(s, r)
    BY <1>1, <2>1, AtWork DEF RunState, SameIdentity
  <2> HIDE DEF s
  <2>3. ASSUME run'[r] = s PROVE RunInv(r)'
    BY <1>1, <2>2, <2>3, AtWork
    DEF RunInv, OfItsSource, Permitted, OfPassedCells, OnItsDirectory, OfARelease,
        At, Exited, Loaded, Publishing, SameIdentity, Publishes, ProfileOf
  <2> QED BY <1>1, <1>3, <1>7, <2>2, <2>3, OwnStep DEF SameIdentity
<1> QED BY <1>5, <1>6, <1>7 DEF Execute

(* Behind the last cell all have passed, or the invocation has failed.     *)
LEMMA AllExecutedKeeps ==
  ASSUME IInv, NEW r \in Run, AllExecuted(r)
  PROVE  IInv'
<1> DEFINE s == [run[r] EXCEPT !.pc = "recapture", !.cell = 1]
<1>1. UNCHANGED <<source, files>> /\ run[r].pc = "execute" /\ ~CellsLeft(r) /\ Update(r, s)
  BY DEF AllExecuted, At
<1>2. OwnFilesOnly(r) /\ manifest' = manifest /\ run[r].pc \in Active
  BY <1>1, NoFile DEF files, IInv, Active
<1>3. run[r].cell - 1 = Cells BY <1>1, AtWork DEF RunState, CellsLeft
<1>4. /\ s \in RunState /\ s.pc = "recapture" /\ s.cell = 1 /\ s.failed = run[r].failed
      /\ SameIdentity(s, r)
  <2>1. 1 \in 1 .. Cells + 1 BY AtWork
  <2> QED BY <2>1, AtWork DEF RunState, Active, SameIdentity
<1> HIDE DEF s
<1>5. ASSUME run'[r] = s PROVE RunInv(r)'
  BY <1>1, <1>3, <1>4, <1>5, AtWork
  DEF RunInv, OfItsSource, Permitted, OfPassedCells, OnItsDirectory, OfARelease, PassedUpTo,
      At, Exited, Loaded, Publishing, SameIdentity, Publishes, ProfileOf, files
<1> QED BY <1>1, <1>2, <1>4, <1>5, OwnStep DEF SameIdentity

(* A record that did not pass makes the invocation a failed one.           *)
LEMMA PutKeeps ==
  ASSUME IInv, NEW r \in Run, Put(r)
  PROVE  IInv'
<1>1. /\ run[r].pc = "put" /\ run[r].pc \in Active
      /\ UNCHANGED <<world, source, runsDir, manifest, synced, manifestTemp>>
  BY DEF Put, At, Active
<1>2. PICK status \in Attempt :
        \/ /\ record' = Stored(r, status) /\ UNCHANGED recordTemp
           /\ Update(r, [run[r] EXCEPT !.pc = "put-clean", !.failed = @ \/ status = "failed"])
        \/ /\ record' \in {record, Stored(r, status)} /\ ExitWith(r, 2)
           /\ recordTemp' \in {recordTemp, recordTemp \ {r}}
  BY DEF Put
<1>3. status \in {"passed", "failed"} BY DEF Attempt
<1>4. run[r].cell \in Cell /\ record \in [Run -> [Cell -> {"absent", "passed", "failed"}]]
  BY <1>1, AtWork DEF RunInv, OfPassedCells, IInv, TypeOK
<1>5. /\ Stored(r, status) \in [Run -> [Cell -> {"absent", "passed", "failed"}]]
      /\ \A q \in Run \ {r} : Stored(r, status)[q] = record[q]
      /\ Stored(r, status)[r][run[r].cell] = status
      /\ \A c \in Cell : c # run[r].cell => Stored(r, status)[r][c] = record[r][c]
  BY <1>3, <1>4 DEF Stored
<1>6. OwnFilesOnly(r)
  BY <1>1, <1>2, <1>4, <1>5 DEF OwnFilesOnly, At, IInv, TypeOK
<1>7. CASE ExitWith(r, 2) BY <1>1, <1>6, <1>7, ExitKeeps DEF Exit
<1> DEFINE s == [run[r] EXCEPT !.pc = "put-clean", !.failed = @ \/ status = "failed"]
<1>8. CASE record' = Stored(r, status) /\ Update(r, s)
  <2>1. /\ s \in RunState /\ s.pc = "put-clean" /\ s.cell = run[r].cell /\ SameIdentity(s, r)
        /\ s.failed = (run[r].failed \/ status = "failed")
    BY AtWork DEF RunState, Active, SameIdentity
  <2> HIDE DEF s
  <2>2. ASSUME run'[r] = s PROVE RunInv(r)'
    <3>1. ASSUME ~s.failed, NEW c \in Cell, c <= s.cell PROVE record'[r][c] = "passed"
      <4>1. status = "passed" /\ ~run[r].failed BY <1>3, <2>1, <3>1
      <4>2. PassedUpTo(r, run[r].cell - 1) BY <1>1, <4>1, AtWork DEF RunInv, OfPassedCells
      <4>3. c = run[r].cell \/ c <= run[r].cell - 1 BY <1>4, <2>1, <3>1 DEF Cell
      <4> QED BY <1>5, <1>8, <4>1, <4>2, <4>3 DEF PassedUpTo
    <3>2. OfPassedCells(r)'
      BY <1>4, <2>1, <2>2, <3>1 DEF OfPassedCells, PassedUpTo, At, Publishing
    <3>3. OfItsSource(r)' /\ Permitted(r)' /\ OnItsDirectory(r)' /\ OfARelease(r)'
      BY <1>1, <2>1, <2>2, AtWork
      DEF RunInv, OfItsSource, Permitted, OnItsDirectory, OfARelease,
          At, Exited, Loaded, Publishing, SameIdentity, Publishes, ProfileOf
    <3> QED BY <3>2, <3>3 DEF RunInv
  <2> QED BY <1>1, <1>6, <1>8, <2>1, <2>2, OwnStep DEF SameIdentity
<1> QED BY <1>2, <1>7, <1>8

(* On to the next cell.                                                    *)
LEMMA PutCleanKeeps ==
  ASSUME IInv, NEW r \in Run, PutClean(r)
  PROVE  IInv'
<1>1. /\ run[r].pc = "put-clean" /\ run[r].pc \in Active
      /\ UNCHANGED <<world, source, runsDir, record, manifest, synced, manifestTemp>>
  BY DEF PutClean, At, Active
<1>2. recordTemp' \in {recordTemp, recordTemp \ {r}} BY DEF PutClean
<1>3. OwnFilesOnly(r) BY <1>1, <1>2 DEF OwnFilesOnly, IInv, TypeOK
<1>4. CASE ExitWith(r, 2) BY <1>1, <1>3, <1>4, ExitKeeps DEF Exit
<1> DEFINE s == [run[r] EXCEPT !.pc = "execute", !.cell = @ + 1]
<1>5. CASE Update(r, s)
  <2>1. run[r].cell \in Cell BY <1>1, AtWork DEF RunInv, OfPassedCells
  <2>2. run[r].cell + 1 \in 1 .. Cells + 1 /\ (run[r].cell + 1) - 1 = run[r].cell
    BY <2>1, AtWork DEF Cell
  <2>3. /\ s \in RunState /\ s.pc = "execute" /\ s.cell = run[r].cell + 1
        /\ s.failed = run[r].failed /\ SameIdentity(s, r)
    BY <2>2, AtWork DEF RunState, Active, SameIdentity
  <2> HIDE DEF s
  <2>4. ASSUME run'[r] = s PROVE RunInv(r)'
    <3>1. OfPassedCells(r)'
      BY <1>1, <2>2, <2>3, <2>4, AtWork DEF RunInv, OfPassedCells, PassedUpTo, At, Publishing
    <3>2. OfItsSource(r)' /\ Permitted(r)' /\ OnItsDirectory(r)' /\ OfARelease(r)'
      BY <1>1, <2>3, <2>4, AtWork
      DEF RunInv, OfItsSource, Permitted, OnItsDirectory, OfARelease,
          At, Exited, Loaded, Publishing, SameIdentity, Publishes, ProfileOf
    <3> QED BY <3>1, <3>2 DEF RunInv
  <2> QED BY <1>1, <1>3, <1>5, <2>3, <2>4, OwnStep DEF SameIdentity
<1> QED BY <1>4, <1>5 DEF PutClean

(* After the chain of directories is synchronized runs/ is durable, before *)
(* there is a manifest.                                                    *)
LEMMA SyncChainKeeps ==
  ASSUME IInv, NEW r \in Run, SyncChain(r)
  PROVE  IInv'
<1>1. /\ run[r].pc = "sync-chain" /\ run[r].pc \in Active
      /\ UNCHANGED <<world, source, record, recordTemp, manifest, synced, manifestTemp>>
  BY DEF SyncChain, At, Active
<1>2. CASE ExitWith(r, 2) /\ UNCHANGED runsDir
  BY <1>1, <1>2, NoFile, ExitKeeps DEF Exit, IInv
<1>3. CASE runsDir' = EntrySynced /\ Goto(r, "write")
  <2>1. OwnFilesOnly(r) BY <1>1, <1>3, NoFile DEF IInv
  <2>2. runsDir' = "durable"
    BY <1>1, <1>3, AtWork DEF RunInv, OnItsDirectory, EntrySynced
  <2>3. ASSUME run'[r].pc = "write", SameWork(run'[r], r) PROVE RunInv(r)'
    BY <1>1, <2>2, <2>3, AtWork
    DEF RunInv, OfItsSource, Permitted, OfPassedCells, OnItsDirectory, OfARelease, PassedUpTo,
        At, Exited, Loaded, Publishing, SameWork, SameIdentity, Publishes, ProfileOf
  <2> QED BY <1>1, <1>3, <2>1, <2>3, GotoKeeps DEF Active
<1> QED BY <1>2, <1>3 DEF SyncChain

(* A conflict leads to the release that is there.                          *)
LEMMA TurnKeeps ==
  ASSUME IInv, NEW r \in Run, run[r].pc \in {"write", "link"}, Goto(r, "reinspect"),
         OwnFilesOnly(r), manifest' = manifest
  PROVE  IInv'
<1>1. ASSUME run'[r].pc = "reinspect", SameWork(run'[r], r) PROVE RunInv(r)'
  BY <1>1, AtWork
  DEF RunInv, OfItsSource, Permitted, OfPassedCells, OnItsDirectory, OfARelease, OwnFilesOnly,
      At, Exited, Loaded, Publishing, SameWork, SameIdentity, Publishes, ProfileOf
<1> QED BY <1>1, GotoKeeps DEF Active

(* The temporary manifest is written.                                      *)
LEMMA WriteManifestKeeps ==
  ASSUME IInv, NEW r \in Run, WriteManifest(r)
  PROVE  IInv'
<1>1. /\ run[r].pc = "write" /\ run[r].pc \in Active
      /\ UNCHANGED <<world, source, runsDir, record, recordTemp, manifest, synced>>
      /\ manifestTemp' \in {manifestTemp, manifestTemp \cup {r}}
  BY DEF WriteManifest, At, Active
<1>2. OwnFilesOnly(r) BY <1>1 DEF OwnFilesOnly, IInv, TypeOK
<1>3. CASE ExitWith(r, 2) BY <1>1, <1>2, <1>3, ExitKeeps DEF Exit
<1>4. CASE Goto(r, "reinspect") BY <1>1, <1>2, <1>4, TurnKeeps
<1>5. CASE Goto(r, "link")
  <2>1. ASSUME run'[r].pc = "link", SameWork(run'[r], r) PROVE RunInv(r)'
    BY <1>1, <2>1, AtWork
    DEF RunInv, OfItsSource, Permitted, OfPassedCells, OnItsDirectory, OfARelease, PassedUpTo,
        At, Exited, Loaded, Publishing, SameWork, SameIdentity, Publishes, ProfileOf
  <2> QED BY <1>1, <1>2, <1>5, <2>1, GotoKeeps DEF Active
<1> QED BY <1>3, <1>4, <1>5 DEF WriteManifest

(* The manifest that appears is one of passed records, in a durable        *)
(* directory, of the commit it names.                                      *)
LEMMA InstallKeeps ==
  ASSUME IInv, NEW r \in Run, NEW s \in RunState, At(r, "link"), Update(r, s), OwnFilesOnly(r),
         UNCHANGED <<runsDir, record>>, SameIdentity(s, r), s.cell = 1,
         s.pc = "sync-install" \/ (s.pc = "exited" /\ s.exit = 2),
         manifest[run[r].digest] = None, manifest' = [manifest EXCEPT ![run[r].digest] = r]
  PROVE  IInv'
<1> DEFINE d == run[r].digest
<1>1. /\ run[r].pc = "link" /\ run[r].pc \in Active /\ d \in Digest
      /\ manifest \in [Digest -> Run \cup {None}]
  BY AtWork DEF At, Active, IInv, TypeOK
<1>2. /\ manifest'[d] = r /\ manifest' \in [Digest -> Run \cup {None}]
      /\ \A e \in Digest \ {d} : manifest'[e] = manifest[e]
  BY <1>1
<1> HIDE DEF d
<1>3. /\ \A q \in Run \ {r} : RunInv(q)'
      /\ \A e \in Digest : manifest[e] # None => ManifestInv(e)'
  BY <1>1, <1>2, OthersKeep DEF SameIdentity, d
<1>4. run' \in [Run -> RunState] /\ run'[r] = s BY OneRun DEF IInv
<1>5. TypeOK'
  BY <1>2, <1>4 DEF IInv, TypeOK, OwnFilesOnly
<1>6. /\ d = run[r].built /\ d = run[r].catalog /\ PassedUpTo(r, Cells) /\ runsDir = "durable"
      /\ Publishes(r) /\ (ProfileOf(r) = "smoke" => world.root = "elsewhere") /\ run[r].cell = 1
  BY <1>1, AtWork DEF RunInv, OfItsSource, OfPassedCells, OnItsDirectory, Permitted, Loaded, Publishing, d
<1>7. RunInv(r)'
  <2>1. OfItsSource(r)' /\ Permitted(r)' /\ OfPassedCells(r)' /\ OnItsDirectory(r)'
    BY <1>1, <1>4, <1>6, AtWork
    DEF RunInv, OfItsSource, Permitted, OfPassedCells, OnItsDirectory, PassedUpTo, OwnFilesOnly,
        At, Loaded, Publishing, SameIdentity, Publishes, ProfileOf
  <2>2. OfARelease(r)'
    BY <1>2, <1>4 DEF OfARelease, At, Exited, SameIdentity, d
  <2> QED BY <2>1, <2>2 DEF RunInv
<1>8. ASSUME NEW e \in Digest, e = d PROVE ManifestInv(e)'
  BY <1>2, <1>4, <1>6, <1>8
  DEF ManifestInv, PassedUpTo, SameIdentity, Publishes, ProfileOf, OwnFilesOnly, d
<1>9. ASSUME NEW e \in Digest, e # d, manifest[e] = None PROVE ManifestInv(e)'
  BY <1>2, <1>9 DEF ManifestInv
<1> QED BY <1>3, <1>5, <1>7, <1>8, <1>9 DEF IInv

(* A name that is taken is not taken over.                                 *)
LEMMA LinkKeeps ==
  ASSUME IInv, NEW r \in Run, Link(r)
  PROVE  IInv'
<1>1. /\ At(r, "link") /\ run[r].pc = "link" /\ run[r].pc \in Active
      /\ UNCHANGED <<world, source, runsDir, record, recordTemp, synced>>
      /\ manifestTemp' \in {manifestTemp, manifestTemp \ {r}}
  BY DEF Link, At, Active
<1>2. OwnFilesOnly(r) BY <1>1 DEF OwnFilesOnly, IInv, TypeOK
<1>3. run[r].cell = 1 BY <1>1, AtWork DEF RunInv, OfPassedCells
<1>4. CASE Free(run[r].digest) /\ manifest' = [manifest EXCEPT ![run[r].digest] = r] /\ Goto(r, "sync-install")
  <2> DEFINE s == [run[r] EXCEPT !.pc = "sync-install"]
  <2>1. s \in RunState /\ s.pc = "sync-install" /\ SameIdentity(s, r) /\ s.cell = 1
    BY <1>3, AtWork DEF RunState, Active, SameIdentity
  <2> HIDE DEF s
  <2>2. Update(r, s) BY <1>4 DEF Goto, s
  <2> QED BY <1>1, <1>2, <1>4, <2>1, <2>2, InstallKeeps DEF Free
<1>5. CASE Free(run[r].digest) /\ manifest' = [manifest EXCEPT ![run[r].digest] = r] /\ ExitWith(r, 2)
  <2> DEFINE s == Left(r, 2)
  <2>1. s \in RunState /\ s.pc = "exited" /\ SameIdentity(s, r) /\ s.cell = 1 /\ s.exit = 2
    BY ExitFields DEF IInv, Exit
  <2> HIDE DEF s
  <2>2. Update(r, s) BY <1>5 DEF ExitWith, Left, s
  <2> QED BY <1>1, <1>2, <1>5, <2>1, <2>2, InstallKeeps DEF Free
<1>6. CASE manifest' = manifest /\ Goto(r, "reinspect") BY <1>1, <1>2, <1>6, TurnKeeps
<1>7. CASE manifest' = manifest /\ ExitWith(r, 2) BY <1>1, <1>2, <1>7, ExitKeeps DEF Exit
<1> QED BY <1>4, <1>5, <1>6, <1>7 DEF Link

(* The manifest is on the disk before anybody is told.                     *)
LEMMA SyncInstallKeeps ==
  ASSUME IInv, NEW r \in Run, SyncInstall(r)
  PROVE  IInv'
<1>1. /\ run[r].pc = "sync-install" /\ run[r].pc \in Active
      /\ UNCHANGED <<world, source, runsDir, record, recordTemp, manifest>>
      /\ manifestTemp' \in {manifestTemp, manifestTemp \ {r}}
      /\ synced' \in {synced, synced \cup {run[r].digest}}
  BY DEF SyncInstall, At, Active
<1>2. OwnFilesOnly(r) BY <1>1, AtWork DEF OwnFilesOnly, IInv, TypeOK
<1>3. CASE ExitWith(r, 2) BY <1>1, <1>2, <1>3, ExitKeeps DEF Exit
<1>4. CASE synced' = synced \cup {run[r].digest} /\ Goto(r, "clean")
  <2>1. ASSUME run'[r].pc = "clean", SameWork(run'[r], r) PROVE RunInv(r)'
    BY <1>1, <1>4, <2>1, AtWork
    DEF RunInv, OfItsSource, Permitted, OfPassedCells, OnItsDirectory, OfARelease, PassedUpTo,
        At, Exited, Loaded, Publishing, SameWork, SameIdentity, Publishes, ProfileOf
  <2> QED BY <1>1, <1>2, <1>4, <2>1, GotoKeeps DEF Active, Final
<1> QED BY <1>3, <1>4 DEF SyncInstall

(* Whoever is told of a release of his own is told of one that stands.     *)
LEMMA CleanKeeps ==
  ASSUME IInv, NEW r \in Run, Clean(r)
  PROVE  IInv'
<1>1. /\ run[r].pc = "clean" /\ run[r].pc \in Active
      /\ UNCHANGED <<world, source, runsDir, record, recordTemp, manifest, synced>>
      /\ manifestTemp' \in {manifestTemp, manifestTemp \ {r}}
  BY DEF Clean, At, Active
<1>2. OwnFilesOnly(r) BY <1>1 DEF OwnFilesOnly, IInv, TypeOK
<1>3. Complete(run[r].digest, ProfileOf(r)) /\ run[r].digest \in synced'
  BY <1>1, AtWork, SnapshotRunAssumption DEF RunInv, OfARelease, At, Complete
<1> QED BY <1>1, <1>2, <1>3, ExitKeeps DEF Clean, Exit

(* What an invocation of run has done keeps it in its place in the         *)
(* invariant.                                                              *)
LEMMA InvocationKeeps ==
  ASSUME IInv, NEW r \in Run, Step(r)
  PROVE  IInv'
BY BeginKeeps, CaptureKeeps, ConfirmKeeps, ReconfirmKeeps, LoadCatalogKeeps, InspectKeeps,
   AuditKeeps, ListRecordsKeeps, OpenStoreKeeps, ExecuteKeeps, AllExecutedKeeps, PutKeeps,
   PutCleanKeeps, SyncChainKeeps, WriteManifestKeeps, LinkKeeps, SyncInstallKeeps, CleanKeeps
DEF Step

(* A later commit is later than every digest and catalog there is.         *)
LEMMA EditKeeps ==
  ASSUME IInv, Edit
  PROVE  IInv'
<1>1. /\ source \in Digest /\ source' = source + 1 /\ source < MaxSource
      /\ UNCHANGED <<world, runsDir, record, recordTemp, manifest, synced, manifestTemp, run>>
  BY DEF Edit, files, IInv, TypeOK
<1>2. TypeOK' BY <1>1, SnapshotRunAssumption DEF IInv, TypeOK, Digest
<1>3. ASSUME NEW r \in Run PROVE RunInv(r)'
  <2>1. /\ RunInv(r) /\ source \in Nat /\ run[r].digest \in Nat /\ run[r].catalog \in Nat
    BY <1>1, AtWork DEF RunState, Digest
  <2>2. OfItsSource(r)' BY <1>1, <2>1 DEF RunInv, OfItsSource
  <2>3. Permitted(r)' /\ OfPassedCells(r)' /\ OnItsDirectory(r)' /\ OfARelease(r)'
    BY <1>1, <2>1 DEF RunInv, Permitted, OfPassedCells, OnItsDirectory, OfARelease, PassedUpTo,
                      At, Exited, Complete, Publishes, ProfileOf
  <2> QED BY <2>2, <2>3 DEF RunInv
<1>4. ASSUME NEW d \in Digest PROVE ManifestInv(d)'
  BY <1>1 DEF IInv, ManifestInv, PassedUpTo, Publishes, ProfileOf
<1> QED BY <1>2, <1>3, <1>4 DEF IInv

(* A crash ends every invocation, and takes neither a release somebody was *)
(* told of nor a record behind a manifest.                                 *)
LEMMA CrashKeeps ==
  ASSUME IInv, Crash
  PROVE  IInv'
<1>1. PICK lost \in SUBSET (Digest \ synced) :
        manifest' = [d \in Digest |-> IF d \in lost THEN None ELSE manifest[d]]
  BY DEF Crash
<1>2. /\ UNCHANGED <<world, source, synced>>
      /\ run' = [r \in Run |-> IF run[r].pc \in Active
                               THEN [run[r] EXCEPT !.pc = "crashed", !.seen = None, !.cell = 1,
                                                   !.failed = FALSE]
                               ELSE run[r]]
      /\ manifestTemp' \in SUBSET manifestTemp
  BY DEF Crash
<1>3. \/ runsDir' = EntrySynced /\ recordTemp' \in SUBSET recordTemp /\ record' = record
      \/ /\ runsDir = "fresh" /\ runsDir' = "absent" /\ recordTemp' = {}
         /\ record' = [r \in Run |-> [c \in Cell |-> "absent"]]
  BY DEF Crash
<1>4. ASSUME NEW r \in Run
      PROVE  /\ run'[r] \in RunState /\ SameIdentity(run'[r], r)
             /\ \/ run[r].pc \notin Active /\ run'[r] = run[r]
                \/ run[r].pc \in Active /\ run'[r].pc = "crashed" /\ run'[r].cell = 1
  <2>1. run[r] \in RunState /\ 1 \in 1 .. Cells + 1 BY AtWork
  <2> QED BY <1>2, <2>1 DEF RunState, SameIdentity
<1>5. TypeOK'
  <2>1. run' \in [Run -> RunState] BY <1>2, <1>4
  <2>2. manifest' \in [Digest -> Run \cup {None}] BY <1>1 DEF IInv, TypeOK
  <2>3. /\ record' \in [Run -> [Cell -> {"absent", "passed", "failed"}]] /\ recordTemp' \subseteq Run
        /\ runsDir' \in {"absent", "fresh", "durable"}
    BY <1>3 DEF IInv, TypeOK, EntrySynced
  <2> QED BY <1>2, <2>1, <2>2, <2>3 DEF IInv, TypeOK
<1>6. ASSUME NEW r \in Run PROVE RunInv(r)'
  <2>1. CASE run[r].pc \in Active
    BY <1>4, <2>1 DEF RunInv, OfItsSource, Permitted, OfPassedCells, OnItsDirectory, OfARelease,
                      At, Exited, Loaded, Publishing
  <2>2. CASE run[r].pc \notin Active
    <3>1. run'[r] = run[r] /\ RunInv(r) /\ run[r].digest \in Digest BY <1>4, <2>2, AtWork
    <3>2. run[r].pc \notin {"load"} \cup Loaded
      BY <2>2 DEF Active, Loaded, Publishing
    <3>3. OfItsSource(r)' /\ Permitted(r)' /\ OnItsDirectory(r)'
      BY <3>1, <3>2 DEF OfItsSource, Permitted, OnItsDirectory, Loaded, Publishing
    <3>4. OfPassedCells(r)'
      BY <1>3, <3>1, <3>2 DEF RunInv, OfPassedCells, At, Loaded, Publishing
    <3>5. run[r].digest \in synced => manifest'[run[r].digest] = manifest[run[r].digest]
      BY <1>1, <3>1
    <3>6. manifest[run[r].digest] # None => manifest[run[r].digest] \in Run
      BY <3>1 DEF IInv, TypeOK
    <3>7. Complete(run[r].digest, ProfileOf(r)) /\ run[r].digest \in synced
          => Complete(run[r].digest, ProfileOf(r))'
      BY <1>4, <3>1, <3>5, <3>6 DEF Complete, ProfileOf, SameIdentity
    <3>8. OfARelease(r)'
      <4>1. run[r].pc \notin {"sync-install", "clean", "audit", "list"}
        BY <3>2 DEF Loaded, Publishing
      <4>2. Exited(r, 0)' /\ Publishes(r)' => Exited(r, 0) /\ Publishes(r)
        BY <3>1 DEF Exited, At, Publishes
      <4>3. Exited(r, 0) /\ Publishes(r) =>
              Complete(run[r].digest, ProfileOf(r)) /\ run[r].digest \in synced
        BY <3>1 DEF RunInv, OfARelease
      <4>4. run'[r].digest = run[r].digest /\ synced' = synced BY <1>2, <3>1
      <4> QED BY <3>1, <3>7, <4>1, <4>2, <4>3, <4>4 DEF OfARelease, At
    <3> QED BY <3>3, <3>4, <3>8 DEF RunInv
  <2> QED BY <2>1, <2>2
<1>7. ASSUME NEW d \in Digest PROVE ManifestInv(d)'
  <2> SUFFICES ASSUME manifest'[d] # None PROVE ManifestInv(d)' BY DEF ManifestInv
  <2>1. manifest'[d] = manifest[d] /\ manifest[d] # None /\ manifest[d] \in Run
    BY <1>1 DEF IInv, TypeOK
  <2>2. ManifestInv(d) BY DEF IInv
  <2>3. record' = record /\ runsDir' = "durable"
    BY <1>3, <2>1, <2>2 DEF ManifestInv, EntrySynced
  <2>4. PICK r \in Run : r = manifest[d] BY <2>1
  <2>5. run[r].pc \in {"sync-install", "clean", "exited", "crashed"} BY <2>1, <2>2, <2>4 DEF ManifestInv
  <2>6. SameIdentity(run'[r], r) /\ run'[r].pc \in {"exited", "crashed"}
    BY <1>4, <2>5 DEF Active
  <2>7. /\ runsDir' = "durable" /\ PassedUpTo(r, Cells)'
        /\ run'[r].digest = d /\ run'[r].built = d /\ run'[r].catalog = d
        /\ Publishes(r)' /\ (ProfileOf(r)' = "smoke" => world'.root = "elsewhere")
    BY <1>2, <2>1, <2>2, <2>3, <2>4, <2>6
    DEF ManifestInv, PassedUpTo, SameIdentity, Publishes, ProfileOf
  <2> QED BY <2>1, <2>4, <2>6, <2>7 DEF ManifestInv, PassedUpTo, Publishes, ProfileOf
<1> QED BY <1>5, <1>6, <1>7 DEF IInv

(* Before the first invocation there is no manifest.                       *)
LEMMA InitHolds == Init => IInv
<1> SUFFICES ASSUME Init PROVE IInv OBVIOUS
<1>1. (CHOOSE o \in Options : TRUE) \in Options
  <2>1. [snapshot |-> TRUE, profile |-> "smoke"] \in Options BY DEF Options
  <2> QED BY <2>1
<1>2. 0 \in Digest /\ 1 \in 1 .. Cells + 1 BY SnapshotRunAssumption DEF Digest
<1>3. TypeOK
  BY <1>1, <1>2, SnapshotRunAssumption DEF Init, TypeOK, RunState, Exit
<1>4. ASSUME NEW r \in Run PROVE RunInv(r)
  <2>1. run[r].pc = "idle" /\ run[r].cell = 1 /\ \A c \in Cell : record[r][c] = "absent"
    BY DEF Init
  <2> QED BY <2>1 DEF RunInv, OfItsSource, Permitted, OfPassedCells, OnItsDirectory, OfARelease,
                      At, Exited, Loaded, Publishing
<1>5. ASSUME NEW d \in Digest PROVE ManifestInv(d) BY DEF Init, ManifestInv
<1> QED BY <1>3, <1>4, <1>5 DEF IInv

(* Every step keeps the invariant.                                         *)
LEMMA StepKeeps ==
  ASSUME IInv, [Next]_vars
  PROVE  IInv'
<1>1. CASE UNCHANGED vars
  <2>1. UNCHANGED <<world, source, runsDir, record, recordTemp, manifest, synced, manifestTemp, run>>
    BY <1>1 DEF vars
  <2>2. TypeOK' BY <2>1 DEF IInv, TypeOK
  <2>3. ASSUME NEW r \in Run PROVE RunInv(r)'
    BY <2>1 DEF IInv, RunInv, OfItsSource, Permitted, OfPassedCells, OnItsDirectory, OfARelease,
                PassedUpTo, At, Exited, Complete, Publishes, ProfileOf
  <2>4. ASSUME NEW d \in Digest PROVE ManifestInv(d)'
    BY <2>1 DEF IInv, ManifestInv, PassedUpTo, Publishes, ProfileOf
  <2> QED BY <2>2, <2>3, <2>4 DEF IInv
<1> QED BY <1>1, InvocationKeeps, EditKeeps, CrashKeeps DEF Next

------------------------------------------------------------------------------
(* The theorems.                                                           *)

(* The inductive invariant holds in every reachable state.                 *)
THEOREM Invariance == Spec => []IInv
<1>1. Init => IInv BY InitHolds
<1>2. IInv /\ [Next]_vars => IInv' BY StepKeeps
<1> QED BY <1>1, <1>2, PTL DEF Spec

(* Every reachable state has its type.                                     *)
THEOREM TypeCorrect == Spec => []TypeOK
<1>1. IInv => TypeOK BY DEF IInv
<1> QED BY <1>1, Invariance, PTL

(* No manifest stands without passed records that no crash can take.       *)
THEOREM ManifestBacked == Spec => []ManifestIsBacked
<1>1. ASSUME IInv PROVE ManifestIsBacked
  <2> SUFFICES ASSUME NEW d \in Digest, manifest[d] # None
               PROVE  runsDir = "durable" /\ \A c \in Cell : record[manifest[d]][c] = "passed"
    BY DEF ManifestIsBacked
  <2>1. ManifestInv(d) /\ \A c \in Cell : c <= Cells BY <1>1, AtWork DEF IInv, Cell
  <2> QED BY <2>1 DEF ManifestInv, PassedUpTo
<1> QED BY <1>1, Invariance, PTL

(* No manifest names a commit its cells were not defined and run by.       *)
THEOREM ManifestNames == Spec => []ManifestNamesItsSource
<1>1. IInv => ManifestNamesItsSource BY DEF IInv, ManifestInv, ManifestNamesItsSource
<1> QED BY <1>1, Invariance, PTL

------------------------------------------------------------------------------
(* The ledger.                                                             *)

(* How an invocation ends or goes on.                                      *)
LEMMA UpdateShape ==
  ASSUME TypeOK, NEW r \in Run, NEW s, Update(r, s)
  PROVE  run'[r] = s /\ \A q \in Run \ {r} : run'[q] = run[q]
BY DEF TypeOK, Update

Ended(r, code) ==
  /\ run'[r].pc = "exited" /\ run'[r].exit = code /\ SameIdentity(run'[r], r)
  /\ run'[r].retry = run[r].retry /\ \A q \in Run \ {r} : run'[q] = run[q]

WentOn(r, l) ==
  /\ run'[r].pc = l /\ SameIdentity(run'[r], r) /\ run'[r].retry = run[r].retry
  /\ \A q \in Run \ {r} : run'[q] = run[q]

(* What the two kinds of steps leave of the control state.                 *)
LEMMA ExitShape ==
  ASSUME TypeOK, NEW r \in Run, NEW code \in Exit, ExitWith(r, code)
  PROVE  Ended(r, code)
<1> DEFINE s == Left(r, code)
<1>1. Update(r, s) BY DEF ExitWith, Left
<1>2. s.pc = "exited" /\ s.exit = code /\ SameIdentity(s, r) /\ s.retry = run[r].retry
  BY ExitFields
<1> HIDE DEF s
<1> QED BY <1>1, <1>2, UpdateShape DEF Ended, SameIdentity

(* What a step to the next place leaves of it.                             *)
LEMMA GotoShape ==
  ASSUME TypeOK, NEW r \in Run, NEW l \in Active, Goto(r, l)
  PROVE  WentOn(r, l)
<1> DEFINE s == [run[r] EXCEPT !.pc = l]
<1>1. Update(r, s) BY DEF Goto
<1>2. s.pc = l /\ SameIdentity(s, r) /\ s.retry = run[r].retry
  BY DEF TypeOK, RunState, SameIdentity
<1> HIDE DEF s
<1> QED BY <1>1, <1>2, UpdateShape DEF WentOn, SameIdentity

(* The shape of a step: whose control state it changes, that what was asked*)
(* for stays, and that a manifest is installed at a free name by its       *)
(* publisher, who is told of it later.                                     *)
OneOfItsSteps(r) ==
  /\ \A q \in Run \ {r} : run'[q] = run[q]
  /\ run[r].pc \in {"idle"} \cup Active
  /\ At(r, "idle") \/ run'[r].option = run[r].option
  /\ \/ manifest' = manifest
     \/ /\ At(r, "link") /\ manifest[run[r].digest] = None
        /\ manifest' = [manifest EXCEPT ![run[r].digest] = r]
        /\ ~Exited(r, 0)'

(* A step whose control state is written out.                              *)
LEMMA UpdateIsOne ==
  ASSUME TypeOK, NEW r \in Run, NEW s, Update(r, s), run[r].pc \in Active,
         s.option = run[r].option, manifest' = manifest
  PROVE  OneOfItsSteps(r)
BY UpdateShape DEF OneOfItsSteps

(* An end, or a step to the next place.                                    *)
LEMMA MoveIsOne ==
  ASSUME TypeOK, NEW r \in Run, run[r].pc \in Active, manifest' = manifest,
         (\E code \in Exit : ExitWith(r, code)) \/ (\E l \in Active : Goto(r, l))
  PROVE  OneOfItsSteps(r)
BY ExitShape, GotoShape DEF OneOfItsSteps, Ended, WentOn, SameIdentity

(* Every step of an invocation has that shape.                             *)
LEMMA StepShape ==
  ASSUME TypeOK, NEW r \in Run, Step(r)
  PROVE  OneOfItsSteps(r)
<1>0. run[r] \in RunState BY DEF TypeOK
<1>1. ASSUME NEW option \in world.option, Begin(r, option) PROVE OneOfItsSteps(r)
  BY <1>1, UpdateShape DEF Begin, OneOfItsSteps, At, files
<1>2. CASE Capture(r)
  <2>1. CASE ExitWith(r, 2) BY <1>2, <2>1, MoveIsOne DEF Capture, files, Active, Exit
  <2> DEFINE s == [run[r] EXCEPT !.seen = Repository,
                                 !.pc = IF @ = "capture" THEN "confirm" ELSE "reconfirm"]
  <2>2. CASE Update(r, s)
    <3>1. s.option = run[r].option BY <1>0 DEF RunState
    <3> HIDE DEF s
    <3> QED BY <1>2, <2>2, <3>1, UpdateIsOne DEF Capture, files, Active
  <2> QED BY <1>2, <2>1, <2>2 DEF Capture
<1>3. CASE Confirm(r)
  <2>1. CASE ExitWith(r, 2) BY <1>3, <2>1, MoveIsOne DEF Confirm, files, Active, Exit, At
  <2> DEFINE s == [run[r] EXCEPT !.pc = "load", !.digest = source, !.seen = None]
  <2>2. CASE Update(r, s)
    <3>1. s.option = run[r].option BY <1>0 DEF RunState
    <3> HIDE DEF s
    <3> QED BY <1>3, <2>2, <3>1, UpdateIsOne DEF Confirm, files, Active, At
  <2> QED BY <1>3, <2>1, <2>2 DEF Confirm
<1>4. CASE Reconfirm(r)
  <2>1. CASE ExitWith(r, 2) \/ ExitWith(r, Verdict(r))
    BY <1>4, <2>1, MoveIsOne DEF Reconfirm, Verdict, files, Active, Exit, At
  <2> DEFINE s == [run[r] EXCEPT !.pc = "sync-chain", !.seen = None]
  <2>2. CASE Update(r, s)
    <3>1. s.option = run[r].option BY <1>0 DEF RunState
    <3> HIDE DEF s
    <3> QED BY <1>4, <2>2, <3>1, UpdateIsOne DEF Reconfirm, files, Active, At
  <2> QED BY <1>4, <2>1, <2>2 DEF Reconfirm
<1>5. CASE LoadCatalog(r)
  <2>1. CASE ExitWith(r, 2) BY <1>5, <2>1, MoveIsOne DEF LoadCatalog, files, Active, Exit, At
  <2> DEFINE s == [run[r] EXCEPT !.catalog = source,
                                 !.pc = IF Publishes(r) THEN "inspect" ELSE "open-store"]
  <2>2. CASE Update(r, s)
    <3>1. s.option = run[r].option BY <1>0 DEF RunState
    <3> HIDE DEF s
    <3> QED BY <1>5, <2>2, <3>1, UpdateIsOne DEF LoadCatalog, files, Active, At
  <2> QED BY <1>5, <2>1, <2>2 DEF LoadCatalog
<1>6. CASE Inspect(r) BY <1>6, MoveIsOne DEF Inspect, Active, Exit
<1>7. CASE Audit(r) \/ ListRecords(r)
  BY <1>7, MoveIsOne DEF Audit, ListRecords, Active, Exit, At, files
<1>8. CASE OpenStore(r) \/ SyncChain(r) \/ WriteManifest(r)
  BY <1>8, MoveIsOne DEF OpenStore, SyncChain, WriteManifest, Active, Exit, At
<1>9. CASE Execute(r)
  <2>1. CASE ExitWith(r, 2) \/ Goto(r, "put")
    BY <1>9, <2>1, MoveIsOne DEF Execute, Active, Exit, At
  <2> DEFINE s == [run[r] EXCEPT !.cell = @ + 1, !.failed = TRUE]
  <2>2. CASE Update(r, s)
    <3>1. s.option = run[r].option BY <1>0 DEF RunState
    <3> HIDE DEF s
    <3> QED BY <1>9, <2>2, <3>1, UpdateIsOne DEF Execute, Active, At
  <2> QED BY <1>9, <2>1, <2>2 DEF Execute
<1>10. CASE AllExecuted(r)
  <2> DEFINE s == [run[r] EXCEPT !.pc = "recapture", !.cell = 1]
  <2>1. s.option = run[r].option BY <1>0 DEF RunState
  <2>2. Update(r, s) BY <1>10 DEF AllExecuted
  <2> HIDE DEF s
  <2> QED BY <1>10, <2>1, <2>2, UpdateIsOne DEF AllExecuted, files, Active, At
<1>11. CASE Put(r)
  <2> SUFFICES ASSUME NEW status \in Attempt,
                      \/ Update(r, [run[r] EXCEPT !.pc = "put-clean", !.failed = @ \/ status = "failed"])
                      \/ ExitWith(r, 2)
               PROVE  OneOfItsSteps(r)
    BY <1>11 DEF Put
  <2>1. CASE ExitWith(r, 2) BY <1>11, <2>1, MoveIsOne DEF Put, Active, Exit, At
  <2> DEFINE s == [run[r] EXCEPT !.pc = "put-clean", !.failed = @ \/ status = "failed"]
  <2>2. CASE Update(r, s)
    <3>1. s.option = run[r].option BY <1>0 DEF RunState
    <3> HIDE DEF s
    <3> QED BY <1>11, <2>2, <3>1, UpdateIsOne DEF Put, Active, At
  <2> QED BY <2>1, <2>2
<1>12. CASE PutClean(r)
  <2>1. CASE ExitWith(r, 2) BY <1>12, <2>1, MoveIsOne DEF PutClean, Active, Exit, At
  <2> DEFINE s == [run[r] EXCEPT !.pc = "execute", !.cell = @ + 1]
  <2>2. CASE Update(r, s)
    <3>1. s.option = run[r].option BY <1>0 DEF RunState
    <3> HIDE DEF s
    <3> QED BY <1>12, <2>2, <3>1, UpdateIsOne DEF PutClean, Active, At
  <2> QED BY <1>12, <2>1, <2>2 DEF PutClean
<1>13. CASE Link(r)
  <2>1. run[r].pc \in Active /\ At(r, "link") BY <1>13 DEF Link, Active, At
  <2>2. CASE manifest' = manifest
    BY <1>13, <2>1, <2>2, MoveIsOne DEF Link, Active, Exit
  <2>3. CASE Free(run[r].digest) /\ manifest' = [manifest EXCEPT ![run[r].digest] = r]
                /\ (Goto(r, "sync-install") \/ ExitWith(r, 2))
    BY <2>1, <2>3, ExitShape, GotoShape
    DEF OneOfItsSteps, Free, Ended, WentOn, SameIdentity, Exited, At, Active, Exit
  <2> QED BY <1>13, <2>2, <2>3 DEF Link
<1>14. CASE SyncInstall(r) \/ Clean(r)
  BY <1>14, MoveIsOne DEF SyncInstall, Clean, Active, Exit, At
<1> QED BY <1>1, <1>2, <1>3, <1>4, <1>5, <1>6, <1>7, <1>8, <1>9, <1>10, <1>11, <1>12, <1>13, <1>14
        DEF Step

(* The ledger's variables.                                                 *)
Releases == [d \in Digest |-> IF manifest[d] = None THEN None
                              ELSE <<manifest[d], ProfileOf(manifest[d])>>]
Told == {<<run[r].digest, ProfileOf(r)>> : r \in {s \in Run : Publishes(s) /\ Exited(s, 0)}}

(* A step tells nobody, or one who asked for a release that stands.        *)
LEMMA ToldGrows ==
  ASSUME IInv, IInv', NEW r \in Run, OneOfItsSteps(r)
  PROVE  \/ Told' = Told
         \/ /\ Exited(r, 0)'
            /\ \E d \in Digest, p \in {"smoke", "deep"} :
                 Told' = Told \cup {<<d, p>>} /\ Complete(d, p)'
<1>1. \A q \in Run \ {r} : run'[q] = run[q] BY DEF OneOfItsSteps
<1>2. ~Exited(r, 0) BY DEF OneOfItsSteps, Exited, At, Active
<1>3. CASE ~(Publishes(r)' /\ Exited(r, 0)')
  <2>1. \A q \in Run : (Publishes(q)' /\ Exited(q, 0)') <=> (Publishes(q) /\ Exited(q, 0))
    BY <1>1, <1>2, <1>3 DEF Publishes, Exited, At
  <2>2. \A q \in Run : Publishes(q) /\ Exited(q, 0) => run'[q] = run[q] BY <1>1, <1>2
  <2> QED BY <2>1, <2>2 DEF Told, ProfileOf
<1>4. CASE Publishes(r)' /\ Exited(r, 0)'
  <2>1. PICK d \in Digest, p \in {"smoke", "deep"} :
          d = run'[r].digest /\ p = run'[r].option.profile
    BY DEF IInv, TypeOK, RunState, Options
  <2>2. Complete(d, p)'
    <3>1. RunInv(r)' BY DEF IInv
    <3> QED BY <1>4, <2>1, <3>1 DEF RunInv, OfARelease, ProfileOf, Complete
  <2>3. \A q \in Run : (Publishes(q)' /\ Exited(q, 0)') <=> (q = r \/ (Publishes(q) /\ Exited(q, 0)))
    BY <1>1, <1>2, <1>4 DEF Publishes, Exited, At
  <2>4. \A q \in Run : Publishes(q) /\ Exited(q, 0) => run'[q] = run[q] BY <1>1, <1>2
  <2>5. Told' = Told \cup {<<d, p>>}
    <3>1. ASSUME NEW x \in Told' PROVE x \in Told \cup {<<d, p>>}
      <4>1. PICK q \in Run : Publishes(q)' /\ Exited(q, 0)' /\ x = <<run'[q].digest, ProfileOf(q)'>>
        BY <3>1 DEF Told
      <4> QED BY <2>1, <2>3, <2>4, <4>1 DEF Told, ProfileOf
    <3>2. ASSUME NEW x \in Told \cup {<<d, p>>} PROVE x \in Told'
      <4>1. CASE x = <<d, p>> BY <1>4, <2>1, <4>1 DEF Told, ProfileOf
      <4>2. CASE x \in Told
        <5>1. PICK q \in Run : Publishes(q) /\ Exited(q, 0) /\ x = <<run[q].digest, ProfileOf(q)>>
          BY <4>2 DEF Told
        <5>2. Publishes(q)' /\ Exited(q, 0)' /\ x = <<run'[q].digest, ProfileOf(q)'>>
          BY <2>3, <2>4, <5>1 DEF ProfileOf
        <5> QED BY <5>2 DEF Told
      <4> QED BY <3>2, <4>1, <4>2
    <3> QED BY <3>1, <3>2
  <2> QED BY <1>4, <2>1, <2>2, <2>5
<1> QED BY <1>3, <1>4

(* Who a release is of, and its profile, stay as long as its manifest.     *)
LEMMA WinnersStay ==
  ASSUME IInv, NEW r \in Run, OneOfItsSteps(r), NEW d \in Digest, manifest[d] # None
  PROVE  /\ manifest[d] \in Run /\ manifest'[d] = manifest[d]
         /\ run'[manifest[d]].option = run[manifest[d]].option
<1>1. ManifestInv(d) /\ manifest \in [Digest -> Run \cup {None}] /\ run[r].digest \in Digest
  BY DEF IInv, TypeOK, RunState
<1>2. manifest[d] \in Run /\ run[manifest[d]].pc # "idle" BY <1>1 DEF ManifestInv
<1>3. manifest'[d] = manifest[d] BY <1>1 DEF OneOfItsSteps
<1> QED BY <1>2, <1>3 DEF OneOfItsSteps, At

(* A step publishes nothing, or the release of a digest that had none.     *)
LEMMA ReleasesGrow ==
  ASSUME IInv, NEW r \in Run, OneOfItsSteps(r)
  PROVE  \/ manifest' = manifest /\ Releases' = Releases
         \/ /\ Releases[run[r].digest] = None /\ ~Exited(r, 0)'
            /\ Releases' = [Releases EXCEPT ![run[r].digest] = <<r, ProfileOf(r)>>]
<1>1. \A d \in Digest : manifest[d] # None =>
        manifest[d] \in Run /\ ProfileOf(manifest[d])' = ProfileOf(manifest[d])
  BY WinnersStay DEF ProfileOf
<1>2. CASE manifest' = manifest
  <2>1. \A d \in Digest : manifest[d] # None =>
          run'[manifest[d]].option = run[manifest[d]].option
    BY WinnersStay
  <2> QED BY <1>2, <2>1 DEF Releases, ProfileOf
<1>3. CASE /\ At(r, "link") /\ manifest[run[r].digest] = None /\ ~Exited(r, 0)'
           /\ manifest' = [manifest EXCEPT ![run[r].digest] = r]
  <2> DEFINE e == run[r].digest
  <2>1. e \in Digest /\ r # None /\ manifest \in [Digest -> Run \cup {None}]
    BY SnapshotRunAssumption DEF IInv, TypeOK, RunState
  <2>2. run'[r].option = run[r].option BY <1>3 DEF OneOfItsSteps, At
  <2>3. manifest'[e] = r /\ \A d \in Digest \ {e} : manifest'[d] = manifest[d] BY <1>3, <2>1
  <2>4. \A d \in Digest : manifest[d] # None =>
          run'[manifest[d]].option = run[manifest[d]].option
    BY WinnersStay
  <2> HIDE DEF e
  <2>5. Releases' = [d \in Digest |-> IF d = e THEN <<r, ProfileOf(r)>> ELSE Releases[d]]
    BY <2>1, <2>2, <2>3, <2>4 DEF Releases, ProfileOf
  <2>6. Releases[e] = None BY <1>3, <2>1 DEF Releases, e
  <2>7. Releases' = [Releases EXCEPT ![e] = <<r, ProfileOf(r)>>]
    BY <2>1, <2>5 DEF Releases
  <2> QED BY <1>3, <2>6, <2>7 DEF e
<1> QED BY <1>2, <1>3 DEF OneOfItsSteps

(* A step of an invocation is one of the ledger, or none.                  *)
LEMMA InvocationIsLedgerStep ==
  ASSUME IInv, IInv', NEW r \in Run, Step(r)
  PROVE  Ledger!Next \/ (Releases' = Releases /\ Told' = Told)
<1>1. OneOfItsSteps(r) BY StepShape DEF IInv
<1>2. run[r].digest \in Digest /\ ProfileOf(r) \in {"smoke", "deep"} BY AtWork
<1>3. CASE Releases' = [Releases EXCEPT ![run[r].digest] = <<r, ProfileOf(r)>>]
           /\ Releases[run[r].digest] = None /\ ~Exited(r, 0)'
  <2>1. Told' = Told BY <1>1, <1>3, ToldGrows
  <2>2. PICK d \in Digest, p \in {"smoke", "deep"} : d = run[r].digest /\ p = ProfileOf(r)
    BY <1>2
  <2>3. Ledger!Publish(r, d, p)
    BY <1>3, <2>1, <2>2 DEF Ledger!Publish, Releases, Told
  <2> QED BY <2>3 DEF Ledger!Next
<1>4. CASE manifest' = manifest /\ Releases' = Releases /\ Told' # Told
  <2>1. PICK d \in Digest, p \in {"smoke", "deep"} : Told' = Told \cup {<<d, p>>} /\ Complete(d, p)'
    BY <1>1, <1>4, ToldGrows
  <2>2. manifest[d] # None /\ run'[manifest[d]].option.profile = p
    BY <1>4, <2>1 DEF Complete, ProfileOf
  <2>3. manifest[d] \in Run /\ ProfileOf(manifest[d]) = p
    BY <1>1, <2>2, WinnersStay DEF ProfileOf
  <2>4. Releases[d] = <<manifest[d], p>> BY <2>2, <2>3 DEF Releases
  <2>5. Releases[d] # None /\ Releases[d][2] = p
    BY <2>3, <2>4, SnapshotRunAssumption
  <2>6. Ledger!Tell(d, p) BY <1>4, <2>1, <2>5 DEF Ledger!Tell, Releases, Told
  <2> QED BY <2>6 DEF Ledger!Next
<1> QED BY <1>1, <1>3, <1>4, ReleasesGrow

(* A crash loses releases nobody was told of.                              *)
LEMMA CrashIsLedgerStep ==
  ASSUME IInv, Crash
  PROVE  Ledger!Next
<1>1. PICK lost \in SUBSET (Digest \ synced) :
        manifest' = [d \in Digest |-> IF d \in lost THEN None ELSE manifest[d]]
  BY DEF Crash
<1>2. ASSUME NEW r \in Run
      PROVE  /\ run'[r].option = run[r].option
             /\ Exited(r, 0)' <=> Exited(r, 0)
             /\ Exited(r, 0) => run'[r] = run[r]
  <2>1. run[r] \in RunState
        /\ run'[r] = IF run[r].pc \in Active
                     THEN [run[r] EXCEPT !.pc = "crashed", !.seen = None, !.cell = 1, !.failed = FALSE]
                     ELSE run[r]
    BY DEF Crash, IInv, TypeOK
  <2>2. run[r].pc = "exited" => run[r].pc \notin Active BY DEF Active
  <2>3. CASE run[r].pc \in Active
    <3>1. run'[r].pc = "crashed" /\ run'[r].option = run[r].option BY <2>1, <2>3 DEF RunState
    <3> QED BY <2>2, <2>3, <3>1 DEF Exited, At
  <2>4. CASE run[r].pc \notin Active BY <2>1, <2>4 DEF Exited, At
  <2> QED BY <2>3, <2>4
<1>3. Told' = Told
  <2>1. \A r \in Run : (Publishes(r)' /\ Exited(r, 0)') <=> (Publishes(r) /\ Exited(r, 0))
    BY <1>2 DEF Publishes
  <2> QED BY <1>2, <2>1 DEF Told, ProfileOf
<1>4. ASSUME NEW x \in Told PROVE x[1] \notin lost
  <2>1. PICK r \in Run : Publishes(r) /\ Exited(r, 0) /\ x = <<run[r].digest, ProfileOf(r)>>
    BY <1>4 DEF Told
  <2>2. RunInv(r) BY DEF IInv
  <2>3. run[r].digest \in synced BY <2>1, <2>2 DEF RunInv, OfARelease
  <2> QED BY <2>1, <2>3
<1>5. \A d \in Digest : manifest[d] # None => manifest[d] \in Run BY DEF IInv, TypeOK
<1>6. Releases' = [d \in Digest |-> IF d \in lost THEN None ELSE Releases[d]]
  BY <1>1, <1>2, <1>5 DEF Releases, ProfileOf
<1>7. Ledger!Lose(lost) BY <1>3, <1>4, <1>6 DEF Ledger!Lose, Releases, Told
<1> QED BY <1>7 DEF Ledger!Next

(* Exit code 0 and the manifests are a ledger: at most one release for     *)
(* each digest, which nobody loses who was told of it.                     *)
THEOREM ImplementsLedger == Spec => LedgerSpec
<1>1. Init => Ledger!Init
  <2> SUFFICES ASSUME Init PROVE Ledger!Init OBVIOUS
  <2>1. \A r \in Run : ~Exited(r, 0) BY DEF Init, Exited, At
  <2>2. \A d \in Digest : manifest[d] = None BY DEF Init
  <2> QED BY <2>1, <2>2 DEF Ledger!Init
<1>2. IInv /\ IInv' /\ [Next]_vars => [Ledger!Next]_(Ledger!vars)
  <2> SUFFICES ASSUME IInv, IInv', [Next]_vars
               PROVE  Ledger!Next \/ (Releases' = Releases /\ Told' = Told)
    BY DEF Ledger!vars, Releases, Told
  <2>1. ASSUME UNCHANGED <<manifest, run>> PROVE Releases' = Releases /\ Told' = Told
    BY <2>1 DEF Releases, Told, ProfileOf, Publishes, Exited, At
  <2>2. CASE UNCHANGED vars \/ Edit BY <2>1, <2>2 DEF vars, Edit, files
  <2> QED BY <2>2, InvocationIsLedgerStep, CrashIsLedgerStep DEF Next
<1> QED BY <1>1, <1>2, Invariance, PTL DEF Spec, LedgerSpec, Ledger!Spec

------------------------------------------------------------------------------
(* A retry.                                                                *)

(* What a step leaves alone, whatever it is.                               *)
LEMMA StepFrame ==
  ASSUME TypeOK, NEW r \in Run, Step(r)
  PROVE  /\ UNCHANGED <<world, source>>
         /\ recordTemp' \subseteq recordTemp \cup {r}
         /\ manifestTemp' \subseteq manifestTemp \cup {r}
         /\ \A q \in Run \ {r} : record'[q] = record[q]
<1>1. ASSUME NEW option \in world.option, Begin(r, option)
      PROVE  UNCHANGED <<world, source, record, recordTemp, manifestTemp>>
  BY <1>1 DEF Begin, files
<1>2. CASE Capture(r) \/ Confirm(r) \/ Reconfirm(r) \/ LoadCatalog(r) \/ Audit(r) \/ ListRecords(r)
           \/ AllExecuted(r)
  BY <1>2 DEF Capture, Confirm, Reconfirm, LoadCatalog, Audit, ListRecords, AllExecuted, files
<1>3. CASE Inspect(r) \/ OpenStore(r) \/ SyncChain(r)
  BY <1>3 DEF Inspect, OpenStore, SyncChain
<1>4. CASE Execute(r) BY <1>4 DEF Execute
<1>5. CASE Put(r)
  <2>1. \A q \in Run \ {r}, status \in Attempt : Stored(r, status)[q] = record[q]
    BY DEF TypeOK, Stored
  <2> QED BY <1>5, <2>1 DEF Put
<1>6. CASE PutClean(r) BY <1>6 DEF PutClean
<1>7. CASE WriteManifest(r) BY <1>7 DEF WriteManifest
<1>8. CASE Link(r) BY <1>8 DEF Link
<1>9. CASE SyncInstall(r) BY <1>9 DEF SyncInstall
<1>10. CASE Clean(r) BY <1>10 DEF Clean
<1> QED BY <1>1, <1>2, <1>3, <1>4, <1>5, <1>6, <1>7, <1>8, <1>9, <1>10 DEF Step

(* Where it is quiet no call fails, and only one that has begun to write   *)
(* has a temporary file.                                                   *)
LEMMA QuietContext ==
  ASSUME IInv, QuietInv, Quiet, NEW r \in Run
  PROVE  /\ ~Fault /\ "overlap" \notin world.threat /\ source = 0
         /\ "edit" \notin world.threat /\ "crash" \notin world.threat
         /\ run[r] \in RunState /\ RunInv(r) /\ RunsQuietly(r)
         /\ run[r].pc \in Active => \A q \in Run \ {r} : run[q].pc \notin Active
         /\ run[r].pc \in Active \ {"put", "put-clean"} => recordTemp = {}
         /\ run[r].pc \in Active \ {"link", "sync-install", "clean"} => manifestTemp = {}
         /\ \A d \in Digest : ManifestInv(d)
<1>1. /\ ~Fault /\ "overlap" \notin world.threat /\ source = 0
      /\ "edit" \notin world.threat /\ "crash" \notin world.threat
  BY DEF QuietInv, Quiet, Fault
<1>2. run[r] \in RunState /\ RunInv(r) /\ RunsQuietly(r) /\ \A d \in Digest : ManifestInv(d)
  BY DEF IInv, TypeOK, QuietInv
<1>3. run[r].pc \in Active => \A q \in Run \ {r} : run[q].pc \notin Active
  BY DEF QuietInv, Alone
<1>4. /\ \A q \in recordTemp : q \in Run /\ run[q].pc \in {"put", "put-clean"}
      /\ \A q \in manifestTemp : q \in Run /\ run[q].pc \in {"link", "sync-install", "clean"}
  BY DEF QuietInv, RunsQuietly, CleansUp, IInv, TypeOK
<1>5. {"put", "put-clean", "link", "sync-install", "clean"} \subseteq Active BY DEF Active
<1> QED BY <1>1, <1>2, <1>3, <1>4, <1>5

(* A release that is complete stays so.                                    *)
LEMMA CompleteStays ==
  ASSUME IInv, NEW r \in Run, Step(r), NEW d \in Digest, NEW p, Complete(d, p)
  PROVE  Complete(d, p)'
<1>1. OneOfItsSteps(r) BY StepShape DEF IInv
<1> QED BY <1>1, WinnersStay DEF Complete, ProfileOf

Later == Active \ {"capture", "confirm", "load", "inspect", "audit", "list"}

(* Who opens the store is no retry.                                        *)
LEMMA LaterIsQuiet ==
  ASSUME NEW r \in Run, RunsQuietly(r), run[r].pc \in Later,
         run'[r].built = run[r].built, run'[r].retry = run[r].retry,
         LooksAlike(r)', CleansUp(r)'
  PROVE  RunsQuietly(r)'
<1>1. ~run[r].retry BY DEF RunsQuietly, OnItsWay, Later, Active, Exited, At
<1> QED BY <1>1 DEF RunsQuietly, OnItsWay

(* An invocation that finds a release of its digest has nothing recorded.  *)
LEMMA BeginIsQuiet ==
  ASSUME IInv, QuietInv, Quiet, NEW r \in Run, NEW option \in world.option, Begin(r, option)
  PROVE  RunsQuietly(r)'
<1> DEFINE s == [run[r] EXCEPT !.pc = "capture", !.built = source, !.option = option,
                               !.retry = option.snapshot /\ Complete(source, option.profile)]
<1>1. /\ s.pc = "capture" /\ s.built = source /\ s.option = option
      /\ s.retry = (option.snapshot /\ Complete(source, option.profile))
  BY AtWork DEF RunState
<1>2. Update(r, s) /\ At(r, "idle") /\ UNCHANGED <<source, files>> BY DEF Begin
<1> HIDE DEF s
<1>3. run'[r] = s BY <1>2, UpdateShape DEF IInv
<1>4. source = 0 /\ r \notin recordTemp /\ r \notin manifestTemp /\ 0 \in Digest
  BY <1>2, QuietContext, SnapshotRunAssumption DEF RunsQuietly, CleansUp, At, IInv, TypeOK
<1>5. \A c \in Cell : record'[r][c] = "absent"
  BY <1>2, AtWork DEF RunInv, OfPassedCells, files
<1>6. s.retry => Complete(0, option.profile)'
  <2>1. Step(r) BY DEF Step
  <2> QED BY <1>1, <1>4, <2>1, CompleteStays
<1>7. OnItsWay(r)' BY <1>1, <1>3, <1>5, <1>6 DEF OnItsWay, Publishes, ProfileOf, Complete
<1> QED BY <1>1, <1>2, <1>3, <1>4, <1>7 DEF RunsQuietly, LooksAlike, CleansUp, files

(* What has nothing to write changes no more than its control state.       *)
LEMMA LookIsQuiet ==
  ASSUME IInv, QuietInv, Quiet, NEW r \in Run, Step(r), run[r].pc \in Active,
         run'[r].built = run[r].built, run'[r].retry = run[r].retry,
         run'[r].option = run[r].option,
         UNCHANGED <<record, recordTemp, manifestTemp>>, recordTemp = {}, manifestTemp = {},
         run[r].retry => run'[r].pc \in {"confirm", "load", "inspect", "audit", "list"} \/ Exited(r, 0)',
         LooksAlike(r)'
  PROVE  RunsQuietly(r)'
<1>1. RunsQuietly(r) /\ 0 \in Digest BY QuietContext, SnapshotRunAssumption DEF IInv, TypeOK
<1>2. Complete(0, ProfileOf(r)) => Complete(0, ProfileOf(r))'
  <2> DEFINE p == ProfileOf(r)
  <2>1. p' = p BY DEF ProfileOf
  <2>2. PICK q : q = p OBVIOUS
  <2>3. Complete(0, q) => Complete(0, q)' BY <1>1, CompleteStays
  <2> QED BY <2>1, <2>2, <2>3 DEF Complete
<1>3. OnItsWay(r)' BY <1>1, <1>2 DEF RunsQuietly, OnItsWay, Publishes
<1> QED BY <1>1, <1>3 DEF RunsQuietly, CleansUp

(* Nothing is dirty, and the first look is remembered.                     *)
LEMMA CaptureIsQuiet ==
  ASSUME IInv, QuietInv, Quiet, NEW r \in Run, Capture(r)
  PROVE  RunsQuietly(r)'
<1>1. /\ run[r].pc \in {"capture", "recapture"} /\ UNCHANGED <<source, files>>
      /\ run[r].pc \in Active /\ Step(r)
  BY DEF Capture, Active, Step
<1>2. ~Fault /\ recordTemp = {} /\ manifestTemp = {} /\ RunsQuietly(r)
  BY <1>1, QuietContext
<1>3. ~Dirty BY <1>2 DEF Dirty
<1> DEFINE s == [run[r] EXCEPT !.seen = Repository,
                               !.pc = IF @ = "capture" THEN "confirm" ELSE "reconfirm"]
<1>4. /\ s.pc = (IF run[r].pc = "capture" THEN "confirm" ELSE "reconfirm")
      /\ s.seen = Repository /\ s.built = run[r].built /\ s.option = run[r].option
      /\ s.retry = run[r].retry
  BY AtWork DEF RunState
<1>5. Update(r, s) BY <1>2, <1>3 DEF Capture
<1> HIDE DEF s
<1>6. run'[r] = s BY <1>5, UpdateShape DEF IInv
<1>7. Repository' = Repository BY <1>1 DEF Repository, files
<1>8. LooksAlike(r)' BY <1>4, <1>6, <1>7 DEF LooksAlike
<1>9. run[r].retry => run'[r].pc = "confirm"
  BY <1>1, <1>2, <1>4, <1>6 DEF RunsQuietly, OnItsWay, Exited, At
<1> QED BY <1>1, <1>2, <1>4, <1>6, <1>8, <1>9, LookIsQuiet DEF files

(* The second look is like the first; and what was released before is no   *)
(* smoke release in the repository.                                        *)
LEMMA ConfirmIsQuiet ==
  ASSUME IInv, QuietInv, Quiet, NEW r \in Run, Confirm(r)
  PROVE  RunsQuietly(r)'
<1>1. /\ At(r, "confirm") /\ run[r].pc = "confirm" /\ UNCHANGED <<source, files>>
      /\ run[r].pc \in Active /\ Step(r)
  BY DEF Confirm, Active, Step, At
<1>2. /\ ~Fault /\ recordTemp = {} /\ manifestTemp = {} /\ RunsQuietly(r) /\ source = 0
      /\ \A d \in Digest : ManifestInv(d)
  BY <1>1, QuietContext
<1>3. Stable(r) /\ run[r].built = source
  BY <1>1, <1>2 DEF Stable, Dirty, RunsQuietly, LooksAlike
<1>4. CASE /\ Publishes(r) /\ ProfileOf(r) = "smoke" /\ world.root = "repository"
           /\ ExitWith(r, 2)
  <2>1. Ended(r, 2) BY <1>4, ExitShape DEF IInv, Exit
  <2>2. ~run[r].retry
    <3>1. SUFFICES ASSUME run[r].retry PROVE FALSE OBVIOUS
    <3>2. Complete(0, "smoke") BY <1>2, <1>4, <3>1 DEF RunsQuietly, OnItsWay
    <3>3. 0 \in Digest BY SnapshotRunAssumption DEF Digest
    <3>4. world.root = "elsewhere" BY <1>2, <3>2, <3>3 DEF ManifestInv, Complete
    <3> QED BY <1>4, <3>4
  <2>3. LooksAlike(r)' BY <2>1 DEF LooksAlike, Ended
  <2> QED BY <1>1, <1>2, <2>1, <2>2, <2>3, LookIsQuiet DEF Ended, SameIdentity, files
<1> DEFINE s == [run[r] EXCEPT !.pc = "load", !.digest = source, !.seen = None]
<1>5. CASE Update(r, s)
  <2>1. /\ s.pc = "load" /\ s.built = run[r].built /\ s.option = run[r].option
        /\ s.retry = run[r].retry
    BY AtWork DEF RunState
  <2> HIDE DEF s
  <2>2. run'[r] = s BY <1>5, UpdateShape DEF IInv
  <2>3. LooksAlike(r)' BY <2>1, <2>2 DEF LooksAlike
  <2> QED BY <1>1, <1>2, <2>1, <2>2, <2>3, LookIsQuiet DEF files
<1> QED BY <1>2, <1>3, <1>4, <1>5 DEF Confirm

(* Who publishes goes on to inspect.                                       *)
LEMMA LoadCatalogIsQuiet ==
  ASSUME IInv, QuietInv, Quiet, NEW r \in Run, LoadCatalog(r)
  PROVE  RunsQuietly(r)'
<1>1. /\ run[r].pc = "load" /\ UNCHANGED <<source, files>> /\ run[r].pc \in Active /\ Step(r)
  BY DEF LoadCatalog, Active, Step, At
<1>2. ~Fault /\ recordTemp = {} /\ manifestTemp = {} /\ RunsQuietly(r)
  BY <1>1, QuietContext
<1> DEFINE s == [run[r] EXCEPT !.catalog = source,
                               !.pc = IF Publishes(r) THEN "inspect" ELSE "open-store"]
<1>3. /\ s.pc = (IF Publishes(r) THEN "inspect" ELSE "open-store")
      /\ s.built = run[r].built /\ s.option = run[r].option /\ s.retry = run[r].retry
  BY AtWork DEF RunState
<1>4. Update(r, s) BY <1>2 DEF LoadCatalog
<1> HIDE DEF s
<1>5. run'[r] = s BY <1>4, UpdateShape DEF IInv
<1>6. LooksAlike(r)' BY <1>3, <1>5 DEF LooksAlike
<1>7. run[r].retry => run'[r].pc = "inspect" BY <1>2, <1>3, <1>5 DEF RunsQuietly, OnItsWay
<1> QED BY <1>1, <1>2, <1>3, <1>5, <1>6, <1>7, LookIsQuiet DEF files

(* An end, or a step to the next place, of one that has nothing to write.  *)
LEMMA LookMoves ==
  ASSUME IInv, QuietInv, Quiet, NEW r \in Run, Step(r), run[r].pc \in Active,
         UNCHANGED <<record, recordTemp, manifestTemp>>, recordTemp = {}, manifestTemp = {},
         \/ \E code \in Exit : ExitWith(r, code) /\ (run[r].retry => code = 0)
         \/ \E l \in Active \ {"confirm", "reconfirm"} :
              Goto(r, l) /\ (run[r].retry => l \in {"load", "inspect", "audit", "list"})
  PROVE  RunsQuietly(r)'
<1>1. CASE \E code \in Exit : ExitWith(r, code) /\ (run[r].retry => code = 0)
  <2>1. PICK code \in Exit : ExitWith(r, code) /\ (run[r].retry => code = 0) BY <1>1
  <2>2. Ended(r, code) BY <2>1, ExitShape DEF IInv
  <2>3. LooksAlike(r)' BY <2>2 DEF LooksAlike, Ended
  <2>4. run[r].retry => Exited(r, 0)' BY <2>1, <2>2 DEF Ended, Exited, At
  <2> QED BY <2>2, <2>3, <2>4, LookIsQuiet DEF Ended, SameIdentity
<1>2. CASE \E l \in Active \ {"confirm", "reconfirm"} :
             Goto(r, l) /\ (run[r].retry => l \in {"load", "inspect", "audit", "list"})
  <2>1. PICK l \in Active \ {"confirm", "reconfirm"} :
          Goto(r, l) /\ (run[r].retry => l \in {"load", "inspect", "audit", "list"})
    BY <1>2
  <2>2. WentOn(r, l) BY <2>1, GotoShape DEF IInv
  <2>3. LooksAlike(r)' BY <2>1, <2>2 DEF LooksAlike, WentOn
  <2> QED BY <2>1, <2>2, <2>3, LookIsQuiet DEF WentOn, SameIdentity
<1> QED BY <1>1, <1>2

(* A retry knows its digest and its catalog.                               *)
LEMMA RetryContext ==
  ASSUME IInv, QuietInv, Quiet, NEW r \in Run, run[r].pc \in {"inspect", "audit", "list"}, run[r].retry
  PROVE  /\ run[r].digest = 0 /\ run[r].catalog = 0 /\ Complete(0, ProfileOf(r))
         /\ ManifestInv(0) /\ manifest[0] # None
<1>1. /\ source = 0 /\ run[r] \in RunState /\ RunsQuietly(r) /\ RunInv(r)
      /\ \A d \in Digest : ManifestInv(d)
  BY QuietContext
<1>2. 0 \in Digest BY SnapshotRunAssumption DEF Digest
<1>3. run[r].digest = 0 BY <1>1 DEF RunsQuietly, RunInv, OfItsSource, Loaded
<1>4. run[r].catalog \in Digest /\ run[r].digest <= run[r].catalog /\ run[r].catalog <= source
  BY <1>1 DEF RunInv, OfItsSource, Loaded, RunState
<1>5. run[r].catalog = 0 BY <1>1, <1>3, <1>4, SnapshotRunAssumption DEF Digest
<1> QED BY <1>1, <1>2, <1>3, <1>5 DEF RunsQuietly, OnItsWay, Complete

(* The release is there, of its profile.                                   *)
LEMMA InspectIsQuiet ==
  ASSUME IInv, QuietInv, Quiet, NEW r \in Run, Inspect(r)
  PROVE  RunsQuietly(r)'
<1>1. /\ run[r].pc \in {"inspect", "reinspect"} /\ run[r].pc \in Active /\ Step(r)
      /\ UNCHANGED <<record, recordTemp, manifestTemp>>
  BY DEF Inspect, Active, Step
<1>2. ~Fault /\ recordTemp = {} /\ manifestTemp = {} /\ RunsQuietly(r)
  BY <1>1, QuietContext
<1>3. run[r].retry => run[r].pc = "inspect"
  BY <1>1, <1>2 DEF RunsQuietly, OnItsWay, Exited, At
<1>4. run[r].retry => run[r].digest = 0 /\ Complete(0, ProfileOf(r)) /\ manifest[0] # None
  BY <1>3, RetryContext
<1>5. \/ Goto(r, "audit")
      \/ ~run[r].retry /\ (Goto(r, "open-store") \/ ExitWith(r, 2) \/ ExitWith(r, 4))
  BY <1>2, <1>4 DEF Inspect
<1> QED BY <1>1, <1>2, <1>5, LookMoves DEF Active, Exit

(* The records it selects are there and have passed.                       *)
LEMMA AuditIsQuiet ==
  ASSUME IInv, QuietInv, Quiet, NEW r \in Run, Audit(r)
  PROVE  RunsQuietly(r)'
<1>1. /\ run[r].pc = "audit" /\ run[r].pc \in Active /\ Step(r)
      /\ UNCHANGED <<record, recordTemp, manifestTemp>>
  BY DEF Audit, Active, Step, At, files
<1>2. ~Fault /\ recordTemp = {} /\ manifestTemp = {} BY <1>1, QuietContext
<1>3. run[r].retry => SelectionIsGood(r, manifest[run[r].digest])
  <2> SUFFICES ASSUME run[r].retry PROVE SelectionIsGood(r, manifest[run[r].digest]) OBVIOUS
  <2>1. /\ run[r].digest = 0 /\ run[r].catalog = 0 /\ ManifestInv(0) /\ manifest[0] # None
    BY <1>1, RetryContext
  <2>2. \A c \in Cell : c <= Cells BY SnapshotRunAssumption DEF Cell
  <2> QED BY <2>1, <2>2 DEF SelectionIsGood, ManifestInv, PassedUpTo
<1>4. Goto(r, "list") \/ (~run[r].retry /\ ExitWith(r, 4)) BY <1>2, <1>3 DEF Audit
<1> QED BY <1>1, <1>2, <1>4, LookMoves DEF Active, Exit

(* No temporary record is left in the way.                                 *)
LEMMA ListRecordsIsQuiet ==
  ASSUME IInv, QuietInv, Quiet, NEW r \in Run, ListRecords(r)
  PROVE  RunsQuietly(r)'
<1>1. /\ run[r].pc = "list" /\ run[r].pc \in Active /\ Step(r)
      /\ UNCHANGED <<record, recordTemp, manifestTemp>>
  BY DEF ListRecords, Active, Step, At, files
<1>2. ~Fault /\ recordTemp = {} /\ manifestTemp = {} BY <1>1, QuietContext
<1>3. ExitWith(r, 0) BY <1>2 DEF ListRecords, HistoryIsGood
<1> QED BY <1>1, <1>2, <1>3, LookMoves DEF Exit

(* An end, or a step to the next place, of one that is no retry and cleans *)
(* up after itself.                                                        *)
LEMMA LaterMoves ==
  ASSUME IInv, QuietInv, Quiet, NEW r \in Run, run[r].pc \in Later,
         \/ (\E code \in Exit : ExitWith(r, code)) /\ r \notin recordTemp' /\ r \notin manifestTemp'
         \/ \E l \in Active \ {"confirm", "reconfirm"} :
              /\ Goto(r, l)
              /\ r \in recordTemp' => l \in {"put", "put-clean"}
              /\ r \in manifestTemp' => l \in {"link", "sync-install", "clean"}
  PROVE  RunsQuietly(r)'
<1>1. RunsQuietly(r) BY QuietContext
<1>2. CASE (\E code \in Exit : ExitWith(r, code)) /\ r \notin recordTemp' /\ r \notin manifestTemp'
  <2>1. PICK code \in Exit : Ended(r, code) BY <1>2, ExitShape DEF IInv
  <2>2. LooksAlike(r)' /\ CleansUp(r)' BY <1>2, <2>1 DEF LooksAlike, CleansUp, Ended
  <2> QED BY <1>1, <2>1, <2>2, LaterIsQuiet DEF Ended, SameIdentity
<1>3. CASE \E l \in Active \ {"confirm", "reconfirm"} :
             /\ Goto(r, l)
             /\ r \in recordTemp' => l \in {"put", "put-clean"}
             /\ r \in manifestTemp' => l \in {"link", "sync-install", "clean"}
  <2>1. PICK l \in Active \ {"confirm", "reconfirm"} :
          /\ Goto(r, l)
          /\ r \in recordTemp' => l \in {"put", "put-clean"}
          /\ r \in manifestTemp' => l \in {"link", "sync-install", "clean"}
    BY <1>3
  <2>2. WentOn(r, l) BY <2>1, GotoShape DEF IInv
  <2>3. LooksAlike(r)' /\ CleansUp(r)' BY <2>1, <2>2 DEF LooksAlike, CleansUp, WentOn
  <2> QED BY <1>1, <2>2, <2>3, LaterIsQuiet DEF WentOn, SameIdentity
<1> QED BY <1>2, <1>3

(* A step of one that is no retry whose control state is written out.      *)
LEMMA LaterUpdate ==
  ASSUME IInv, QuietInv, Quiet, NEW r \in Run, run[r].pc \in Later, NEW s, Update(r, s),
         s.built = run[r].built, s.retry = run[r].retry, s.pc \notin {"confirm", "reconfirm"},
         r \in recordTemp' => s.pc \in {"put", "put-clean"},
         r \in manifestTemp' => s.pc \in {"link", "sync-install", "clean"}
  PROVE  RunsQuietly(r)'
<1>1. RunsQuietly(r) BY QuietContext
<1>2. run'[r] = s BY UpdateShape DEF IInv
<1>3. LooksAlike(r)' /\ CleansUp(r)' BY <1>2 DEF LooksAlike, CleansUp
<1> QED BY <1>1, <1>2, <1>3, LaterIsQuiet

(* The second pair of looks ends the invocation or leads to publication.   *)
LEMMA ReconfirmIsQuiet ==
  ASSUME IInv, QuietInv, Quiet, NEW r \in Run, Reconfirm(r)
  PROVE  RunsQuietly(r)'
<1>1. /\ run[r].pc = "reconfirm" /\ run[r].pc \in Later /\ run[r].pc \in Active
      /\ UNCHANGED <<recordTemp, manifestTemp>>
  BY DEF Reconfirm, Later, Active, At, files
<1>2. recordTemp = {} /\ manifestTemp = {} BY <1>1, QuietContext
<1>3. CASE ExitWith(r, 2) \/ ExitWith(r, Verdict(r))
  BY <1>1, <1>2, <1>3, LaterMoves DEF Verdict, Exit
<1> DEFINE s == [run[r] EXCEPT !.pc = "sync-chain", !.seen = None]
<1>4. CASE Update(r, s)
  <2>1. s.pc = "sync-chain" /\ s.built = run[r].built /\ s.retry = run[r].retry
    BY AtWork DEF RunState
  <2> HIDE DEF s
  <2> QED BY <1>1, <1>2, <1>4, <2>1, LaterUpdate
<1> QED BY <1>3, <1>4 DEF Reconfirm

(* The matrix is executed: a temporary record is there from here to the    *)
(* end of Put, and no longer.                                              *)
LEMMA MatrixIsQuiet ==
  ASSUME IInv, QuietInv, Quiet, NEW r \in Run,
         OpenStore(r) \/ Execute(r) \/ AllExecuted(r) \/ Put(r) \/ PutClean(r)
  PROVE  RunsQuietly(r)'
<1>1. /\ run[r].pc \in {"open-store", "execute", "put", "put-clean"}
      /\ run[r].pc \in Later /\ run[r].pc \in Active
      /\ manifestTemp' = manifestTemp
  BY DEF OpenStore, Execute, AllExecuted, Put, PutClean, Later, Active, At, files
<1>2. ~Fault /\ r \notin manifestTemp' /\ run[r] \in RunState
  BY <1>1, QuietContext
<1>3. run[r].pc \notin {"put", "put-clean"} => r \notin recordTemp
  BY <1>1, QuietContext
<1>4. CASE OpenStore(r)
  <2>1. Goto(r, "execute") /\ recordTemp' = recordTemp /\ run[r].pc = "open-store"
    BY <1>2, <1>4 DEF OpenStore, At
  <2> QED BY <1>1, <1>2, <1>3, <2>1, LaterMoves DEF Active
<1>5. CASE Execute(r)
  <2>1. CASE Goto(r, "put") BY <1>1, <1>2, <2>1, LaterMoves DEF Active
  <2> DEFINE s == [run[r] EXCEPT !.cell = @ + 1, !.failed = TRUE]
  <2>2. CASE Update(r, s) /\ UNCHANGED recordTemp
    <3>1. s.pc = "execute" /\ s.built = run[r].built /\ s.retry = run[r].retry
      BY <1>2, <1>5 DEF RunState, Execute, At
    <3> HIDE DEF s
    <3>2. run[r].pc = "execute" BY <1>5 DEF Execute, At
    <3> QED BY <1>1, <1>2, <1>3, <2>2, <3>1, <3>2, LaterUpdate
  <2> QED BY <1>2, <1>5, <2>1, <2>2 DEF Execute
<1>6. CASE AllExecuted(r)
  <2> DEFINE s == [run[r] EXCEPT !.pc = "recapture", !.cell = 1]
  <2>1. s.pc = "recapture" /\ s.built = run[r].built /\ s.retry = run[r].retry
    BY <1>2 DEF RunState
  <2>2. Update(r, s) /\ run[r].pc = "execute" /\ recordTemp' = recordTemp
    BY <1>6 DEF AllExecuted, At, files
  <2> HIDE DEF s
  <2> QED BY <1>1, <1>2, <1>3, <2>1, <2>2, LaterUpdate
<1>7. CASE Put(r)
  <2>1. PICK status \in Attempt :
          Update(r, [run[r] EXCEPT !.pc = "put-clean", !.failed = @ \/ status = "failed"])
    BY <1>2, <1>7 DEF Put
  <2> DEFINE s == [run[r] EXCEPT !.pc = "put-clean", !.failed = @ \/ status = "failed"]
  <2>2. s.pc = "put-clean" /\ s.built = run[r].built /\ s.retry = run[r].retry
    BY <1>2 DEF RunState
  <2>3. Update(r, s) BY <2>1
  <2> HIDE DEF s
  <2> QED BY <1>1, <1>2, <2>2, <2>3, LaterUpdate
<1>8. CASE PutClean(r)
  <2> DEFINE s == [run[r] EXCEPT !.pc = "execute", !.cell = @ + 1]
  <2>1. s.pc = "execute" /\ s.built = run[r].built /\ s.retry = run[r].retry
    BY <1>2 DEF RunState
  <2>2. Update(r, s) /\ r \notin recordTemp' BY <1>2, <1>8 DEF PutClean
  <2> HIDE DEF s
  <2> QED BY <1>1, <1>2, <2>1, <2>2, LaterUpdate
<1> QED BY <1>4, <1>5, <1>6, <1>7, <1>8

(* The manifest is published: a temporary one is there from the look at    *)
(* the destination to the end, and no longer.                              *)
LEMMA PublicationIsQuiet ==
  ASSUME IInv, QuietInv, Quiet, NEW r \in Run,
         SyncChain(r) \/ WriteManifest(r) \/ Link(r) \/ SyncInstall(r) \/ Clean(r)
  PROVE  RunsQuietly(r)'
<1>1. /\ run[r].pc \in {"sync-chain", "write", "link", "sync-install", "clean"}
      /\ run[r].pc \in Later /\ run[r].pc \in Active
      /\ recordTemp' = recordTemp
  BY DEF SyncChain, WriteManifest, Link, SyncInstall, Clean, Later, Active, At
<1>2. ~Fault /\ r \notin recordTemp' BY <1>1, QuietContext
<1>3. run[r].pc \in {"sync-chain", "write"} => r \notin manifestTemp
  BY <1>1, QuietContext
<1>4. CASE SyncChain(r)
  <2>1. Goto(r, "write") /\ manifestTemp' = manifestTemp /\ run[r].pc = "sync-chain"
    BY <1>2, <1>4 DEF SyncChain, At
  <2> QED BY <1>1, <1>2, <1>3, <2>1, LaterMoves DEF Active
<1>5. CASE WriteManifest(r)
  <2>1. \/ Goto(r, "reinspect") /\ manifestTemp' = manifestTemp
        \/ Goto(r, "link")
    BY <1>2, <1>5 DEF WriteManifest
  <2>2. run[r].pc = "write" BY <1>5 DEF WriteManifest, At
  <2> QED BY <1>1, <1>2, <1>3, <2>1, <2>2, LaterMoves DEF Active
<1>6. CASE Link(r)
  <2>1. \/ Goto(r, "sync-install")
        \/ Goto(r, "reinspect") /\ manifestTemp' = manifestTemp \ {r}
    BY <1>2, <1>6 DEF Link
  <2> QED BY <1>1, <1>2, <2>1, LaterMoves DEF Active
<1>7. CASE SyncInstall(r)
  <2>1. Goto(r, "clean") BY <1>2, <1>7 DEF SyncInstall
  <2> QED BY <1>1, <1>2, <2>1, LaterMoves DEF Active
<1>8. CASE Clean(r)
  <2>1. ExitWith(r, 0) /\ manifestTemp' = manifestTemp \ {r} BY <1>2, <1>8 DEF Clean
  <2> QED BY <1>1, <1>2, <2>1, LaterMoves DEF Exit
<1> QED BY <1>4, <1>5, <1>6, <1>7, <1>8

(* A step leaves the others, who are not at work, as they are.             *)
LEMMA OthersAreQuiet ==
  ASSUME IInv, QuietInv, Quiet, NEW r \in Run, Step(r), NEW q \in Run \ {r}, run[q].pc \notin Active
  PROVE  RunsQuietly(q)' /\ run'[q].pc \notin Active
<1>1. /\ run'[q] = run[q] /\ record'[q] = record[q]
      /\ recordTemp' \subseteq recordTemp \cup {r} /\ manifestTemp' \subseteq manifestTemp \cup {r}
  BY StepShape, StepFrame DEF OneOfItsSteps, IInv
<1>2. RunsQuietly(q) /\ 0 \in Digest BY QuietContext, SnapshotRunAssumption DEF IInv, TypeOK
<1>3. LooksAlike(q)' BY <1>1 DEF LooksAlike, Active
<1>4. CleansUp(q)' BY <1>1, <1>2 DEF RunsQuietly, CleansUp
<1>5. Complete(0, ProfileOf(q)) => Complete(0, ProfileOf(q))'
  <2> DEFINE p == ProfileOf(q)
  <2>1. p' = p BY <1>1 DEF ProfileOf
  <2>2. PICK x : x = p OBVIOUS
  <2>3. Complete(0, x) => Complete(0, x)' BY <1>2, CompleteStays
  <2> QED BY <2>1, <2>2, <2>3 DEF Complete
<1>6. OnItsWay(q)' BY <1>1, <1>2, <1>5 DEF RunsQuietly, OnItsWay, Publishes, Exited, At, Active
<1> QED BY <1>1, <1>2, <1>3, <1>4, <1>6 DEF RunsQuietly

(* A step of one invocation keeps the quiet.                               *)
LEMMA InvocationKeepsQuiet ==
  ASSUME IInv, QuietInv, NEW r \in Run, Step(r)
  PROVE  QuietInv'
<1>1. UNCHANGED <<world, source>> BY StepFrame DEF IInv
<1> SUFFICES ASSUME Quiet PROVE QuietInv' BY <1>1 DEF QuietInv, Quiet
<1>2. \A q \in Run \ {r} : run[q].pc \notin Active
  <2>1. CASE run[r].pc \in Active BY <2>1, QuietContext
  <2>2. CASE run[r].pc \notin Active
    <3>1. At(r, "idle") BY <2>2, StepShape DEF IInv, OneOfItsSteps, At
    <3>2. \E option \in world.option : Begin(r, option)
      BY <3>1 DEF Step, Capture, Confirm, LoadCatalog, Inspect, Audit, ListRecords, OpenStore,
                  Execute, AllExecuted, Put, PutClean, Reconfirm, SyncChain, WriteManifest, Link,
                  SyncInstall, Clean, At
    <3> QED BY <3>2, QuietContext DEF Begin
  <2> QED BY <2>1, <2>2
<1>3. \A q \in Run \ {r} : RunsQuietly(q)' /\ run'[q].pc \notin Active
  BY <1>2, OthersAreQuiet
<1>4. RunsQuietly(r)'
  BY BeginIsQuiet, CaptureIsQuiet, ConfirmIsQuiet, LoadCatalogIsQuiet, InspectIsQuiet, AuditIsQuiet,
     ListRecordsIsQuiet, MatrixIsQuiet, ReconfirmIsQuiet, PublicationIsQuiet
  DEF Step
<1>5. Alone' BY <1>3 DEF Alone
<1>6. source' = 0 BY <1>1, QuietContext
<1> QED BY <1>3, <1>4, <1>5, <1>6 DEF QuietInv

(* No retry is lost where nothing fails, nobody overlaps, no other commit  *)
(* is checked out and the machine runs on: it audits the release that is   *)
(* there and exits 0, and stores no record. (On a machine that stops it may *)
(* find a temporary file in its way: run retry_crash.)                     *)
THEOREM RetryGreen == Spec => []("crash" \notin world.threat => RetryIsGreen)
<1>1. Init => QuietInv
  BY SnapshotRunAssumption
  DEF Init, QuietInv, Alone, RunsQuietly, LooksAlike, CleansUp, OnItsWay, Active
<1>2. IInv /\ QuietInv /\ [Next]_vars => QuietInv'
  <2> SUFFICES ASSUME IInv, QuietInv, [Next]_vars PROVE QuietInv' OBVIOUS
  <2>1. CASE UNCHANGED vars
    BY <2>1 DEF vars, QuietInv, Quiet, Alone, RunsQuietly, LooksAlike, CleansUp, OnItsWay, Repository,
                Publishes, ProfileOf, Complete, Exited, At
  <2>2. CASE Edit \/ Crash
    <3>1. world' = world /\ ~Quiet BY <2>2 DEF Edit, Crash, Quiet, files
    <3> QED BY <3>1 DEF QuietInv, Quiet
  <2> QED BY <2>1, <2>2, InvocationKeepsQuiet DEF Next
<1>3. QuietInv => ("crash" \notin world.threat => RetryIsGreen)
  BY DEF QuietInv, Quiet, RetryIsGreen, RunsQuietly, OnItsWay, Exited, At
<1> QED BY <1>1, <1>2, <1>3, Invariance, PTL DEF Spec

=============================================================================
