# A verification of works-on-my-whiteboard

TLA+ modules, model-checking runs and machine-checked proofs for the Go program
of this repository: the `whiteboard` command, which runs experiments on small
models of distributed systems and publishes their results as immutable
evidence, and the experiments' own subjects, a token bucket and a distributed
rate limiter.

## 1. The system

| Part | State it keeps | Operations | What is hard about it |
| --- | --- | --- | --- |
| `internal/immutablefile` | one directory: final names, temporary names, their content, in memory and on the disk | `WriteNoReplace`, `WriteNoReplaceExpected` | rivals for a name, every system call may fail, cancellation, a swapped parent, crashes between any two calls |
| `labs/primitives/token-bucket` | balance, refill anchor, latest observation | `New`, `Take`, `Available` | words and durations that wrap or saturate, clocks that run back, rounding to the refill grid |
| `labs/scenarios/distributed-rate-limiter` | a bucket per tenant (and node), an availability flag, a mutex per limiter kind, a read/write lock | `Allow` of three limiters, `SetAvailable` | lock order, contexts that end at any moment, the order of clock reads, outage policies |
| `labs/harness` | a logical clock, a recorder of metrics | `Runner.Run`, `Recorder.Add/Set/Snapshot` | event order, deadline around events, overflow of metrics |
| `internal/evidence` | `evidence/runs/*.json` | `NewStore`, `Put`, `Get`, `List` | leftovers of crashed writers, foreign entries, durability of the directory |
| `internal/release` | `evidence/releases/<digest>/manifest.yaml` | `Build`, `WriteManifest`, `LoadAndSyncManifest`, `AuditSnapshot` | publication race, a manifest that is visible before it is durable, which errors mean "somebody else won" |
| `internal/inputdigest` | none; reads the worktree twice | `ComputeState` | HEAD, the index and the files change between any two of some twenty git commands; git's diff believes times and sizes |
| `internal/cli` `run` | none of its own; drives the five parts above | `runEvidence` | overlapping and crashed invocations, retries, source changes in between |
| `internal/cli` other commands | none | validate, coverage, report, diff | which failures are the machine's and which the release's; rules written twice |
| `internal/catalog`, `internal/validator` | none | `LoadFS`, `Validate`, `ComputeCoverage`, `BuildRequiredMatrix` | aliases of aliases, references in both directions, a requirement that makes no cell |
| `internal/report` | none | `Build`, `Diff` | snapshots a caller could change, differences that do not fit |
| `internal/content`, `internal/experiments` | none | scans of Markdown; the registry of experiments | |

How they interact. `runEvidence` takes a digest of the worktree (inputdigest),
checks that its own executable was built from that commit, loads the catalog,
looks for a release of that digest (release) and audits one that is there
against its records (evidence). Otherwise it runs each cell of the matrix in the
harness, whose events call the token bucket and the limiters, puts a record per
cell (evidence, through immutablefile), looks at the worktree again, and
publishes a manifest (release, through immutablefile). Invocations share
nothing but files. Inside one invocation all is sequential; the limiters are the
one part with goroutines, locks and contexts. `validate --release`, `report` and
`diff` load the catalog and a release in the same way as a second `run` does, and
compute over what they loaded.

What makes each part correct:

* *immutable file*: a success is durable; a name shows nothing or a whole file,
  for ever the same; results are true; residue is reported; calls end.
* *token bucket*: no token is issued twice or before its time, in any window;
  the wait it reports is exact; rejected calls change nothing.
* *rate limiter*: the budget of a bucket holds for all callers together; answers
  agree with tokens; nothing is spent in an outage or for a cancelled call;
  nobody waits for ever.
* *harness*: events are executed in logical order, metrics neither wrap nor
  change their unit, a run passes only if it was whole and its reported
  metrics satisfy its assertions, and a record is the verdict on a whole run.
* *run, evidence, release*: a manifest is backed by durable records of its own
  source; exit code 0 is a promise no crash breaks; a retry of what is complete
  is green and writes nothing; the machine, the release or nobody is blamed
  rightly; what was read stood at its path when it was accepted.
* *catalog, validator, audit*: what `validate --release` passes is proven, need by
  need, by selected records; the audit accepts what the publisher would publish,
  and nothing else.
* *input digest*: the state that is returned was there, all of it at one moment;
  nobody is refused for a change that was not made, or for dirt that was not there.
* *report, diff*: what is shown is what was audited; a comparison is exact, and is
  refused only where a side is not sound.

## 2. Modules

```
WriteOnce      <- ImmutableFile <- ManifestWriter <- MCImmutableFile, ImmutableFileProofs
TokenMeter     <- TokenBucket   <- MCTokenBucket,   TokenBucketProofs
Bucket         <- TokenBucket, RateLimiter <- MCRateLimiter, RateLimiterProofs
ReleaseLedger  <- SnapshotRun   <- MCSnapshotRun,   SnapshotRunProofs
Harness        <- CellRun       <- MCCellRun, HarnessProofs
InputDigest    <- MCInputDigest,  InputDigestProofs
ReleaseReader  <- MCReleaseReader, ReleaseReaderProofs
CatalogRules   <- ReleaseAudit <- ReleaseReport <- ReleasePipeline <- MCReleasePipeline, ReleasePipelineProofs
```

**WriteOnce** (abstract): names that go from absent to one writer's file and
never back, except for a file that nobody was told of, which a crash may lose.

**ImmutableFile** (`immutablefile/write.go`). `call[w].pc` is the stage of the
call by `w`; each action is one call into the file system with the checks made
right before it. `target`/`temp`/`data` are what the running system sees,
`targetDisk`/`tempDisk`/`dataDisk` what a crash leaves. Only `fsync` (or the file
system at its own time, `WriteBack`) moves one to the other, entry by entry and
file by file; `Crash` throws the first away. `causes` is the set of errors
joined so far, `stage` the stage of the `Error` returned. `Threat` switches the
environment's actions: failing calls, cancellation, a swapped parent, deleted
temporary files, crashes. The two entry points differ in where the expected
identity of the parent comes from; `anchored` stands for the comparison.
Content is empty, part or full: bytes are told apart by nothing else.

**ManifestWriter** (`release/storage.go`: `inspectImmutableWriterErrorTree`,
`classifyManifestWriterError`, `IsPureSnapshotExists`, and the branch of
`runEvidence` on them) extends ImmutableFile: the causes a call joined are the
leaves of the error tree that the release storage walks, and its verdict on them
decides whether an invocation answers for another one's release.

**TokenMeter** (abstract): tokens on a fixed grid of boundaries from the first
moment on; the balance is filled at every boundary up to the capacity.
**Bucket** has the functions of `bucket.go` (`Credit` is `observeLocked` without
its errors), with words of `Word` values and durations that saturate at
`MaxDuration`. **TokenBucket** adds the state and the calls `Take`/`Available`
at any moment, and remembers a window's start for the window bound.

**RateLimiter** (`limiter.go`). Each caller calls `Allow` again and again on any
limiter; a step goes from one lock, look at the context or clock read to the
next. `Reader(c)` is the read lock held from `AcquireRead` to the delegate's
answer; `switch` is a `SetAvailable` that waits for the write lock and keeps new
readers out meanwhile, as Go's `RWMutex` does. `account` and the fields `spent`,
`outage` of a call are auxiliary: no guard reads them.

**ReleaseLedger** (abstract): one release per digest, final once somebody was
told.

**SnapshotRun** (`cli/run.go` with `Store.Put/List`, `WriteManifest`,
`LoadAndSyncManifest`, `AuditSnapshot`, `computeState`). `run[r].pc` is where an
invocation stands. A look at the worktree takes a `View`; the second look
compares: InputDigest has what happens inside and between the looks. `world` says where
the evidence root is, what may happen, which options are given and how many
invocations begin. `source` stands for the commit and for its digest: commits that only
add evidence, which share a digest, are not told apart. The evidence root is in
the repository, where its files show up in the look at the worktree, or
elsewhere. `runsDir` is the entry `runs/` of the evidence root: `fresh` until
some chain of directories is synchronized. Writes through immutablefile take
three steps here (temporary file, link, removal); that a record counts as
durable in its directory once `Put` has linked it, and that one conflict has
exactly one winner, is what ImmutableFile's properties `SuccessIsDurable` and
`RegisterSpec` say.

**InputDigest** (`inputdigest/gitfiles.go`, `digest.go`): one call of `ComputeState`.
`call.at` is the git command or the half of a file read that comes next; `call.seen`
is the snapshot of this look, `call.first` that of the look before. The commands
that inspect the index are given a private copy, so what they find is `call.seen.index`
against HEAD or the files *now*. `Unstaged` may leave a changed source out, as git
does when times and sizes agree; the fingerprint hashes what it is asked for. Three
paths stand for all paths: one that counts, one artifact, one stray. `Others` are
checkouts, commits, `git add`, `update-index` and editors, one deed at any moment.
`clean` collects the commits that were checked out unchanged at some moment; it is
auxiliary, as are `faults`, `faulted`, `deeds`, `moved` and `away`.

**Harness** (`labs/harness`). A step goes from one look at the context, callback
or assertion to the next; the recorder's calls are atomic under its lock. What
a callback does is any choice: at most one write into the recorder, an
error or none whatever became of the write, the caller's list of events
overwritten. `Leak` is a goroutine of an earlier callback that goes on writing,
`Cancel` the end of the context (`runEvidence` gives it the deadline of the
specification). `clock` counts from `Start`; `Int64` has as many values as
`MaxInt` says. `asked`, `history` and `sums` are auxiliary.

**CellRun** (`cli/definitions.go`, one turn of the loop of `runEvidence`) adds
what becomes of the result: `projectRunResult` compares it with the frozen
definition, the experiment draws a conclusion that may be refused, and a record
is made or not. SnapshotRun takes the cell as one step with any outcome.

**ReleaseReader** (`release/storage.go`, `evidence/store.go`, and the decisions of
`cli/run.go`, `report.go`, `diff.go` on their errors). One invocation loads a
manifest, opens the store, gets the selected record and lists the others. `entry`
says what stands at each place of a small tree with two of everything, `reader`
where the invocation is (`task` and `at`), which directories it holds open
(`chain`), what an earlier look saw (`seen`, `saw`) and which causes it joined.
Each action is one system call; between any two, `Replace` and `Rewrite` are the
deeds of other programs. `past` remembers, from the last byte read on, what stood
where: it is auxiliary, as are `faulted`, `flawed` and `vanished`. A file may be
rewritten between the two halves of a read; the content digest shows a torn
record, nothing in the bytes a torn manifest.

**CatalogRules** (`internal/catalog`, `internal/validator`) has a catalog as a
record of functions, the aliases, coverage, the matrix, and `Validate` as the set
of codes it reports. **ReleaseAudit** (`internal/evidence`, `internal/release`) adds
records, manifests, `Build` (`Buildable` and `Manifest`), `AuditSnapshot`
(`Audit`, one operator per group of diagnostics) and the seal. **ReleaseReport**
(`internal/report`) adds `Build` (`Reportable`, `ReportOf`) and `Diff`. These three
are functions without state. **ReleasePipeline** (`internal/cli`) gives them a state:
the catalog, two evidence roots (`root.left`, `root.right`), an audited snapshot in
a caller's hands (`held`), and the last command's exit code and model (`answer`).
The order in which a command loads and refuses is the order of the cases of its
answer. A digest is the content it is of: `Hash` has no collisions, and a record
whose digest was not computed anew shows.

Which code is written twice, and is modelled twice on purpose: the rules for a
matching record (`Buildable` for the publisher, `RecordCodes` for the auditor) and
`Intact` (report) against `Audit` (the commands).

## 3. Runs

| Run | Question | Bounds |
| --- | --- | --- |
| `file_crash` | all safety properties and the refinement of WriteOnce with every threat at once | two calls on one name; with two, every pair of stages of two calls meets every fault and crash |
| `file_progress` | every call returns or dies | two calls, failing system calls, cancellation, sweeps |
| `bucket_words` | all sequences of calls on a bucket | capacity 6 in words of 8 values, interval 3, durations up to 11, moments up to 18: the balance can wrap, elapsed time can saturate, the first boundary is not at zero |
| `limiter_shared` | a fail-open limiter over one bucket, with switches, and a per-node limiter; cancellations | two callers, capacity 2, amounts 1 and 3 (over capacity), clock 0..2 with interval 2, one node (nodes share nothing but the mutex) |
| `limiter_progress` | calls return, the switch goes through | a fail-closed limiter, two callers, amounts 0 and 1 |
| `limiter_late_cancel` | *violated*: see finding 1 | one caller |
| `snapshot_runs` | manifests are backed and name their source; the ledger is implemented; retries of complete releases are green | two cells; two invocations with every threat (two are enough for a race, and one is enough to crash before the other begins), and three of any options one after the other, whose experiments may fail (one that fails, one that completes, one that retries) |
| `snapshot_retry_crash` | *violated*: see finding 2 | two invocations, one cell |
| `input_digest` | what is returned was there; whom a refusal blames | two contents of the source, three commits, one of which adds evidence; every repository with one thing out of place; up to three deeds of any kind (a checkout that is not atomic is three), or HEAD alone moved up to four times (away and back in both looks) |
| `cell_run` | the runner, its recorder and the way from a result to a record | every list of up to three events out of six fit ones (two times, phases and sequence numbers, in every order) and four unfit ones, up to two assertions, integers of two bits: the limits are one write away |
| `release_reader` | who is blamed for what, and whether what was read was there | every release with one thing wrong before the call, then every failing call with up to two deeds of others (one on a damaged release), at any step |
| `release_pipeline` | all commands on one catalog; the audit against the publisher; reports and diffs | one case, its principle by an alias of an alias, two labs, one adapter: five cells; any single edit of the catalog before the first run, or any single change of the release, the store or a held snapshot after it; values of 4 bits, three outcomes of a run |

In `release_pipeline` one deed is enough for each rule to be the only one that is
broken, so that a rule that were missing shows; deeds that keep the rest consistent
(a claim with its requirement, a forged record with its digest in the manifest) are
single deeds for that reason. The catalog is edited before the first run only: a
later edit makes another digest, whose release is another file. Outcomes at both
ends of the 4 bits have a difference that does not fit.

`MaxTime` (clock), `MaxSource` (commits), `MaxAmount`, `MaxDeeds`, the `most` of a world
and of a meddler, and the set `Moment` bound what would grow for ever; nothing else is bounded. Deadlock is checked for the
limiters, the bucket and the pipeline, where another call can always be made; file
calls, cells and invocations are made once and end, so there a state without a successor
is the end.

Each property has a mutant in `PROJECT.json`: a definition of the module changed
the way a slip in the code would change it (a dropped sync, a flag given back too
early, a comparison left out), defined next to the original under the comment
*Mutant*, with which the run finds the property violated.

### Fairness

`ImmutableFile!FairSpec`: each call is sequential code that waits for nobody,
and the kernel answers each of its calls, so `Step(w)` is weakly fair. Nothing
is assumed of the environment. `RateLimiter!FairSpec`: a running goroutine is
scheduled (weak fairness of the steps that take no lock); Go's `Mutex` hands
itself to a waiter starved for 1 ms, so each caller that asks again and again
gets it (strong fairness of `AcquireMutex`); an `RWMutex` lets the readers that
waited for a writer in before the next writer (strong fairness of
`AcquireRead`), and the writer in when the readers before it are gone (weak
fairness of `SetAvailable`). No fairness for `Begin`, `Cancel`, `Tick` or
`AskSwitch`. SnapshotRun has no liveness property: invocations may be killed.
Nor have Harness and CellRun: a callback may never return. ReleaseReader, InputDigest and
ReleasePipeline are about answers: each invocation is a finite sequence of calls.

## 4. Proofs

The modules whose name ends in `Proofs`, checked by tlapm, for all values of the
constants. Assumptions: `ImmutableFileAssumption` (each call has a destination, `None`
is no call), the bucket's on its constants (the capacity and the interval are
positive, words hold the capacity, moments are numbers), `RateLimiterAssumption`,
`HarnessAssumption`, `CellRunAssumption` (events are records of numbers, deltas are
integers of the width, the definition gives each metric a unit),
`SnapshotRunAssumption` (what a world consists of; `None` is neither an invocation nor
one with its profile), `InputDigestAssumption` (each commit has a source that is
not the absence of one) and `ReleaseReaderAssumption` (which kinds of threat there are,
and that the bound of the changes is a number), `CatalogRulesAssumption` (no two
identifiers have one place in the order of strings) and `ReleasePipelineAssumption`
(the first catalog has the fields and the types of a decoded one, its labs are finitely
many, their names have a place in the order of strings, and each has a binding and a run
for the edits to vary; outcomes fit the integers). All are types of constants; TLC evaluates them in the runs.

In each of them an inductive invariant, a conjunction of named parts, says what is
true at each control point; TLC has checked it on the instance of the component's run.
It is called `IInv` and stands next to the properties in the component's module, but
for ReleasePipeline, whose four invariants are about the functions and stand with the
lemmas.

*ImmutableFile.* `SuccessIsDurable` is not inductive: that a call reaches its end
with a durable file depends on what was true at each stage. `IInv` states this
stage by stage: before the link the name does not show the call's file
(`BeforeLink`), from the file's sync on its content is whole on the disk
(`ContentReady`), after the link the entry is there and after the directory's
sync it is on the disk (`AfterLink`), the temporary name is accounted for
(`TempTracked`), a clean-up has a cause (`CleanupHasCause`). Two facts tie all
calls together: an entry on the disk is the entry in memory (`DiskFollows`:
final names are never taken back), and whatever a name shows is whole on the disk
(`LinkedIsFull`). A crash keeps `IInv` because of these two. From it follow
`TypeOK`, `SuccessIsDurable`, `NeverPartial`, `ResidueIsReported`, the action property
`ResultIsTruthful`, and, step by step, the refinement `RegisterSpec`. `LinkInv` adds
for ManifestWriter what a call still knows when it classifies its causes: whose
file the name shows if it was told that the name is taken (`MetAnother`), and that a
call that has linked its file knows it (`KnowsItsLink`); `ConflictIsClean` follows. That
proof found two alternatives of the classification that overlapped (harmless under
TLC's order of evaluation); they are disjoint now, in ReleaseReader's `Judge` too.

*TokenBucket.* The invariant adds to the types that the anchor is on the grid and
less than an interval behind the latest observation, that the balance stays within
the capacity, and the account of the window. The refinement's mapping gives the
meter the balance at the latest observation; the key lemmas are about `Credit`
(how many boundaries lie in an elapsed time, that a sum which is compared before
it is made does not wrap). From it follow `TypeOK`, `AnchorOnGrid`,
`WindowIsBounded` and `MeterSpec`. `RetryIsExact` is arithmetic about one state of that
invariant: the first boundary at which the balance has the amount is neither before
nor after the wait that is computed with a division rounded up (`DeniedUntil`,
`WaitIsExact`), and the duration saturates only where the wait does (`DurationFits`).

*RateLimiter.* `HasMutex` and `OnItsWay` say which locks a caller holds at which step,
so that at most one is between the mutex and its release. With it `ReadsLatest`
(under the mutex the clock that was read is not behind the bucket) gives
`NoTimeRollback`, and the account of each bucket (`BucketInv`, kept by `Credit` as in
TokenBucket) gives `BudgetIsKept`. `SeesFlag` says that a coordinated call that has seen
the service available holds the read lock, so the flag cannot change before the
delegate has answered: `OutageIsQuiet`. `CallInv` and `AnswerIsTrue` follow the
amount through a call to its answer: `AnswerMatchesTokens` and
`LocalCancelSpendsNothing`.

*SnapshotRun.* `RunInv(r)` says what invocation r has made durable at which step and
which digest it has confirmed, `ManifestInv(d)` that the invocation which installed a
manifest was that far. A step changes its own invocation's control state and records;
of what is shared, a durable directory, a manifest and its sync stay until a crash:
`OthersKeep` is the frame lemma all actions cite. From it follow `ManifestIsBacked`,
`ManifestNamesItsSource` and the refinement `LedgerSpec`. `RetryIsGreen` needs a second
invariant, `QuietInv`, about worlds in which nothing fails, no other commit is checked
out and no two invocations overlap: the worktree looks alike to all (`LooksAlike`), who
has exited has removed what would stand in the way (`CleansUp`). The theorem's
hypothesis is that no machine stops, as with a crash the property is false: finding 2.

*InputDigest.* The moment that counts is the one at which the files are hashed.
`SeesTruly` says what the look still knows then: the index it has read is the index if
the stamp is the same (no two stamps are equal), and the commit is checked out if
HEAD was not moved. `Moment` carries it on to the comparisons that come after, which
decide whether it counts: the stamp at the second read of the index, HEAD, and for the
second look the first one; of the two looks one that HEAD did not leave is enough:
`StateWasClean`. `Undisturbed` says what a call finds that nobody disturbs, step by
step; both looks find the same (`LooksAgree`): `RefusalIsEarned`.

*ReleaseReader.* The theorems hold for every `Threat` and for every number `MaxDeeds` of
renames and rewrites by other programs, between any two calls. `OnItsWay` says
which directories are open at which call and which name is asked for there;
`OneVersion` that what was read is one version of the file as long as its stamp is the
same (a rewrite raises it). `Confirmed` says what has been confirmed since the last
byte: `Held` counts what a place holds now and what it has held since (`past`), so a
rename takes nothing away from it, which is the heart of the frame lemma `DeedKeeps`
for all that other programs do. `Confirmed` with `OneVersion` gives `AnswerIsCurrent`.
`Witnessed` says that a release is called missing only if something on the path of
its manifest was, at some moment (`vanished`). `Undisturbed` says what an invocation that
nobody disturbs has found at each call, down to which records it still has to read;
`Blameless` that then the machine is blamed only if a call failed and the release only
if it is damaged: `ReleaseIsBlamed` follows, also that nothing damaged passes. For
`MachineIsBlamed` a second invariant, `Traced`, follows a failure from the call that failed
to the verdict: it is among the causes at once, or the second look will put it there, and
a failure to close joins what was refused before (`ContinuesTraces`, `LeaveTraces`). One
change makes no failure, as what was gone at the open is still gone at the second look
(`EnterTraces`, `DeedTraces`). Together they are `VerdictIsEarned`.

*Harness.* `IInv` has four parts. `BookInv` ties the metrics to the account of
mathematical integers; `AddDoesNotWrap` is the step it needs.
`ScheduleInv` says that the schedule is the list asked for, in order: the
model's `Sorted` puts an event at the place given by the number of events before
it, and `RankIsTaken` shows with the pigeonhole principle that among different
keys every place is taken, once. `ProgressInv` says that the history is the
beginning of the schedule and the clock not past the rest, so `advance` never
refuses. `VerdictInv` says that nothing is judged before the whole schedule is
executed, and that each verdict is about the snapshot in the result. All
properties of the runner follow, and with `RecordInv` (a record is made of the
result of a run that has ended) `RecordIsJudged`.

*ReleasePipeline.* Here the steps are few and the functions are all: the theorems
hold for every catalog that has the shape of one, any number of edits before the runs
and of changes by hand after them (`MaxDeeds`), and every registry of experiments.
`StateHolds` says that edits leave a catalog a catalog, that a root has at most one
manifest, and that its files are records, sealed or not.

* `AuditIsExact`. Auditor and publisher do not look at the same things: one goes through
  a manifest and says what is wrong, the other makes a manifest of records. `Agrees`,
  which says cell by cell what manifest, cells and store have to do with each other, is
  the term between them: no code of `Audit` is reported exactly if it holds
  (`AuditIsAgreement`), and it holds exactly if the records of the run set are buildable
  and the manifest is what they build (`AgreedIsBuilt`, `BuiltAgrees`). All of this needs
  that no two expected cells have one key. `MatrixIs` shows it: cells of different labs,
  runs or choices differ in their key (`CellsDiffer`), the order of keys is linear
  because no two identifiers have one rank, and in a linear order of finitely many
  elements each place is taken once (`Enumerated`).
* `DiffIsExact`. The audited snapshots of two sound releases are records in the order of
  the same cells, so a row compares the records of one cell (`SidesCompare`,
  `DiffRowsAre`, `RecordOfIs`), and the check before rendering finds nothing in what
  `Diff` made (`DiffCompares`). `DiffHolds` says that an answer still is that of the
  present state when it is looked at.
* `ReportIsAudited`. `HeldHolds` says that what a caller holds is the audited snapshot
  but for what was changed in its hands, and that a seal is the first one or gone. The
  seal is of everything else (`SealTells`), so a changed snapshot is refused. The other
  direction, that an audited snapshot is refused for its sources only (a link that is
  not plain https, a link or a title that may not be printed), is a walk through
  every check of `Reportable` and of the rows it prints: a valid catalog without codes
  has an owner for each cell (`OwnerIsFound`), its cited sources are known
  (`CitedAreKnown`), coverage adds up (`CoverageFits`).

* `GreenMeansProven`. From an alias to its terminal: `Resolve` and `Names` are recursive
  functions of the number of steps, and what is proved of them is proved along that
  number, for chains of any length. The provers have no induction rule that takes a
  predicate; `Counting` says what is needed of a *set* of numbers, and follows from the
  cardinality of finite sets. With it both functions satisfy the equations they are
  defined by (`ResolveWalks`, `NamesReach`), what is resolved is among the names
  (`ResolvedIsNamed`), and of the names only that one can have an entity of its own
  (`NamedIsResolved`: no name has two aliases, and no alias stands before an entity).
  From a need to its record: without codes, the lab the need resolves to has a binding
  for its claim (`NeedIsBound`), the binding has a run (`BindingIsUsed`), nothing takes
  lab or run out of the matrix (`NeededIsComplete`, `RunThatCounts`), so there is a
  cell of that lab and claim (`NeedHasCell`), and an accepted release selects a passed
  record of it (`CellIsSelected`). `ValidateHolds` says that the answer is one about the
  present state.

The model's lists are made with functions of the number of elements before a place
(`Picked`, `Sorted`) and not element by element, which would be one more induction.

Only model-checked: liveness (`EveryCallEnds`, `EveryCallReturns`, `SwitchGoesThrough`),
which is beyond the prover, and the two violations of section 5.

## 5. Findings

1. *A cancelled call can cost a token* (`limiter_late_cancel`). `Allow` of a
   coordinated limiter looks at the context once more after the coordinator has
   answered (`limiter.go:176`) and returns the cancellation, although the token is
   spent. `cases/distributed-rate-limiter/README.md:31` asks that cancellation be
   looked at before any change, and that no token be spent first. The per-node
   limiter keeps to it (`LocalCancelSpendsNothing` in `limiter_shared`).
2. *A crash in the clean-up blocks every retry* (`snapshot_retry_crash`). A run
   that crashes after its manifest was installed and before its temporary file
   was removed leaves an untracked file, and `validateSnapshot`
   (`gitfiles.go:469`) refuses the worktree from then on. The plan
   (`docs/superpowers/plans/2026-07-14-w0-foundation.md:1458`) says that a retry
   for a complete digest audits it and exits 0. Without crashes, failing
   system calls and other commits it does (`RetryIsGreen` in `snapshot_runs`).

Seen while modelling, and no disagreement with any document:

* A name that is gone only while it is opened, and back at the second look, is an
  I/O failure in `evidence/store.go:422` and an unsafe path in
  `release/storage.go:586`. `Why` and `WhyFile` have both.
* HEAD moved to another commit and back within both looks, while the index and
  the files stay as they are, cannot be told from a HEAD that stayed: the index was
  compared with the commit in between, and the result names the one before. That
  takes four moves in one call; `StateWasClean` states it as the one exception
  (`away`), and three deeds of any kind do not get there.
* A load that finds a component missing does not check that the directory it
  looked in is still on the path; `VerdictIsEarned` therefore asks only that
  something on a path of a manifest was missing during the call (`vanished`).
* The manifest and the records may come from two different evidence roots, if one
  takes the place of the other between the load and the opening of the store:
  `AnswerIsCurrent` is about each of the two reads. The audit compares digests, so
  what is accepted still is consistent.
* `validate --release` accepts a source whose link has user information in it, or
  whose link or title has characters that no report may print
  (`validator/references.go`), and `report` refuses the release
  (`report/build.go:177`, `report/dynamic_text.go:60`). The model has one class for
  all of these, "user", and `ReportIsAudited` states it as the one exception.
* `validate`, `report` and `diff` compute the digest before they load the catalog
  and do not look again, as `run` does.

## 6. What is not modelled, and why

Formats (`canonical.go`, `decode.go`, YAML, JSON, Markdown, dynamic text) are
functions on characters; so are the content checks. Of the validator, the search
for a cycle is left out: the edges lead from cases to principles and labs, from
principles to labs and from labs to adapters, and no input makes one lead back. The
content of diagnostics, the parsing of arguments and the writing of output files
are left out. The scenarios of the registry are sequential lists of calls with one
outcome each, which the tests run; the parts they are made of are modelled under
every sequence of calls. Git itself, the file system and the scheduler are modelled from how the
code uses them and marked external. A commit that is checked out, left and
checked out again between the two looks of one run cannot be told by the code,
and the model leaves it out: `ManifestNamesItsSource` would fail, as the code
accepts (it compares states, not histories). Within one look, InputDigest has it.

Smaller things the modules leave out. None of them is told apart by a property, or
the model is the stricter for it:

* ImmutableFile: a failing call that the code wraps in `ErrUnsafePath` has that one cause
  (`Begin`, `Install`, `SyncInstall`); a link that a network file system reports as
  existing although this very call made it (`write.go:167`) is not there (`Linked`).
* ManifestWriter: what fails to be verified or closed around the writer, in
  `WriteManifest` itself (`storage.go:100`), adds no cause to `Outcome`.
* RateLimiter: `Verdict` compares with the bare error of an outage, which is all that
  `AvailabilityCoordinator.Take` returns. The walk of `limiter.go:205` through wrapped and
  joined errors matters for another coordinator only, and no module has one.
* SnapshotRun: `LoadCatalog` has no exit for a catalog the validator refuses, nor for
  definitions or a manifest that cannot be built; ReleasePipeline has those rules.
  A crash strikes while some invocation runs (`Crash`).
* InputDigest: a repository that git no longer finds (`gitfiles.go:322`) is no outcome
  of its own (`Fingerprint`).
* ReleaseReader: a file does not grow beyond the limit while it is read (`Decode`), and
  no symbolic link dangles (`Why`). In a tree that others change twice,
  `VerdictIsEarned` allows the machine to be blamed without a failed call, as the
  store does that (section 5).
* CatalogRules: patterns, blanks, dates and unknown names are one form of an entry each
  (`OwnerCodes`). Without the content diagnostics `ReleaseA` is green more often than the
  code, so that `GreenMeansProven` asks for more.

## 7. Plan

Built so far: every part of the list in section 1 but the content checks and the
scenarios; every safety property the runs check is stated by a theorem, and so are
the three refinements. What could be added is composition: SnapshotRun takes what
ImmutableFile and ManifestWriter promise of a write as three steps of its own, and
CellRun's verdict as any outcome; a refinement from the detailed modules would replace
the argument in section 2.
