---------------------------- MODULE ReleasePipeline ----------------------------
(***************************************************************************)
(* The commands of internal/cli on one source tree and two evidence roots: *)
(* run --snapshot, validate, validate --release, coverage, report and      *)
(* diff, each one call of the operators of CatalogRules, ReleaseAudit and  *)
(* ReleaseReport in the code's order, with its exit code. Before a release *)
(* the catalog is edited; afterwards somebody changes files of the right   *)
(* evidence root, or the slices of an audited snapshot a caller holds.     *)
(*                                                                         *)
(* A command is one step here: what other programs do during a command is  *)
(* ReleaseReader's subject, and an interrupted run that of SnapshotRun. An *)
(* edit of a released tree makes another input digest, whose release is    *)
(* another file, so the catalog is edited only before the first run. A     *)
(* fresh run that fails is not repeated: its attempts would only leave     *)
(* records of other run sets.                                              *)
(***************************************************************************)
EXTENDS ReleaseReport

CONSTANTS Experiment,    \* the registry: what runs for the key of a cell
          FirstCatalog,  \* the catalog before the edits
          Text,          \* what a field of a manifest may say
          Claim,         \* the claims an edit may write
          CurrentInput,  \* the digest of the source tree
          Outcome,       \* what the attempts of a run may measure and say
          MaxDeeds       \* bound of the model: edits and changes by hand

(* What a catalog is, as far as its names and its cells depend on it. The  *)
(* identifiers that name a cell are ordered.                               *)
Ident == DOMAIN Rank

Binding == [id : Ident, kind : OwnerKinds, owner : Text, claim : Ident, workload : Text, asserts : Seq(Text)]
RequiredRun == [id : Ident, binding : Text, baseline : Ident, variants : Seq(Ident), workload : Text,
                faults : Seq(Text), adapters : Seq([id : Ident, required : BOOLEAN])]
Lab == [status : Text, form : Text, kind : Text, required : BOOLEAN, impls : SUBSET Text,
        bindings : Seq(Binding), runs : Seq(RequiredRun), sources : SUBSET Text]
Alias == [kind : Text, from : Text, to : Text]

IsCatalog(c) ==
  /\ DOMAIN c = {"families", "scope", "exclusions", "sources", "aliases", "cases", "principles", "labs", "adapters"}
  /\ c.scope \in Seq([id : Text, family : Text]) /\ c.aliases \in Seq(Alias)
  /\ IsFiniteSet(DOMAIN c.labs) /\ DOMAIN c.labs \subseteq Ident
  /\ c.labs \in [DOMAIN c.labs -> Lab]

(* The edits vary the first binding and the first run of a lab.            *)
ASSUME ReleasePipelineAssumption ==
  /\ CurrentInput \in Input /\ Bits \in Nat \ {0} /\ MaxDeeds \in Nat
  /\ \A o \in Outcome : o.value \in Value
  /\ Claim \cup {"", "more", "baseline", "variant", "adapter"} \subseteq Ident
  /\ {"lab", "draft", "blank", "scenario", "primitive", "more", "nowhere", "other-workload", "outage"} \subseteq Text
  /\ IsCatalog(FirstCatalog)
  /\ \A l \in DOMAIN FirstCatalog.labs : FirstCatalog.labs[l].bindings # <<>> /\ FirstCatalog.labs[l].runs # <<>>

VARIABLES catalog, \* the catalog of the source tree
          root,    \* for either side, the release of the current input and the records
          held,    \* an audited snapshot in a caller's hands, with what it was
          answer,  \* what the last command answered
          deeds    \* the edits and changes by hand so far

vars == <<catalog, root, held, answer, deeds>>

Side == {"left", "right"}

NoAnswer == {}
Answer(command, exit, model) == {[command |-> command, exit |-> exit, model |-> model]}

------------------------------------------------------------------------------
(* resolveDefinitions: the registered experiment of a cell has to say what *)
(* the matrix says.                                                        *)

Defined(cell) ==
  /\ cell.key \in DOMAIN Experiment
  /\ LET d == Experiment[cell.key] IN
     /\ d.plan.workload = cell.workload /\ d.faults = cell.faults /\ d.asserts = cell.asserts
     /\ Distinct(d.faults) /\ Distinct(d.asserts)

Expected(matrix) ==
  LET cells == Picked(matrix, {i \in DOMAIN matrix : Defined(matrix[i])}) IN
  Evaluated([i \in DOMAIN cells |->
               [cell |-> cells[i], profile |-> "deep", plan |-> Experiment[cells[i].key].plan]])

AllDefined(matrix) == \A cell \in ElementsOf(matrix) : Defined(cell)

(* The beginning of every command that needs a valid catalog: its exit     *)
(* code where the catalog stops it.                                        *)
CatalogExit == IF ~CatalogLoads(catalog) THEN 2
               ELSE IF Validate(catalog, "development") # {} THEN 3
               ELSE 0

DefinitionExit == IF CatalogExit # 0 THEN CatalogExit
                  ELSE IF ~AllDefined(Matrix(catalog)) THEN 5
                  ELSE 0

------------------------------------------------------------------------------
(* What a command finds in an evidence root.                               *)

ReleaseOf(side) == CHOOSE m \in root[side].release : TRUE

Storage(side) ==
  IF root[side].release = {} THEN "missing"
  ELSE IF ValidManifest(ReleaseOf(side)) /\ ReleaseOf(side).input = CurrentInput THEN "loaded"
  ELSE "invalid"

StorageCodes(side, expected) ==
  IF Storage(side) = "missing" THEN {"snapshot_missing"}
  ELSE IF Storage(side) = "invalid" THEN {"manifest_invalid"}
  ELSE Audit(ReleaseOf(side), expected, root[side].store)

(* Load, profile and audit, as report, diff and a second run do them.      *)
SnapshotCodes(side, expected) ==
  IF Storage(side) = "loaded" /\ ReleaseOf(side).profile # "deep" THEN {"profile_mismatch"}
  ELSE StorageCodes(side, expected)

Snapshot(side, expected) == Audited(ReleaseOf(side), expected, root[side].store)

Validation == [coverage |-> Coverage(catalog), matrix |-> Matrix(catalog)]

------------------------------------------------------------------------------
(* The commands that change nothing.                                       *)

(* validate, and coverage, whose model is what it prints.                  *)
CoverageAnswer ==
  Answer("coverage", CatalogExit, IF CatalogExit = 0 THEN {Coverage(catalog)} ELSE {})

(* validate --release: every check is made, whatever the others find.      *)
ReleaseAnswer ==
  LET matrix == Matrix(catalog)
      codes == Validate(catalog, "release")
               \cup If(~AllDefined(matrix), "definition_mismatch")
               \cup StorageCodes("right", Expected(matrix))
  IN Answer("validate", IF ~CatalogLoads(catalog) THEN 2 ELSE IF codes # {} THEN 4 ELSE 0, {})

ReportAnswer(snapshot, validation) ==
  IF ~Reportable(catalog, validation, snapshot) THEN Answer("report", 4, {})
  ELSE Answer("report", 0, {ReportOf(catalog, validation, snapshot)})

Report ==
  LET expected == Expected(Matrix(catalog)) IN
  IF DefinitionExit # 0 THEN Answer("report", DefinitionExit, {})
  ELSE IF SnapshotCodes("right", expected) # {} THEN Answer("report", 4, {})
  ELSE ReportAnswer(Snapshot("right", expected), Validation)

LoadDiff(side, expected, allowMissing) ==
  IF SnapshotCodes(side, expected) = {} THEN [found |-> {Snapshot(side, expected)}, exit |-> 0]
  ELSE [found |-> {}, exit |-> IF Storage(side) = "missing" /\ allowMissing THEN 0 ELSE 4]

DiffModels(lefts, right) ==
  IF lefts = {} THEN {m \in {NoBaselineDiff(right)} : Intact(right) /\ DiffPrintable(m)}
  ELSE UNION {{m \in {Diff(l, right)} : DiffPrintable(m)} : l \in {l \in lefts : Comparable(l, right)}}

DiffAnswer ==
  LET expected == Expected(Matrix(catalog))
      right    == LoadDiff("right", expected, FALSE)
      left     == LoadDiff("left", expected, TRUE)
      models   == UNION {DiffModels(left.found, r) : r \in right.found}
  IN IF DefinitionExit # 0 THEN Answer("diff", DefinitionExit, {})
     ELSE IF right.found = {} THEN Answer("diff", right.exit, {})
     ELSE IF left.exit # 0 THEN Answer("diff", left.exit, {})
     ELSE Answer("diff", IF models = {} THEN 4 ELSE 0, models)

Ask ==
  /\ answer = NoAnswer /\ held = {}
  /\ answer' \in {CoverageAnswer, ReleaseAnswer, Report, DiffAnswer}
  /\ UNCHANGED <<catalog, root, held, deeds>>

------------------------------------------------------------------------------
(* run --required --snapshot with attempts that all pass.                  *)

IdAt(side, i) == <<side, i>>

RecordAt(side, e, i, outcome) ==
  Seal([id |-> IdAt(side, i), runSet |-> side, input |-> CurrentInput, profile |-> e.profile,
        role |-> e.cell.role, key |-> e.cell.key, plan |-> e.plan, status |-> "passed",
        checks |-> [j \in DOMAIN e.cell.asserts |-> [id |-> e.cell.asserts[j], passed |-> TRUE]],
        value |-> outcome.value, said |-> outcome.said])

Attempts(side, expected, outcome) ==
  [id \in {IdAt(side, i) : i \in DOMAIN expected} |-> RecordAt(side, expected[id[2]], id[2], outcome)]

FreshRun(side) ==
  /\ root[side].store = <<>>
  /\ \E outcome \in Outcome :
       LET expected == Expected(Matrix(catalog))
           store    == Attempts(side, expected, outcome)
           current  == ElementsOf(store)
           built    == AllDefined(Matrix(catalog)) /\ Buildable(CurrentInput, expected, current)
       IN IF CatalogExit # 0 THEN answer' = Answer("run", CatalogExit, {}) /\ UNCHANGED root
          ELSE /\ root' = [root EXCEPT ![side] =
                             [release |-> IF built THEN {Manifest(CurrentInput, expected, current)} ELSE {},
                              store |-> store]]
               /\ answer' = IF built THEN NoAnswer ELSE Answer("run", 5, {})

(* A run that finds a release audits it and runs nothing.                  *)
SecondRun(side) ==
  /\ root[side].release # {}
  /\ LET expected == Expected(Matrix(catalog))
         exit == IF CatalogExit # 0 THEN CatalogExit
                 ELSE IF Storage(side) # "loaded" \/ ReleaseOf(side).profile # "deep" THEN 4
                 ELSE IF ~AllDefined(Matrix(catalog)) THEN 5
                 ELSE IF StorageCodes(side, expected) # {} THEN 4
                 ELSE 0
     IN answer' = Answer("run", exit, {})
  /\ UNCHANGED root

Run(side) ==
  /\ answer = NoAnswer /\ held = {}
  /\ FreshRun(side) \/ SecondRun(side)
  /\ UNCHANGED <<catalog, held, deeds>>

------------------------------------------------------------------------------
(* An audited snapshot in the hands of a caller.                           *)

Take ==
  /\ answer = NoAnswer /\ held = {} /\ DefinitionExit = 0
  /\ SnapshotCodes("right", Expected(Matrix(catalog))) = {}
  /\ LET s == Snapshot("right", Expected(Matrix(catalog)))
     IN held' = {[snapshot |-> s, validation |-> Validation, truth |-> <<s, Validation>>]}
  /\ UNCHANGED <<catalog, root, answer, deeds>>

ReportHeld ==
  /\ answer = NoAnswer
  /\ \E h \in held : answer' = ReportAnswer(h.snapshot, h.validation)
  /\ UNCHANGED <<catalog, root, held, deeds>>

Dismiss ==
  /\ answer # NoAnswer
  /\ answer' = NoAnswer
  /\ UNCHANGED <<catalog, root, held, deeds>>

------------------------------------------------------------------------------
(* The deeds of others.                                                    *)

Without(s, i) == SubSeq(s, 1, i - 1) \o SubSeq(s, i + 1, Len(s))
Ends(s) == {1, Len(s)} \cap DOMAIN s

OwnerEdits(c, e) ==
  {[e EXCEPT !.status = s] : s \in {"draft", "other"}}
  \cup {[e EXCEPT !.form = f] : f \in {"blank", "malformed"}}
  \cup {[e EXCEPT !.claims = @ \cup {k}] : k \in Claim} \cup {[e EXCEPT !.claims = {}]}
  \cup {[e EXCEPT !.needs = @ \cup {[claim |-> k, lab |-> l]}] : k \in Claim, l \in DOMAIN c.labs}
  \cup {[e EXCEPT !.claims = @ \cup {k}, !.needs = @ \cup {[claim |-> k, lab |-> l]}] : k \in Claim, l \in DOMAIN c.labs}
  \cup {[e EXCEPT !.needs = {}]}
  \cup {[e EXCEPT !.labs = @ \cup {l}] : l \in DOMAIN c.labs} \cup {[e EXCEPT !.labs = {}]}
  \cup {[e EXCEPT !.sources = s] : s \in {{}, {"nowhere"}}}

CaseEdits(c, e) ==
  OwnerEdits(c, e) \cup {[e EXCEPT !.principles = p] : p \in {{}, {"nowhere"}}}
  \cup {[e EXCEPT !.family = "other-family"], [e EXCEPT !.secondary = {"other-family"}]}

BindingEdits(b) ==
  {[b EXCEPT !.claim = k] : k \in Claim} \cup {[b EXCEPT !.workload = "other-workload"], [b EXCEPT !.asserts = <<>>]}

RunEdits(run) ==
  {[run EXCEPT !.variants = v] : v \in {<<>>, <<run.baseline>>}}
  \cup {[run EXCEPT !.adapters = <<>>], [run EXCEPT !.binding = "nowhere"], [run EXCEPT !.faults = <<"outage">>]}

LabEdits(lab) ==
  {[lab EXCEPT !.status = "draft"], [lab EXCEPT !.form = "blank"], [lab EXCEPT !.required = ~@],
   [lab EXCEPT !.kind = IF @ = "scenario" THEN "primitive" ELSE "scenario"], [lab EXCEPT !.impls = {}]}
  \cup {[lab EXCEPT !.bindings[1] = b] : b \in BindingEdits(lab.bindings[1])}
  \cup {[lab EXCEPT !.bindings = Append(@, b)] : b \in BindingEdits([lab.bindings[1] EXCEPT !.id = "more"])}
  \cup {[lab EXCEPT !.runs[1] = r] : r \in RunEdits(lab.runs[1])}
  \cup {[lab EXCEPT !.runs = Append(@, [@[1] EXCEPT !.binding = "more"])]}

AliasEdits(aliases) ==
  {Without(aliases, i) : i \in DOMAIN aliases}
  \cup {Append(aliases, [a EXCEPT !.from = aliases[Len(aliases)].to, !.to = a.from]) : a \in {aliases[i] : i \in {1} \cap DOMAIN aliases}}
  \cup {[aliases EXCEPT ![i].kind = "lab"] : i \in {1} \cap DOMAIN aliases}

Edits(c) ==
  {[c EXCEPT !.families = <<>>], [c EXCEPT !.exclusions = {[id |-> "gone", canonical |-> "nowhere"]}],
   [c EXCEPT !.scope = <<>>]}
  \cup {[c EXCEPT !.scope = Append(@, [@[i] EXCEPT !.id = "more"])] : i \in {1} \cap DOMAIN c.scope}
  \cup {[c EXCEPT !.sources[s] = v] : s \in DOMAIN c.sources, v \in {"user", "other"}}
  \cup {[c EXCEPT !.aliases = a] : a \in AliasEdits(c.aliases)}
  \cup (UNION {{[c EXCEPT !.cases[id] = e] : e \in CaseEdits(c, c.cases[id])} : id \in DOMAIN c.cases})
  \cup (UNION {{[c EXCEPT !.principles[id] = e] : e \in OwnerEdits(c, c.principles[id])} : id \in DOMAIN c.principles})
  \cup (UNION {{[c EXCEPT !.labs[id] = e] : e \in LabEdits(c.labs[id])} : id \in DOMAIN c.labs})
  \cup {[c EXCEPT !.adapters[id].status = "draft"] : id \in DOMAIN c.adapters}
  \cup {[c EXCEPT !.adapters[id].form = "blank"] : id \in DOMAIN c.adapters}

ManifestChanges(m) ==
  {[m EXCEPT !.profile = "smoke"], [m EXCEPT !.runSet = "left"]}
  \cup {[m EXCEPT !.input = i] : i \in Input}
  \cup {[m EXCEPT !.selections = Without(@, i)] : i \in Ends(m.selections)}
  \cup {[m EXCEPT !.selections[i].id = m.selections[j].id] : i \in Ends(m.selections), j \in Ends(m.selections)}
  \cup {[m EXCEPT !.selections[i].role = "variant"] : i \in Ends(m.selections)}
  \cup UNION {{[m EXCEPT !.selections[i].digest = r.digest] : r \in ElementsOf(root.right.store)} : i \in Ends(m.selections)}

BodyChanges(b) ==
  {[b EXCEPT !.status = "failed"], [b EXCEPT !.runSet = "left"], [b EXCEPT !.profile = "smoke"],
   [b EXCEPT !.role = "variant"], [b EXCEPT !.key[4] = "other"], [b EXCEPT !.plan.name = "other"],
   [b EXCEPT !.checks = <<>>], [b EXCEPT !.said = "unsafe"], [b EXCEPT !.id = IdAt("right", 0)]}
  \cup {[b EXCEPT !.input = i] : i \in Input}
  \cup {[b EXCEPT !.value = o.value] : o \in Outcome}

StoreChanges(store) ==
  LET touched == {IdAt("right", i) : i \in {1, Cardinality(DOMAIN store)}} \cap DOMAIN store
      Put(id, r) == [x \in DOMAIN store \cup {id} |-> IF x = id THEN r ELSE store[x]]
  IN {[x \in DOMAIN store \ {id} |-> store[x]] : id \in touched}
     \cup (UNION {{Put(id, Seal(b)) : b \in BodyChanges(store[id].body)} : id \in touched})
     \cup (UNION {{Put(id, [store[id] EXCEPT !.body = b]) : b \in BodyChanges(store[id].body)} : id \in touched})
     \cup UNION {{Put(IdAt("right", 0), Seal([store[id].body EXCEPT !.id = IdAt("right", 0), !.runSet = side]))
                  : side \in Side} : id \in touched}

SnapshotChanges(s) ==
  {[s EXCEPT !.seal = <<>>], [s EXCEPT !.records = Without(@, Len(@))]}
  \cup {[s EXCEPT !.manifest = m] : m \in ManifestChanges(s.manifest)}
  \cup {[s EXCEPT !.expected[i].plan.name = "other"] : i \in Ends(s.expected)}
  \cup (UNION {{[s EXCEPT !.records[i] = Seal(b)] : b \in BodyChanges(s.records[i].body)} : i \in Ends(s.records)})
  \cup UNION {{[s EXCEPT !.records[i] = Seal(b), !.manifest.selections[i].digest = Hash(b)]
               : b \in BodyChanges(s.records[i].body)} : i \in Ends(s.records)}

Edit ==
  /\ held = {} /\ root.left.store = <<>> /\ root.right.store = <<>>
  /\ catalog' \in Edits(catalog)
  /\ UNCHANGED <<root, held>>

Tamper ==
  /\ held = {}
  /\ \/ \E m \in root.right.release : \E n \in ManifestChanges(m) : root' = [root EXCEPT !.right.release = {n}]
     \/ /\ root.right.release # {}
        /\ \E s \in StoreChanges(root.right.store) : root' = [root EXCEPT !.right.store = s]
     \/ \E m \in root.right.release : \E i \in Ends(m.selections) :
          /\ m.selections[i].id \in DOMAIN root.right.store
          /\ \E b \in BodyChanges(root.right.store[m.selections[i].id].body) :
               root' = [root EXCEPT !.right.store[m.selections[i].id] = Seal(b),
                                    !.right.release = {[m EXCEPT !.selections[i].digest = Hash(b)]}]
  /\ UNCHANGED <<catalog, held>>

Scribble ==
  /\ \E h \in held :
       \/ \E s \in SnapshotChanges(h.snapshot) : held' = {[h EXCEPT !.snapshot = s]}
       \/ held' = {[h EXCEPT !.validation.coverage.complete = 0]}
       \/ held' = {[h EXCEPT !.validation.matrix = Without(@, 1)]}
  /\ UNCHANGED <<catalog, root>>

Deed ==
  /\ answer = NoAnswer /\ deeds < MaxDeeds
  /\ Edit \/ Tamper \/ Scribble
  /\ deeds' = deeds + 1
  /\ UNCHANGED answer

------------------------------------------------------------------------------

Init ==
  /\ catalog = FirstCatalog
  /\ root = [side \in Side |-> [release |-> {}, store |-> <<>>]]
  /\ held = {} /\ answer = NoAnswer /\ deeds = 0

Next == Ask \/ (\E side \in Side : Run(side)) \/ Take \/ ReportHeld \/ Dismiss \/ Deed

Spec == Init /\ [][Next]_vars

------------------------------------------------------------------------------
(* Properties.                                                             *)

(* The names an identifier leads to, alias by alias.                       *)
Names(kind, id) ==
  LET reach[n \in 0 .. Len(catalog.aliases)] ==
        IF n = 0 THEN {id} ELSE reach[n - 1] \cup UNION {NextNames(catalog, kind, x) : x \in reach[n - 1]}
  IN reach[Len(catalog.aliases)]

Vouched(need) ==
  \E m \in root.right.release : \E s \in ElementsOf(m.selections) :
    /\ s.id \in DOMAIN root.right.store
    /\ LET r == root.right.store[s.id] IN
       /\ r.digest = Hash(r.body) /\ r.digest = s.digest
       /\ r.body.status = "passed" /\ r.body.input = CurrentInput /\ r.body.profile = "deep"
       /\ r.body.key[1] \in Names("lab", need.lab) /\ r.body.key[4] = need.claim

(* Where validate --release finds nothing, every case of the scope is      *)
(* complete in the family the scope gives it, and everything it and the    *)
(* principles it rests on need is vouched for by a selected, passed record *)
(* of the lab and the claim, whatever names the catalog uses for them.     *)
GreenMeansProven ==
  \A a \in answer : a.command = "validate" /\ a.exit = 0 =>
    \A s \in ElementsOf(catalog.scope) :
      /\ s.id \in DOMAIN catalog.cases
      /\ LET e == catalog.cases[s.id]
             rests == DOMAIN catalog.principles \cap UNION {Names("principle", p) : p \in e.principles}
         IN /\ e.status = "complete" /\ e.family = s.family /\ e.needs # {}
            /\ \A need \in e.needs : Vouched(need)
            /\ \A p \in e.principles : Names("principle", p) \cap rests # {}
            /\ \A p \in rests : \A need \in catalog.principles[p].needs : Vouched(need)

(* The auditor and the publisher agree: AuditSnapshot accepts a release    *)
(* exactly when every file of the store is a record and Build, given the   *)
(* records of the run set the release names, builds that very release.     *)
AuditIsExact ==
  answer = NoAnswer /\ held = {} =>
    \A side \in Side : \A m \in root[side].release :
      LET expected == Expected(Matrix(catalog))
          store    == root[side].store
          current  == {r \in ElementsOf(store) : r.body.runSet = m.runSet}
      IN Audit(m, expected, store) = {}
         <=> /\ Lists(store)
             /\ Buildable(m.input, expected, current) /\ Manifest(m.input, expected, current) = m

(* A report shows what was audited or nothing: a snapshot changed in its   *)
(* caller's hands, resealed or not, or the validation of another catalog,  *)
(* is refused; and what nobody touched is refused only for a source whose  *)
(* link is not plain https, or whose link or title no report may print.    *)
ReportIsAudited ==
  \A h \in held : \A a \in answer :
    /\ a.exit = 0 => <<h.snapshot, h.validation>> = h.truth
    /\ <<h.snapshot, h.validation>> = h.truth =>
         ((a.exit = 0) <=> \A cell \in ElementsOf(h.validation.matrix) :
                             \A s \in CitedSources(catalog, cell) : catalog.sources[s] = "direct")

RecordOf(side, key) == CHOOSE r \in ElementsOf(root[side].store) :
                         \E s \in ElementsOf(ReleaseOf(side).selections) : s.key = key /\ s.id = r.body.id

(* A diff compares every two releases that pass the audit, says so when    *)
(* there is no left one, finds no changes only where no cell differs, and  *)
(* what it prints for a measurement leads exactly from left to right.      *)
DiffIsExact ==
  \A a \in answer : a.command = "diff" /\ DefinitionExit = 0 =>
    LET expected == Expected(Matrix(catalog))
        Sound(side) == SnapshotCodes(side, expected) = {}
        Differs(key) == \/ RecordOf("left", key).body.value # RecordOf("right", key).body.value
                        \/ RecordOf("left", key).body.said # RecordOf("right", key).body.said
    IN /\ (a.exit = 0) <=> (Sound("right") /\ (root.left.release = {} \/ Sound("left")))
       /\ \A m \in a.model :
            /\ (m.status = "no-baseline") <=> (root.left.release = {})
            /\ m.status # "no-baseline" =>
                 /\ {row.cell.key : row \in ElementsOf(m.rows)}
                      = {e.cell.key : e \in {x \in ElementsOf(expected) : Differs(x.cell.key)}}
                 /\ \A row \in ElementsOf(m.rows) : \A x \in row.metrics :
                      /\ x.left = RecordOf("left", row.cell.key).body.value
                      /\ x.left + x.delta = RecordOf("right", row.cell.key).body.value
=============================================================================
