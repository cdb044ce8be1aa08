----------------------------- MODULE ReleaseReport -----------------------------
(***************************************************************************)
(* internal/report as functions: when an audited snapshot is made into a   *)
(* report, when two are compared, and what the comparison says. Rendering  *)
(* a model to Markdown or JSON is left out; the checks on the text of a    *)
(* model before it is rendered are here as far as they test more than its  *)
(* wording.                                                                *)
(***************************************************************************)
EXTENDS ReleaseAudit

CONSTANT Bits  \* the width of a measured value (64 in the code)

Value == -(2 ^ (Bits - 1)) .. 2 ^ (Bits - 1) - 1

------------------------------------------------------------------------------
(* The report.                                                             *)

(* referencedSourceIDs: the sources of the lab and of the one owner of the *)
(* binding of a cell.                                                      *)
CellBindings(c, cell) == BindingsNamed(c.labs[cell.key[1]], cell.key[3])

OwnerFound(c, cell) ==
  /\ cell.key[1] \in DOMAIN c.labs /\ Len(CellBindings(c, cell)) = 1
  /\ LET b == CellBindings(c, cell)[1] IN b.claim = cell.key[4] /\ OwnerOf(c, b)[2] \in DOMAIN Owners(c, b.kind)

CitedSources(c, cell) ==
  LET b == CellBindings(c, cell)[1] IN
  {Resolve(c, "source", s) : s \in c.labs[cell.key[1]].sources \cup Owners(c, b.kind)[OwnerOf(c, b)[2]].sources}

(* sourceLinks and the check before rendering: a report names a source by  *)
(* a plain https link and a title of printable characters, or not at all.  *)
Linkable(c, id) == id \in DOMAIN c.sources /\ c.sources[id] = "direct"

RowOf(cell, r) ==
  [cell |-> cell, id |-> r.body.id, status |-> r.body.status, plan |-> r.body.plan,
   value |-> r.body.value, checks |-> r.body.checks, said |-> r.body.said]

RowPrintable(row) ==
  /\ ValidRole(row.cell.role, row.cell.key) /\ row.status = "passed"
  /\ row.plan.workload = row.cell.workload
  /\ [i \in DOMAIN row.checks |-> row.checks[i].id] = row.cell.asserts
  /\ \A check \in ElementsOf(row.checks) : check.passed
  /\ row.said # "unsafe"
  /\ Distinct(row.cell.faults) /\ Distinct(row.cell.asserts)

CoveragePrintable(coverage) ==
  /\ coverage.complete <= coverage.baseline
  /\ \A f \in DOMAIN coverage.families : coverage.families[f].complete <= coverage.families[f].required

(* validateReportDynamicText.                                              *)
Printable(model) ==
  /\ model.input \in Input /\ model.profile \in Profile
  /\ CoveragePrintable(model.coverage)
  /\ Distinct([i \in DOMAIN model.rows |-> model.rows[i].id])
  /\ \A row \in ElementsOf(model.rows) : RowPrintable(row)

ReportOf(c, validation, a) ==
  [input |-> a.manifest.input, profile |-> a.manifest.profile, coverage |-> validation.coverage,
   rows |-> [i \in DOMAIN a.records |-> RowOf(validation.matrix[i], a.records[i])],
   sources |-> UNION {CitedSources(c, cell) : cell \in ElementsOf(validation.matrix)}]

(* Build, as far as the model it returns.                                  *)
Reportable(c, validation, a) ==
  /\ Intact(a) /\ AliasesFit(c)
  /\ validation.coverage = Coverage(c) /\ validation.matrix = Matrix(c)
  /\ Len(validation.matrix) = Len(a.expected) /\ Len(a.records) = Len(a.expected)
  /\ \A i \in DOMAIN a.records :
       validation.matrix[i] = a.expected[i].cell /\ OwnerFound(c, validation.matrix[i])
  /\ \A cell \in ElementsOf(validation.matrix) : \A s \in CitedSources(c, cell) : Linkable(c, s)
  /\ Printable(ReportOf(c, validation, a))

------------------------------------------------------------------------------
(* The comparison.                                                         *)

(* Mutant: the difference is taken in the width of the values.             *)
Delta_Wraps(left, right) ==
  LET size == 2 ^ Bits  half == 2 ^ (Bits - 1) IN ((right - left + half) % size) - half

(* exactIntegerDelta: the difference as an integer of any size.            *)
Delta(left, right) == right - left

MetricChanges(left, right) ==
  IF left.value = right.value THEN {}
  ELSE {[left |-> left.value, right |-> right.value, delta |-> Delta(left.value, right.value)]}

(* diffEnvironment, diffAssertionMessages and the conclusion.              *)
TextChanges(left, right) ==
  IF left.said = right.said THEN {} ELSE {[left |-> left.said, right |-> right.said]}

(* buildDiffRow: the two records of one cell.                              *)
DiffRow(e, left, right) ==
  [cell |-> e.cell, metrics |-> MetricChanges(left, right), texts |-> TextChanges(left, right)]

Changed(row) == row.metrics # {} \/ row.texts # {}

SameChecks(left, right) ==
  /\ Len(left.checks) = Len(right.checks)
  /\ \A i \in DOMAIN left.checks :
       left.checks[i].id = right.checks[i].id /\ left.checks[i].passed /\ right.checks[i].passed

AtCell(a, key) == {i \in DOMAIN a.records : a.records[i].body.key = key}

(* The cells of both sides match one to one, with equal roles and static   *)
(* definitions.                                                            *)
Comparable(left, right) ==
  /\ Intact(left) /\ Intact(right)
  /\ left.manifest.input = right.manifest.input /\ left.manifest.profile = right.manifest.profile
  /\ Len(left.records) = Len(right.records)
  /\ \A j \in DOMAIN right.records :
       LET b == right.records[j].body IN
       /\ Cardinality(AtCell(left, b.key)) = 1 /\ Cardinality(AtCell(right, b.key)) = 1
       /\ \A i \in AtCell(left, b.key) :
            /\ left.records[i].body.role = b.role /\ left.expected[i] = right.expected[j]
            /\ SameChecks(left.records[i].body, b)

DiffRows(left, right) ==
  LET RowAt(j) == DiffRow(right.expected[j],
                          left.records[CHOOSE i \in AtCell(left, right.records[j].body.key) : TRUE].body,
                          right.records[j].body)
      rows == [j \in DOMAIN right.records |-> RowAt(j)]
  IN Picked(rows, {j \in DOMAIN rows : Changed(rows[j])})

Diff(left, right) ==
  LET rows == DiffRows(left, right) IN
  [status |-> IF rows = <<>> THEN "no-changes" ELSE "changes",
   input |-> right.manifest.input, profile |-> right.manifest.profile, rows |-> rows]

NoBaselineDiff(right) ==
  [status |-> "no-baseline", input |-> right.manifest.input, profile |-> right.manifest.profile,
   rows |-> <<>>]

(* validateDiffDynamicText.                                                *)
DiffPrintable(model) ==
  /\ model.input \in Input /\ model.profile \in Profile
  /\ model.status = "changes" <=> model.rows # <<>>
  /\ Distinct([i \in DOMAIN model.rows |-> model.rows[i].cell.key])
  /\ \A row \in ElementsOf(model.rows) :
       /\ ValidRole(row.cell.role, row.cell.key) /\ Changed(row)
       /\ \A m \in row.metrics : m.left # m.right /\ m.delta = Delta(m.left, m.right)
       /\ \A t \in row.texts : t.left # t.right /\ "unsafe" \notin {t.left, t.right}
=============================================================================
