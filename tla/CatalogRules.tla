----------------------------- MODULE CatalogRules -----------------------------
(***************************************************************************)
(* internal/catalog and internal/validator as functions: what the loader   *)
(* of the catalog accepts, the aliases, the coverage, the required matrix, *)
(* and the codes of the diagnostics Validate reports in either mode. What  *)
(* a diagnostic says and whom it is about is left out.                     *)
(*                                                                         *)
(* A catalog is a record: families, scope and exclusions as scope.yaml has *)
(* them, aliases, and a function of the identifiers for each kind of       *)
(* manifest. "form" stands for the fields no rule relates to another one:  *)
(* "good", "blank" (one of them is empty), "malformed" (an identifier has  *)
(* the wrong pattern, or a dimension is unknown). Cases and principles     *)
(* have the same fields but for family, secondary and principles, which    *)
(* only cases have. The bindings of a lab are one sequence, with the kind  *)
(* of their owner. A source is "direct" (an https link and a title that a  *)
(* report may print), "user" (a link the validator accepts, but with user  *)
(* information or a character no report may print, or such a title) or     *)
(* "other" (no link the validator accepts).                                *)
(***************************************************************************)
EXTENDS Integers, Sequences, FiniteSets

CONSTANTS Rank,   \* the place of each identifier in the order of strings
          Family  \* the approved family registry

ASSUME CatalogRulesAssumption == /\ \A s \in DOMAIN Rank : Rank[s] \in Nat
                                 /\ \A s, t \in DOMAIN Rank : Rank[s] = Rank[t] => s = t

ElementsOf(s) == {s[i] : i \in DOMAIN s}
Distinct(s) == \A i \in DOMAIN s : \A j \in DOMAIN s : s[i] = s[j] => i = j
If(condition, code) == IF condition THEN {code} ELSE {}

(* The order of tuples of identifiers, field by field.                     *)
Before(left, right) ==
  \E i \in DOMAIN left :
    /\ Rank[left[i]] < Rank[right[i]]
    /\ \A j \in 1 .. i - 1 : left[j] = right[j]

Ordered(s, Place(_)) == \A i \in 1 .. Len(s) - 1 : Before(Place(s[i]), Place(s[i + 1]))

(* The same sequence, which TLC evaluates here, once.                      *)
Evaluated(s) == s \o <<>>

(* The elements of s at the places in S, in their order.                   *)
Picked(s, S) ==
  Evaluated([i \in 1 .. Cardinality(S) |-> s[CHOOSE j \in S : Cardinality({k \in S : k < j}) = i - 1]])

Sorted(S, Place(_)) ==
  Evaluated([i \in 1 .. Cardinality(S) |->
               CHOOSE x \in S : Cardinality({y \in S : Before(Place(y), Place(x))}) = i - 1])

------------------------------------------------------------------------------
(* Aliases.                                                                *)

Kind == {"case", "principle", "lab", "source"}

ScopeCases(c) == {s.id : s \in ElementsOf(c.scope)}

Canonical(c, kind) ==
  CASE kind = "case" -> ScopeCases(c)
    [] kind = "principle" -> DOMAIN c.principles
    [] kind = "lab" -> DOMAIN c.labs
    [] kind = "source" -> DOMAIN c.sources

NextNames(c, kind, id) == {a.to : a \in {b \in ElementsOf(c.aliases) : b.kind = kind /\ b.from = id}}

(* The terminal of a chain of aliases: as many steps as there are aliases  *)
(* are enough to reach it.                                                 *)
Resolve(c, kind, id) ==
  LET walk[n \in 0 .. Len(c.aliases)] ==
        IF n = 0 THEN id
        ELSE LET next == NextNames(c, kind, walk[n - 1])
             IN IF next = {} THEN walk[n - 1] ELSE CHOOSE t \in next : TRUE
  IN walk[Len(c.aliases)]

(* NewAliasSet: a walk that has not ended after all the aliases is a cycle.*)
AliasesLoad(c) ==
  /\ \A a \in ElementsOf(c.aliases) :
       /\ a.kind \in Kind /\ a.from # "" /\ a.to # "" /\ a.from # a.to
       /\ NextNames(c, a.kind, Resolve(c, a.kind, a.from)) = {}
  /\ Distinct([i \in DOMAIN c.aliases |-> <<c.aliases[i].kind, c.aliases[i].from>>])

(* ValidateCanonical.                                                      *)
AliasesFit(c) ==
  \A a \in ElementsOf(c.aliases) :
    /\ a.from \notin Canonical(c, a.kind)
    /\ Resolve(c, a.kind, a.from) \in Canonical(c, a.kind)

(* LoadFS. That no two manifests of a kind have one identifier is the      *)
(* shape of a catalog here.                                                *)
CatalogLoads(c) ==
  /\ Distinct(c.families)
  /\ Distinct([i \in DOMAIN c.scope |-> c.scope[i].id])
  /\ \A x \in c.exclusions : \A y \in c.exclusions : x.id = y.id => x = y
  /\ "" \notin UNION {ElementsOf(c.families), ScopeCases(c), DOMAIN c.cases, DOMAIN c.principles,
                      DOMAIN c.labs, DOMAIN c.adapters, DOMAIN c.sources}
  /\ AliasesLoad(c) /\ AliasesFit(c)

------------------------------------------------------------------------------
(* Owners, their labs, and what is complete.                               *)

Complete(e) == e.status = "complete"

OwnerKinds == {"case", "principle"}
Owners(c, kind) == IF kind = "case" THEN c.cases ELSE c.principles
LabKindOf(kind) == IF kind = "case" THEN "scenario" ELSE "primitive"

LabsOf(c, e) == {Resolve(c, "lab", l) : l \in e.labs}
PrinciplesOf(c, e) == {Resolve(c, "principle", p) : p \in e.principles}
OwnerOf(c, b) == <<b.kind, Resolve(c, b.kind, b.owner)>>

ClaimOwners(c, claim) ==
  UNION {{<<kind, id>> : id \in {o \in DOMAIN Owners(c, kind) : claim \in Owners(c, kind)[o].claims}}
         : kind \in OwnerKinds}

MissingOwnerFields(kind, e) ==
  \/ e.form = "blank"
  \/ kind = "case" /\ e.principles = {}
  \/ e.claims = {} \/ e.labs = {} \/ e.needs = {} \/ e.sources = {}

MissingLabFields(lab) ==
  \/ lab.form = "blank"
  \/ lab.impls = {} \/ lab.runs = <<>> \/ lab.sources = {}
  \/ \E kind \in OwnerKinds : LabKindOf(kind) = lab.kind /\ \A b \in ElementsOf(lab.bindings) : b.kind # kind
  \/ \E b \in ElementsOf(lab.bindings) : b.asserts = <<>>
  \/ \E run \in ElementsOf(lab.runs) : run.variants = <<>>

MissingAdapterFields(a) == a.form = "blank" \/ a.sources = {}

------------------------------------------------------------------------------
(* ComputeCoverage.                                                        *)

RequiredPrinciples(c) ==
  {p \in DOMAIN c.principles : c.principles[p].required}
  \cup UNION {PrinciplesOf(c, c.cases[id]) : id \in ScopeCases(c) \cap DOMAIN c.cases}

RequiredOwners(c, kind) ==
  (IF kind = "case" THEN ScopeCases(c) ELSE RequiredPrinciples(c)) \cap DOMAIN Owners(c, kind)

RequiredLabs(c, kind) ==
  (UNION {LabsOf(c, Owners(c, kind)[id]) : id \in RequiredOwners(c, kind)})
  \cup {l \in DOMAIN c.labs : c.labs[l].required /\ c.labs[l].kind = LabKindOf(kind)}

(* The labs that are required as what they are.                            *)
RequiredAsIs(c) ==
  UNION {{l \in RequiredLabs(c, kind) \cap DOMAIN c.labs : c.labs[l].kind = LabKindOf(kind)}
         : kind \in OwnerKinds}

RequiredAdapters(run) == {a.id : a \in {b \in ElementsOf(run.adapters) : b.required}}

CompleteCases(c) == {id \in DOMAIN c.cases : Complete(c.cases[id])}

FamilyCoverage(c, family) ==
  LET members == {s.id : s \in {t \in ElementsOf(c.scope) : t.family = family}} IN
  [required |-> Cardinality(members),
   complete |-> Cardinality({id \in members \cap CompleteCases(c) : c.cases[id].family = family})]

Coverage(c) ==
  [baseline |-> Cardinality(ScopeCases(c)), complete |-> Cardinality(CompleteCases(c)),
   missing |-> ScopeCases(c) \ CompleteCases(c), unexpected |-> CompleteCases(c) \ ScopeCases(c),
   families |-> [f \in ElementsOf(c.families) |-> FamilyCoverage(c, f)],
   principles |-> RequiredPrinciples(c),
   labs |-> [kind \in OwnerKinds |-> RequiredLabs(c, kind)],
   adapters |-> UNION {RequiredAdapters(run) : run \in UNION {ElementsOf(c.labs[l].runs) : l \in RequiredAsIs(c)}}]

------------------------------------------------------------------------------
(* BuildRequiredMatrix.                                                    *)

BindingsNamed(lab, id) == Picked(lab.bindings, {i \in DOMAIN lab.bindings : lab.bindings[i].id = id})

Owned(c, b) == OwnerOf(c, b) \in ClaimOwners(c, b.claim)

RunCodes(c, lab, run) ==
  LET found  == BindingsNamed(lab, run.binding)
      chosen == <<run.baseline>> \o run.variants
      needed == RequiredAdapters(run)
  IN (IF Len(found) # 1 THEN {"invalid_run_binding"}
      ELSE If(LabKindOf(found[1].kind) # lab.kind, "orphaned_lab")
           \cup If(run.workload # found[1].workload, "binding_workload_mismatch"))
     \cup If(~(ElementsOf(chosen) \subseteq lab.impls), "unknown_implementation")
     \cup If(~Distinct(chosen) \/ ~Distinct([i \in DOMAIN run.adapters |-> run.adapters[i].id]),
             "invalid_run_binding")
     \cup If(~(needed \subseteq DOMAIN c.adapters), "missing_required_adapter")
     \cup If(Complete(lab) /\ \E a \in needed \cap DOMAIN c.adapters : ~Complete(c.adapters[a]),
             "dependency_incomplete")

RunIsUnique(lab, run) == Cardinality({i \in DOMAIN lab.runs : lab.runs[i].id = run.id}) = 1

LabCodes(c, lab) ==
  If(~Distinct([i \in DOMAIN lab.bindings |-> lab.bindings[i].id]), "duplicate_binding_id")
  \cup If(\E b \in ElementsOf(lab.bindings) : ~Owned(c, b), "foreign_claim")
  \cup If(\E run \in ElementsOf(lab.runs) : ~RunIsUnique(lab, run), "duplicate_required_run")
  \cup (UNION {RunCodes(c, lab, run) : run \in ElementsOf(lab.runs)})
  \cup If(\E b \in ElementsOf(lab.bindings) :
            \/ Len(BindingsNamed(lab, b.id)) # 1
            \/ \A run \in ElementsOf(lab.runs) : run.binding # b.id,
          "unused_binding")

(* A run whose complete adapter has an empty field is left out of the      *)
(* matrix without a diagnostic of its own.                                 *)
RunCounts(c, lab, run) ==
  /\ RunIsUnique(lab, run) /\ RunCodes(c, lab, run) = {}
  /\ Owned(c, BindingsNamed(lab, run.binding)[1])
  /\ \A a \in RequiredAdapters(run) : Complete(c.adapters[a]) => ~MissingAdapterFields(c.adapters[a])

LabCounts(c, l) == l \in RequiredAsIs(c) /\ Complete(c.labs[l]) /\ ~MissingLabFields(c.labs[l])

CellsOf(c, l, run) ==
  LET b == BindingsNamed(c.labs[l], run.binding)[1]
      Cell(role, impl, adapter) ==
        [key |-> <<l, run.id, b.id, b.claim, impl, adapter>>, role |-> role,
         workload |-> run.workload, faults |-> run.faults, asserts |-> b.asserts]
  IN {Cell("baseline", run.baseline, "")}
     \cup {Cell("variant", v, "") : v \in ElementsOf(run.variants)}
     \cup {Cell("adapter", a, a) : a \in RequiredAdapters(run)}

PlaceOf(cell) == Append(cell.key, cell.role)

CountedRuns(c, l) == {run \in ElementsOf(c.labs[l].runs) : RunCounts(c, c.labs[l], run)}

MatrixCells(c) ==
  UNION {UNION {CellsOf(c, l, run) : run \in CountedRuns(c, l)} : l \in {l \in DOMAIN c.labs : LabCounts(c, l)}}

Matrix(c) == Sorted(MatrixCells(c), PlaceOf)

------------------------------------------------------------------------------
(* validateSchemaContracts.                                                *)

FormCodes(e, missing) ==
  If(e.form = "malformed", "invalid_stable_id")
  \cup If(e.status \notin {"draft", "complete"}, "status_vocabulary_mismatch")
  \cup If(Complete(e) /\ missing, "complete_contract_empty")

SchemaCodes(c) ==
  If(~(ElementsOf(c.families) \subseteq Family), "unknown_family")
  \cup (UNION {FormCodes(e, MissingOwnerFields("case", e)) : e \in ElementsOf(c.cases)})
  \cup (UNION {FormCodes(e, MissingOwnerFields("principle", e)) : e \in ElementsOf(c.principles)})
  \cup (UNION {FormCodes(e, MissingLabFields(e)) : e \in ElementsOf(c.labs)})
  \cup (UNION {FormCodes(e, MissingAdapterFields(e)) : e \in ElementsOf(c.adapters)})
  \cup If(\E lab \in ElementsOf(c.labs) : lab.kind \notin {"scenario", "primitive"}, "unknown_reference")

------------------------------------------------------------------------------
(* validateReferences.                                                     *)

KnownSources(c, e) == \A s \in e.sources : Resolve(c, "source", s) \in DOMAIN c.sources

(* A lab an owner may list, and a binding of it to this owner and a claim. *)
Fits(c, kind, l) == Resolve(c, "lab", l) \in DOMAIN c.labs
                    /\ c.labs[Resolve(c, "lab", l)].kind = LabKindOf(kind)

BoundTo(c, l, owner, claims) ==
  \E b \in ElementsOf(c.labs[Resolve(c, "lab", l)].bindings) : OwnerOf(c, b) = owner /\ b.claim \in claims

(* Mutant: any binding to the owner will do for a requirement.             *)
OwnerCodes_AnyBinding(c, kind, id) ==
  LET e == Owners(c, kind)[id] IN
  If(\E l \in e.labs : ~Fits(c, kind, l), "unknown_reference")
  \cup If(\E l \in e.labs : Fits(c, kind, l) /\ ~BoundTo(c, l, <<kind, id>>, e.claims), "missing_binding")
  \cup If(\E n \in e.needs :
            \/ n.claim \notin e.claims
            \/ ~Fits(c, kind, n.lab) \/ Resolve(c, "lab", n.lab) \notin LabsOf(c, e),
          "unknown_reference")
  \cup If(~KnownSources(c, e), "dangling_source")

OwnerCodes(c, kind, id) ==
  LET e == Owners(c, kind)[id]
      Listed(n) == Fits(c, kind, n.lab) /\ Resolve(c, "lab", n.lab) \in LabsOf(c, e)
  IN If(\E l \in e.labs : ~Fits(c, kind, l), "unknown_reference")
     \cup If(\E l \in e.labs : Fits(c, kind, l) /\ ~BoundTo(c, l, <<kind, id>>, e.claims), "missing_binding")
     \cup If(\E n \in e.needs : n.claim \notin e.claims \/ ~Listed(n), "unknown_reference")
     \cup If(\E n \in e.needs : Listed(n) /\ ~BoundTo(c, n.lab, <<kind, id>>, {n.claim}), "missing_binding")
     \cup If(~KnownSources(c, e), "dangling_source")

CaseCodes(c, id) ==
  LET e == c.cases[id] IN
  If(id \notin ScopeCases(c), "case_outside_scope")
  \cup If(~({e.family} \cup e.secondary \subseteq ElementsOf(c.families)), "unknown_family")
  \cup If(~(PrinciplesOf(c, e) \subseteq DOMAIN c.principles), "unknown_reference")

(* The edge back: every binding is one its owner lists and needs.          *)
BindingCodes(c, l, b) ==
  LET owner == OwnerOf(c, b)
      found == owner[2] \in DOMAIN Owners(c, b.kind)
      e     == Owners(c, b.kind)[owner[2]]
  IN IF LabKindOf(b.kind) # c.labs[l].kind
     THEN If(c.labs[l].kind \in {"scenario", "primitive"}, "orphaned_lab")
     ELSE IF ~found THEN {"unknown_reference", "orphaned_lab"}
     ELSE If(\/ l \notin LabsOf(c, e)
             \/ \A n \in e.needs : Resolve(c, "lab", n.lab) # l \/ n.claim # b.claim,
             "orphaned_lab")

LabReferenceCodes(c, l) ==
  If(\A kind \in OwnerKinds : \A e \in ElementsOf(Owners(c, kind)) : l \notin LabsOf(c, e), "orphaned_lab")
  \cup (UNION {BindingCodes(c, l, b) : b \in ElementsOf(c.labs[l].bindings)})
  \cup If(~KnownSources(c, c.labs[l]), "dangling_source")

ClaimsOf(c) == UNION {UNION {e.claims : e \in ElementsOf(Owners(c, kind))} : kind \in OwnerKinds}

ReferenceCodes(c) ==
  If(~Distinct(c.families), "duplicate_scope_family")
  \cup If(~Distinct([i \in DOMAIN c.scope |-> c.scope[i].id]), "duplicate_scope_case")
  \cup If(\E s \in ElementsOf(c.scope) : s.family \notin ElementsOf(c.families), "unknown_family")
  \cup If(\E x \in c.exclusions : Resolve(c, "case", x.canonical) \notin ScopeCases(c), "unknown_reference")
  \cup If("other" \in ElementsOf(c.sources), "invalid_source_url")
  \cup If(\E claim \in ClaimsOf(c) : Cardinality(ClaimOwners(c, claim)) > 1, "duplicate_claim_id")
  \cup (UNION {CaseCodes(c, id) : id \in DOMAIN c.cases})
  \cup (UNION {UNION {OwnerCodes(c, kind, id) : id \in DOMAIN Owners(c, kind)} : kind \in OwnerKinds})
  \cup (UNION {LabReferenceCodes(c, l) : l \in DOMAIN c.labs})
  \cup If(\E a \in ElementsOf(c.adapters) : ~KnownSources(c, a), "dangling_source")

------------------------------------------------------------------------------
(* validateDependencyGraph. The search for a cycle is left out: cases      *)
(* point to principles and labs, principles to labs, labs to adapters, and *)
(* nothing points back.                                                    *)

LabIncomplete(c, kind, l) ==
  l \in DOMAIN c.labs /\ (c.labs[l].kind # LabKindOf(kind) \/ ~Complete(c.labs[l]))

NeedsComplete(c, kind, e) ==
  \/ \E l \in LabsOf(c, e) : LabIncomplete(c, kind, l)
  \/ kind = "case" /\ \E p \in PrinciplesOf(c, e) \cap DOMAIN c.principles : ~Complete(c.principles[p])

HasPrimitiveEdge(c, p) ==
  \E l \in LabsOf(c, c.principles[p]) : l \notin DOMAIN c.labs \/ c.labs[l].kind = "primitive"

DependencyCodes(c, mode) ==
  LET required == RequiredPrinciples(c) \cup UNION {PrinciplesOf(c, c.cases[id]) : id \in CompleteCases(c)}
  IN If(\E kind \in OwnerKinds : \E e \in ElementsOf(Owners(c, kind)) : Complete(e) /\ NeedsComplete(c, kind, e),
        "dependency_incomplete")
     \cup If(\E p \in required \cap DOMAIN c.principles : ~HasPrimitiveEdge(c, p), "missing_required_principle_lab")
     \cup If(/\ mode = "release"
             /\ \/ \E p \in RequiredPrinciples(c) \cap DOMAIN c.principles : ~Complete(c.principles[p])
                \/ \E l \in RequiredAsIs(c) : ~Complete(c.labs[l]),
             "dependency_incomplete")

------------------------------------------------------------------------------
(* Validate.                                                               *)

ReleaseCodes(c) ==
  If(Coverage(c).missing # {} \/ Coverage(c).unexpected # {}, "release_scope_incomplete")
  \cup If(\E s \in ElementsOf(c.scope) : s.id \in CompleteCases(c) /\ c.cases[s.id].family # s.family,
          "release_family_mismatch")

Validate(c, mode) ==
  SchemaCodes(c) \cup ReferenceCodes(c) \cup DependencyCodes(c, mode)
  \cup (UNION {LabCodes(c, lab) : lab \in ElementsOf(c.labs)})
  \cup (IF mode = "release" THEN ReleaseCodes(c) ELSE {})
=============================================================================
