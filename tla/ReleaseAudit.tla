---------------------------- MODULE ReleaseAudit ----------------------------
(***************************************************************************)
(* internal/evidence and internal/release as functions: what a sealed      *)
(* record and a manifest are, how a manifest is built of the records of a  *)
(* run set, how it is audited against the evidence store, and the seal by  *)
(* which an audited snapshot is known again.                               *)
(*                                                                         *)
(* A record's body keeps what the audit and the diff tell apart: identity, *)
(* its plan (start, workload, faults, seed, deadline, hypothesis and       *)
(* limitations, the units and the number of events, all fixed by the       *)
(* definition of its cell), status and checks, one measured value, and what*)
(* it said (environment, messages and conclusion). The digest of a content *)
(* stands for that content: collisions are left out.                       *)
(***************************************************************************)
EXTENDS CatalogRules

CONSTANTS Input,   \* the input digests
          RunSet,  \* the identities of run sets
          Id,      \* the identities of records
          Plan     \* the well-formed plans: [name, workload]

Profile == {"smoke", "deep"}
Status == {"passed", "failed", "skipped", "flaky", "inconclusive"}

(* A cell key is <<lab, run, binding, claim, implementation, adapter>>.    *)
ValidRole(role, key) ==
  \/ role \in {"baseline", "variant"} /\ key[6] = ""
  \/ role = "adapter" /\ key[6] # "" /\ key[6] = key[5]

------------------------------------------------------------------------------
(* Records.                                                                *)

ValidRecord(b) ==
  /\ b.id \in Id /\ b.runSet \in RunSet /\ b.input \in Input
  /\ b.profile \in Profile /\ b.status \in Status /\ b.plan \in Plan
  /\ ValidRole(b.role, b.key)
  /\ Distinct([i \in DOMAIN b.checks |-> b.checks[i].id])
  /\ b.status = "passed" => \A i \in DOMAIN b.checks : b.checks[i].passed

Hash(content) == <<"sha256", content>>

Seal(b) == [body |-> b, digest |-> Hash(b)]

(* Encode and Decode both insist on the content digest.                    *)
Encodable(r) == ValidRecord(r.body) /\ r.digest = Hash(r.body)

(* A store maps the name of each file to what it holds. Get and List take a*)
(* record only under its own name.                                         *)
Loads(store, id) == id \in DOMAIN store /\ Encodable(store[id]) /\ store[id].body.id = id
Get(store, id) == store[id]
Lists(store) == \A id \in DOMAIN store : Loads(store, id)

------------------------------------------------------------------------------
(* Manifests and the expected cells.                                       *)

PlaceOfSelection(s) == Append(s.key, s.role)

ValidManifest(m) ==
  /\ m.input \in Input /\ m.profile \in Profile /\ m.runSet \in RunSet
  /\ m.selections # <<>>
  /\ \A s \in ElementsOf(m.selections) : ValidRole(s.role, s.key) /\ s.id \in Id
  /\ Distinct([i \in DOMAIN m.selections |-> m.selections[i].key])
  /\ Distinct([i \in DOMAIN m.selections |-> m.selections[i].id])
  /\ Ordered(m.selections, PlaceOfSelection)

PlaceOfCell(e) == PlaceOf(e.cell)

ValidExpectedCell(e) ==
  /\ ValidRole(e.cell.role, e.cell.key)
  /\ e.profile \in Profile /\ e.plan \in Plan /\ e.plan.workload = e.cell.workload
  /\ Distinct(e.cell.faults) /\ Distinct(e.cell.asserts)

ValidExpected(expected) ==
  /\ expected # <<>>
  /\ \A e \in ElementsOf(expected) : ValidExpectedCell(e) /\ e.profile = expected[1].profile
  /\ Distinct([i \in DOMAIN expected |-> expected[i].cell.key])
  /\ Ordered(expected, PlaceOfCell)

ChecksMatch(b, e) ==
  /\ Len(b.checks) = Len(e.cell.asserts)
  /\ \A i \in DOMAIN b.checks : b.checks[i].id = e.cell.asserts[i] /\ b.checks[i].passed

Portable(b) == b.said # "unsafe"

MatchesExpected(r, e) ==
  LET b == r.body IN
  /\ Encodable(r) /\ Portable(b)
  /\ b.key = e.cell.key /\ b.role = e.cell.role
  /\ b.profile = e.profile /\ b.plan = e.plan
  /\ b.status = "passed" /\ ChecksMatch(b, e)

SelectionOf(r) == [role |-> r.body.role, key |-> r.body.key, id |-> r.body.id, digest |-> r.digest]

(* Build: one record of one run set and of this input for each cell, and   *)
(* nothing else. The records come in any order: they are a set here.       *)
RecordFor(current, e) == CHOOSE r \in current : r.body.key = e.cell.key

Manifest(input, expected, current) ==
  [input |-> input, profile |-> expected[1].profile,
   runSet |-> RecordFor(current, expected[1]).body.runSet,
   selections |-> Evaluated([i \in DOMAIN expected |-> SelectionOf(RecordFor(current, expected[i]))])]

Buildable(input, expected, current) ==
  /\ input \in Input /\ ValidExpected(expected)
  /\ Cardinality(current) = Len(expected)
  /\ \A r \in current : Encodable(r) /\ r.body.input = input
  /\ \A r \in current : \A q \in current :
       r.body.runSet = q.body.runSet /\ (r # q => r.body.id # q.body.id /\ r.body.key # q.body.key)
  /\ \A e \in ElementsOf(expected) :
       \E r \in current : r.body.key = e.cell.key /\ MatchesExpected(r, e)
  /\ ValidManifest(Manifest(input, expected, current))

------------------------------------------------------------------------------
(* AuditSnapshot: the codes of its diagnostics.                            *)

ExpectedAt(expected, key) == {e \in ElementsOf(expected) : e.cell.key = key}

HeaderCodes(m, expected) ==
  If(~ValidExpected(expected), "definition_mismatch")
  \cup If(~ValidManifest(m), "manifest_invalid")
  \cup If(expected # <<>> /\ m.profile # expected[1].profile, "profile_mismatch")
  \cup If(m.input \notin Input, "input_digest_mismatch")
  \cup If(~Distinct([i \in DOMAIN m.selections |-> m.selections[i].id]), "evidence_reused")
  \cup If(\E s \in ElementsOf(m.selections) : ExpectedAt(expected, s.key) = {}, "cell_mismatch")
  \cup If(Len(m.selections) # Len(expected), "selection_order_mismatch")

CellCodes(m, expected, i) ==
  LET cell  == expected[i].cell
      found == Picked(m.selections, {j \in DOMAIN m.selections : m.selections[j].key = cell.key})
  IN IF found = <<>> THEN {"cell_missing"}
     ELSE If(Len(found) > 1, "cell_duplicate")
          \cup If(found[1].role # cell.role, "cell_mismatch")
          \cup If(\/ i > Len(m.selections)
                  \/ m.selections[i].key # cell.key \/ m.selections[i].role # cell.role,
                  "selection_order_mismatch")

(* A selected record that cannot be loaded leaves its own diagnostic; one  *)
(* that can is compared with the selection, the header and the definition. *)
RecordCodes(m, expected, store, i) ==
  LET s == m.selections[i] IN
  IF s.id \notin DOMAIN store THEN {"evidence_missing"}
  ELSE IF ~Loads(store, s.id) THEN {"evidence_invalid"}
  ELSE LET r == Get(store, s.id)
           b == r.body
       IN If(b.id # s.id, "evidence_invalid")
          \cup If(r.digest # s.digest, "content_digest_mismatch")
          \cup If(b.runSet # m.runSet, "run_set_mismatch")
          \cup If(b.input # m.input, "input_digest_mismatch")
          \cup If(b.profile # m.profile, "profile_mismatch")
          \cup If(b.status # "passed", "status_not_passed")
          \cup (UNION {If(~ChecksMatch(b, e), "assertion_mismatch")
                      \cup If(~MatchesExpected(r, e),
                              IF Portable(b) THEN "definition_mismatch" ELSE "evidence_invalid")
                      : e \in ExpectedAt(expected, s.key)})
          \cup If(b.key # s.key \/ b.role # s.role, "cell_mismatch")
          \cup If(\E j \in 1 .. i - 1 : m.selections[j].key = s.key /\ Loads(store, m.selections[j].id),
                  "cell_duplicate")

(* Mutant: the history is not searched for records left out.               *)
HistoryCodes_NotSearched(m, store) == If(~Lists(store), "evidence_invalid")

(* Every other record of the manifest's run set counts against it.         *)
HistoryCodes(m, store) ==
  IF ~Lists(store) THEN {"evidence_invalid"}
  ELSE If(\E id \in DOMAIN store : /\ Get(store, id).body.runSet = m.runSet
                                   /\ \A s \in ElementsOf(m.selections) : s.id # id,
          "cell_duplicate")

AuditCodes(m, expected, store) ==
  HeaderCodes(m, expected)
  \cup (UNION {CellCodes(m, expected, i) : i \in DOMAIN expected})
  \cup (UNION {RecordCodes(m, expected, store, i) : i \in DOMAIN m.selections})
  \cup HistoryCodes(m, store)

------------------------------------------------------------------------------
(* The audited snapshot.                                                   *)

(* validateBoundSnapshot.                                                  *)
Bound(m, expected, records) ==
  /\ ValidManifest(m) /\ ValidExpected(expected)
  /\ Len(m.selections) = Len(expected) /\ Len(records) = Len(expected)
  /\ \A i \in DOMAIN expected :
       LET s == m.selections[i]  r == records[i]  e == expected[i] IN
       /\ s.key = e.cell.key /\ s.role = e.cell.role /\ SelectionOf(r) = s
       /\ r.body.input = m.input /\ r.body.profile = m.profile /\ r.body.runSet = m.runSet
       /\ MatchesExpected(r, e)

BindingSeal(m, expected, records) == <<Hash(m), Hash(expected), Hash(records)>>

(* What AuditSnapshot returns where it reports nothing: the records in the *)
(* order of the cells, sealed together with what they were audited against.*)
Audited(m, expected, store) ==
  LET records == Evaluated([i \in DOMAIN expected |-> Get(store, m.selections[i].id)]) IN
  [manifest |-> m, expected |-> expected, records |-> records,
   seal |-> BindingSeal(m, expected, records)]

Audit(m, expected, store) ==
  LET codes == AuditCodes(m, expected, store) IN
  IF codes # {} THEN codes
  ELSE If(~Bound(m, expected, Audited(m, expected, store).records), "definition_mismatch")

(* Mutant: the seal is not compared.                                       *)
Intact_NoSeal(a) == a.seal # <<>> /\ Bound(a.manifest, a.expected, a.records)

(* ValidateAuditedSnapshot: every use of an audited snapshot begins here.  *)
Intact(a) ==
  /\ a.seal # <<>>
  /\ Bound(a.manifest, a.expected, a.records)
  /\ a.seal = BindingSeal(a.manifest, a.expected, a.records)
=============================================================================
