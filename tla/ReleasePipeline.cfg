CONSTANTS
  Rank <- MCRank
  Family = {"family", "other-family"}
  Input = {"input", "other-input"}
  RunSet = {"left", "right"}
  Id <- MCId
  Plan <- MCPlan
  Bits = 4
  Experiment <- MCExperiment
  FirstCatalog <- MCCatalog
  Text <- MCText
  Claim = {"claim-c", "claim-p", "claim-m"}
  CurrentInput = "input"
  Outcome <- MCOutcome
  MaxDeeds = 1
SPECIFICATION Spec
INVARIANTS GreenMeansProven AuditIsExact ReportIsAudited DiffIsExact
