\* Two jobs with plans and one without, a collection and a manifest; interruptions.
SPECIFICATION FairSpec
CONSTANTS
  Jobs = {"a", "b", "v1"}
  Lanes = {"c", "m"}
  Manifests = {"m"}
  LanesOf <- MCLanesOf
  Destinations = {"x", "y"}
  To <- MCTo
  PlanOf <- MCPlanOf
  None = None
  BatchSize = 2
  Entries <- MCEntries
  MaxEntries = 3
  MaxStops = 1
INVARIANTS TypeOK CheckpointsAreCopied FinishedIsComplete
PROPERTY JobsFinish
