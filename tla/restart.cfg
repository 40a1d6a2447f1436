\* A pull-request scan whose agents may fail, SCR even after its output,
\* and one restart of the orchestrator.
SPECIFICATION Spec
CONSTANTS
  WorkflowNames = {"incremental-pr-scan"}
  Flows = {"fixed"}
  Incidents = {FALSE}
  Levels = {"low", "critical"}
  Approvers = {}
  FaultyAgents = {"scr", "reporting"}
  LateScrFault = TRUE
  MaxCrashes = 1
INVARIANTS
  CompletedHasRow
  PausedHasRow
\* a workflow ends: nothing is left to do
CHECK_DEADLOCK FALSE
